------------------------------- MODULE PgWire -------------------------------
(***************************************************************************)
(* PostgreSQL messages as bytes (protocol/postgresql/src/lib.rs): the       *)
(* packets a client starts with, the messages it sends, and the messages    *)
(* the gateway answers with.  A byte is a number, numbers are big-endian,   *)
(* and a text is valid when it stays below 128.  What fails is <<>>, what   *)
(* succeeds <<result>>.                                                     *)
(***************************************************************************)
EXTENDS Integers, Sequences, SequencesExt, Functions, Topic, PgDial

ProtocolVersion3 == <<0, 3, 0, 0>>
SslRequestCode == <<4, 210, 22, 47>>
CancelRequestCode == <<4, 210, 22, 46>>
MaxStartupPacketLen == 1024 * 1024

(* to_be_bytes in w bytes, two's complement.                                *)
BigEndian(n, w) == [i \in 1..w |-> (n \div 256^(w - i)) % 256]

(* read_i16, read_i32.                                                      *)
ReadInt(bs) ==
  FoldLeft(LAMBDA v, b : v * 256 + b, IF bs[1] >= 128 THEN bs[1] - 256 ELSE bs[1], Tail(bs))

(* An i64, kept as its eight bytes: what a shorter number widens to.        *)
Widen(bs) == [i \in 1..8 - Len(bs) |-> IF bs[1] >= 128 THEN 255 ELSE 0] \o bs

ValidUtf8(bs) == \A i \in DOMAIN bs : bs[i] < 128

Drop(bs, n) == SubSeq(bs, n + 1, Len(bs))

(* Where the first NUL after the first n bytes is; 0 when there is none.    *)
find_null(bs, n) == SelectInSubSeq(bs, n + 1, Len(bs), LAMBDA b : b = 0)

(***************************************************************************)
(* Reading a body.  A reader has the fields read so far, the bytes left and *)
(* whether it has panicked; a body is read by taking one kind of field      *)
(* after the other.  A negative count is a capacity no vector can have,     *)
(* which is a panic.                                                        *)
(***************************************************************************)
Reader(bs) == [fields |-> <<>>, rest |-> bs, panics |-> FALSE]
Advance(r, value, n) == <<[r EXCEPT !.fields = Append(@, value), !.rest = Drop(@, n)]>>
Panicked(r) == <<[r EXCEPT !.panics = TRUE]>>

split_cstring(r) ==
  LET Text(nul) == IF nul = 0 \/ ~ValidUtf8(SubSeq(r.rest, 1, nul - 1)) THEN <<>>
                   ELSE Advance(r, SubSeq(r.rest, 1, nul - 1), nul)
  IN Text(find_null(r.rest, 0))

(* A count, then as many numbers of w bytes; a format is 0 or 1.            *)
TakeNumbers(r, w, formats) ==
  LET Numbers(numbers) == IF formats /\ ~(ToSet(numbers) \subseteq {0, 1}) THEN <<>>
                          ELSE Advance(r, numbers, 2 + w * Len(numbers))
      Counted(n) == IF n < 0 THEN Panicked(r)
                    ELSE IF Len(r.rest) < 2 + w * n THEN <<>>
                    ELSE Numbers([i \in 1..n |-> ReadInt(SubSeq(r.rest, 3 + w * (i - 1), 2 + w * i))])
  IN IF Len(r.rest) < 2 THEN <<>> ELSE Counted(ReadInt(SubSeq(r.rest, 1, 2)))

(* A count, then as many values of a length and that many bytes; a negative *)
(* length is NULL.                                                          *)
TakeValue(r) ==
  LET Value(len) == IF len < 0 THEN Advance(r, <<>>, 4)
                    ELSE IF Len(r.rest) < 4 + len THEN <<>>
                    ELSE Advance(r, <<SubSeq(r.rest, 5, 4 + len)>>, 4 + len)
  IN IF Len(r.rest) < 4 THEN <<>> ELSE Value(ReadInt(SubSeq(r.rest, 1, 4)))

TakeValues(r) ==
  LET After(read) == IF read = <<>> THEN <<>>
                     ELSE <<[r EXCEPT !.fields = Append(@, read[1].fields), !.rest = read[1].rest]>>
      Counted(n) == IF n < 0 THEN Panicked(r)
                    ELSE After(FoldLeft(LAMBDA s, i : IF s = <<>> THEN <<>> ELSE TakeValue(s[1]),
                                        <<Reader(Drop(r.rest, 2))>>, [i \in 1..n |-> i]))
  IN IF Len(r.rest) < 2 THEN <<>> ELSE Counted(ReadInt(SubSeq(r.rest, 1, 2)))

TakeField(r, what) ==
  CASE what = "cstring" -> split_cstring(r)
    [] what = "byte" -> IF r.rest = <<>> THEN <<>> ELSE Advance(r, r.rest[1], 1)
    [] what = "int" -> IF Len(r.rest) < 4 THEN <<>> ELSE Advance(r, ReadInt(SubSeq(r.rest, 1, 4)), 4)
    [] what \in {"oids", "formats"} -> TakeNumbers(r, IF what = "oids" THEN 4 ELSE 2, what = "formats")
    [] what = "values" -> TakeValues(r)

TakeFields(body, shape) ==
  LET Next1(r, what) == IF r = <<>> THEN r ELSE IF r[1].panics THEN r ELSE TakeField(r[1], what)
  IN FoldLeft(Next1, <<Reader(body)>>, shape)

(* The fields of a body that has exactly this shape.                        *)
ReadBody(body, shape) ==
  LET Whole(read) == IF read = <<>> THEN <<>>
                     ELSE IF read[1].panics \/ read[1].rest # <<>> THEN <<>> ELSE <<read[1].fields>>
  IN Whole(TakeFields(body, shape))

ParseShape == <<"cstring", "cstring", "oids">>
BindShape == <<"cstring", "cstring", "formats", "values", "formats">>

decode_single_cstring(body) == ReadBody(body, <<"cstring">>)
require_empty_body(body) == ReadBody(body, <<>>)
decode_parse_body(body) == ReadBody(body, ParseShape)
decode_describe_or_close_body(body) == ReadBody(body, <<"byte", "cstring">>)
decode_execute_body(body) == ReadBody(body, <<"cstring", "int">>)

(***************************************************************************)
(* Bind turns its values into text.  A number is its eight bytes: the text  *)
(* is its decimal form.                                                     *)
(***************************************************************************)
TextOf(bytes) == [k |-> "text", v |-> bytes]
NumberOf(bytes) == [k |-> "number", v |-> Widen(bytes)]
TruthOf(b) == [k |-> "truth", v |-> <<b>>]

decode_pg_binary_param_to_text(raw) ==
  CASE Len(raw) = 1 -> <<TruthOf(IF raw[1] = 0 THEN 0 ELSE 1)>>
    [] Len(raw) \in {2, 4, 8} -> <<NumberOf(raw)>>
    [] OTHER -> IF ValidUtf8(raw) THEN <<TextOf(raw)>> ELSE <<>>

(* The format of the i-th value: none means text, one is for all.           *)
(* Mutant of FormatOf: one format is for the first value only.              *)
FormatOf_first(formats, i) == IF i \in DOMAIN formats THEN formats[i] ELSE 0

FormatOf(formats, i) ==
  IF Len(formats) = 1 THEN formats[1]
  ELSE IF i \in DOMAIN formats THEN formats[i] ELSE 0

(* A text with a NUL in it and the length of a number is a number after     *)
(* all.                                                                     *)
ParamText(raw, format) ==
  IF format = 1 \/ ((\E i \in DOMAIN raw : raw[i] = 0) /\ Len(raw) \in {2, 4, 8})
  THEN decode_pg_binary_param_to_text(raw)
  ELSE IF ValidUtf8(raw) THEN <<TextOf(raw)>> ELSE <<>>

BindTexts(f) == [i \in DOMAIN f[4] |-> IF f[4][i] = <<>> THEN <<>> ELSE ParamText(f[4][i][1], FormatOf(f[3], i))]
AllTexts(f) == \A i \in DOMAIN f[4] : f[4][i] # <<>> => BindTexts(f)[i] # <<>>

decode_bind_body(body) ==
  LET Bound(f) == IF AllTexts(f) THEN <<<<f[1], f[2], BindTexts(f), f[5]>>>> ELSE <<>>
      Read(read) == IF read = <<>> THEN <<>> ELSE Bound(read[1])
  IN Read(ReadBody(body, BindShape))

(* The body of a Parse or Bind whose reading ends in a panic; the values    *)
(* are turned into text before the last count is read.                      *)
DecodePanics(tag, body) ==
  LET At(read) == IF read = <<>> THEN FALSE
                  ELSE read[1].panics /\ (Len(read[1].fields) = 4 => AllTexts(read[1].fields))
  IN At(TakeFields(body, IF tag = "P" THEN ParseShape ELSE BindShape))

(***************************************************************************)
(* The messages of a client.                                                *)
(***************************************************************************)
Tag == [Q |-> 81, X |-> 88, S |-> 83, H |-> 72, P |-> 80, B |-> 66, D |-> 68, E |-> 69, C |-> 67]

decode_frontend_message(frame) ==
  LET Fields(body) == CASE frame[1] = Tag.Q -> decode_single_cstring(body)
                        [] frame[1] \in {Tag.X, Tag.S, Tag.H} -> require_empty_body(body)
                        [] frame[1] = Tag.P -> decode_parse_body(body)
                        [] frame[1] = Tag.B -> decode_bind_body(body)
                        [] frame[1] \in {Tag.D, Tag.C} -> decode_describe_or_close_body(body)
                        [] frame[1] = Tag.E -> decode_execute_body(body)
                        [] OTHER -> <<>>
      Message(fields) == IF fields = <<>> THEN <<>> ELSE <<[tag |-> frame[1], fields |-> fields[1]]>>
      Declared(declared) == IF declared < 4 \/ declared + 1 # Len(frame) THEN <<>> ELSE Message(Fields(Drop(frame, 5)))
  IN IF Len(frame) < 5 THEN <<>> ELSE Declared(ReadInt(SubSeq(frame, 2, 5)))

(***************************************************************************)
(* The packets of a connection that starts.  Parameters are a function from *)
(* names to values; a name given twice has the last value.                  *)
(***************************************************************************)
RECURSIVE StartupParameters(_, _)

StartupParameters(payload, parameters) ==
  LET key == find_null(payload, 0)
      value == find_null(payload, key)
      name == SubSeq(payload, 1, key - 1)
      text == SubSeq(payload, key + 1, value - 1)
  IN IF payload = <<>> \/ key = 0 THEN <<>>
     ELSE IF key = 1 THEN IF Len(payload) = 1 THEN <<parameters>> ELSE <<>>
     ELSE IF value = 0 \/ ~ValidUtf8(name) \/ ~ValidUtf8(text) THEN <<>>
     ELSE StartupParameters(Drop(payload, value),
            [n \in DOMAIN parameters \cup {name} |-> IF n = name THEN text ELSE parameters[n]])

decode_startup_parameters(payload) ==
  IF payload = <<>> THEN <<>>
  ELSE IF Last(payload) # 0 THEN <<>> ELSE StartupParameters(payload, <<>>)

decode_startup_packet(frame) ==
  LET declared == ReadInt(SubSeq(frame, 1, 4))
      code == SubSeq(frame, 5, 8)
      parameters == decode_startup_parameters(Drop(frame, 8))
  IN IF Len(frame) < 8 \/ Len(frame) > MaxStartupPacketLen THEN <<>>
     ELSE IF declared < 8 \/ declared # Len(frame) THEN <<>>
     ELSE CASE code = SslRequestCode /\ declared = 8 -> <<[is |-> "SslRequest"]>>
            [] code = CancelRequestCode /\ declared = 16 ->
                 <<[is |-> "CancelRequest", process |-> ReadInt(SubSeq(frame, 9, 12)),
                    secret |-> ReadInt(SubSeq(frame, 13, 16))]>>
            [] code = ProtocolVersion3 /\ parameters # <<>> ->
                 <<[is |-> "Startup", parameters |-> parameters[1]]>>
            [] OTHER -> <<>>

(***************************************************************************)
(* What the gateway writes.                                                 *)
(***************************************************************************)
encode_untagged_packet(body) == BigEndian(Len(body) + 4, 4) \o body
encode_message(tag, body) == <<tag>> \o encode_untagged_packet(body)

CString(text) == text \o <<0>>

encode_startup_message(parameters) ==
  encode_untagged_packet(
    ProtocolVersion3
      \o FlattenSeq([i \in DOMAIN parameters |-> CString(parameters[i][1]) \o CString(parameters[i][2])])
      \o <<0>>)

encode_ssl_request == encode_untagged_packet(SslRequestCode)
encode_cancel_request(process, secret) ==
  encode_untagged_packet(CancelRequestCode \o BigEndian(process, 4) \o BigEndian(secret, 4))

encode_query_message(sql) == encode_message(Tag.Q, CString(sql))
encode_terminate_message == encode_message(Tag.X, <<>>)
encode_sync_message == encode_message(Tag.S, <<>>)

Answer == [T |-> 84, D |-> 68, C |-> 67, Z |-> 90, t |-> 116, s |-> 115, E |-> 69]

encode_command_complete(tag) == encode_message(Answer.C, CString(tag))
encode_ready_for_query(status) == encode_message(Answer.Z, <<status>>)
encode_parameter_description(oids) ==
  encode_message(Answer.t, BigEndian(Len(oids), 2) \o FlattenSeq([i \in DOMAIN oids |-> BigEndian(oids[i], 4)]))

(* A field is its name, the number and size of its type and its format.     *)
encode_row_description(fields) ==
  encode_message(Answer.T,
    BigEndian(Len(fields), 2)
      \o FlattenSeq([i \in DOMAIN fields |->
           CString(fields[i].name) \o BigEndian(0, 4) \o BigEndian(0, 2) \o BigEndian(fields[i].oid, 4)
             \o BigEndian(fields[i].size, 2) \o BigEndian(-1, 4) \o BigEndian(fields[i].format, 2)]))

encode_data_row(values) ==
  encode_message(Answer.D,
    BigEndian(Len(values), 2)
      \o FlattenSeq([i \in DOMAIN values |->
           IF values[i] = <<>> THEN BigEndian(-1, 4) ELSE BigEndian(Len(values[i][1]), 4) \o values[i][1]]))

(***************************************************************************)
(* The relay cuts what the server sends into messages without reading them  *)
(* (pg_tcp_relay.rs): what is cut off, and what is left for the next time.  *)
(* A length below four is a protocol error.                                 *)
(***************************************************************************)
try_split_frame(buf) ==
  LET Uncut(error) == [frame |-> <<>>, rest |-> buf, error |-> error]
      Cut(total) == IF total < 5 THEN Uncut(TRUE)
                    ELSE IF Len(buf) < total THEN Uncut(FALSE)
                    ELSE [frame |-> SubSeq(buf, 1, total), rest |-> Drop(buf, total), error |-> FALSE]
  IN IF Len(buf) < 5 THEN Uncut(FALSE) ELSE Cut(1 + ReadInt(SubSeq(buf, 2, 5)))

(* next_raw_frame over the reads of a connection: cut while a message is    *)
(* whole, else read more.                                                   *)
RECURSIVE CutAll(_)
CutAll(s) ==
  LET cut == try_split_frame(s.buf)
  IN IF cut.frame = <<>> THEN s
     ELSE CutAll([frames |-> Append(s.frames, cut.frame), buf |-> cut.rest])

ReadFrames(chunks) ==
  FoldLeft(LAMBDA s, chunk : CutAll([s EXCEPT !.buf = s.buf \o chunk]), [frames |-> <<>>, buf |-> <<>>], chunks)

(* poll_packets of a relayed answer: up to max messages, ending with        *)
(* ReadyForQuery, or, where no Sync was sent, with the message that ends a  *)
(* page: CommandComplete, PortalSuspended or ErrorResponse.                 *)
EndsUnit(frame, stopBeforeReady) ==
  frame[1] = Answer.Z \/ (stopBeforeReady /\ frame[1] \in {Answer.C, Answer.s, Answer.E})

poll_packets(frames, max, stopBeforeReady) ==
  LET ends == {i \in DOMAIN frames : EndsUnit(frames[i], stopBeforeReady)}
      n == Min({Max({max, 1}), Len(frames)} \cup ends)
  IN [batch |-> SubSeq(frames, 1, n), rest |-> Drop(frames, n),
      done |-> n \in ends \/ (n = Len(frames) /\ n < Max({max, 1}))]

-----------------------------------------------------------------------------
(***************************************************************************)
(* Values on their way to and from a PostgreSQL server: the parameters of a *)
(* prepared statement (backend/postgresql.rs), numbers of the type NUMERIC, *)
(* the values of a row, and rows in the binary format                       *)
(* (frontend/postgresql.rs).                                                *)
(***************************************************************************)

(***************************************************************************)
(* NUMERIC.  A decimal text has a sign and digits on both sides of the      *)
(* point; on the wire it is words of two bytes: how many groups of four     *)
(* digits follow, the sign, the weight of the first group, how many digits  *)
(* to show after the point, and the groups.  The wire form of zero is an    *)
(* empty buffer.                                                            *)
(***************************************************************************)
Decimal(neg, int, frac) == [neg |-> neg, int |-> int, frac |-> frac]
Zeros(n) == [i \in 1..n |-> 0]
Pad(n) == (4 - (n % 4)) % 4

WithoutLeadingZeros(ds) ==
  LET From(nonzero) == IF nonzero = 0 THEN <<>> ELSE Drop(ds, nonzero - 1) IN From(SelectInSeq(ds, LAMBDA d : d # 0))

(* The value of each four digits.                                           *)
GroupsOf(ds) ==
  [g \in 1..Len(ds) \div 4 |-> FoldLeft(LAMBDA v, d : v * 10 + d, 0, SubSeq(ds, 4 * g - 3, 4 * g))]

NegativeSign == 16384
WordBytes(numbers) == FlattenSeq([i \in DOMAIN numbers |-> BigEndian(numbers[i], 2)])

to_wire(t) ==
  LET significant == WithoutLeadingZeros(t.int \o t.frac \o Zeros(Pad(Len(t.frac))))
      aligned == Zeros(Pad(Len(significant))) \o significant
  IN IF t.int = <<>> /\ t.frac = <<>> THEN <<>>
     ELSE IF significant = <<>> THEN <<<<>>>>
     ELSE <<WordBytes(<<Len(aligned) \div 4, IF t.neg THEN NegativeSign ELSE 0,
                    Len(aligned) \div 4 - 1 - (IF Pad(Len(t.frac)) > 0 THEN 1 ELSE 0), Len(t.frac)>>
                  \o GroupsOf(aligned))>>

FourDigits(g) == <<g \div 1000, (g \div 100) % 10, (g \div 10) % 10, g % 10>>

(* A number without leading zeros, at least one digit.                      *)
Plainly(g) == IF g = 0 THEN <<0>> ELSE WithoutLeadingZeros(FourDigits(g))

WordAt(buf, k) == ReadInt(SubSeq(buf, 2 * k - 1, 2 * k))

pg_numeric_to_text(buf) ==
  LET ndigits == WordAt(buf, 1) % 65536
      sign == WordAt(buf, 2) % 65536
      weight == WordAt(buf, 3)
      scale == WordAt(buf, 4) % 65536
      groups == [g \in 1..ndigits |-> WordAt(buf, 4 + g)]
      Group(g) == IF g = 1 THEN Plainly(groups[1]) ELSE FourDigits(groups[g])
      IntPart(n) == IF n = 0 THEN <<0>>
                    ELSE FlattenSeq([g \in 1..Min({n, ndigits}) |-> Group(g)]) \o Zeros(4 * (n - Min({n, ndigits})))
      FracPart(n) == SubSeq(FlattenSeq([g \in 1..ndigits - n |-> FourDigits(groups[n + g])]) \o Zeros(scale), 1, scale)
      Text(n) == Decimal(sign = NegativeSign, IntPart(n), FracPart(n))
  IN IF Len(buf) < 8 THEN <<>>
     ELSE IF Len(buf) < 8 + 2 * ndigits \/ sign \notin {0, NegativeSign} THEN <<>>
     ELSE IF ndigits = 0 THEN <<Decimal(FALSE, <<0>>, Zeros(scale))>>
     ELSE <<Text(IF weight >= 0 THEN weight + 1 ELSE 0)>>

(* The characters of a decimal text.                                        *)
Spelt10(t) ==
  LET Digits10(ds) == [i \in DOMAIN ds |-> 48 + ds[i]]
  IN (IF t.neg THEN <<45>> ELSE <<>>) \o Digits10(t.int) \o (IF t.frac = <<>> THEN <<>> ELSE <<46>> \o Digits10(t.frac))

(***************************************************************************)
(* Parameters.  A text is what it looks like, its value, and whether it is  *)
(* spelt the way a value of that kind is written; the slot of a parameter   *)
(* is a kind and a value.                                                   *)
(***************************************************************************)
Spelling(form, v, plain) == [form |-> form, v |-> v, plain |-> plain]
BoundAs(k, v) == [k |-> k, v |-> v]

TextTypes == {"varchar", "text", "bpchar", "name", "unknown"}

(* Whether a number fits an i32: bounds stand for the numbers beyond.       *)
FitsI32(n) == n \in -2..2

IntegerSlot(n) == BoundAs(IF FitsI32(n) THEN "I32" ELSE "I64", n)

(* Whole numbers without a sign are numbers, then dates and times, then     *)
(* truth values; everything else stays a text.                              *)
classify_pg_string_param(s) ==
  CASE s.form = "digits" -> IntegerSlot(s.v)
    [] s.form = "timestamp" -> BoundAs("Timestamp", s.v)
    [] s.form = "date" -> BoundAs("Date", s.v)
    [] s.form = "time" -> BoundAs("Time", s.v)
    [] s.form = "truth" -> BoundAs("Bool", s.v)
    [] OTHER -> BoundAs("Text", s)

(* PgParamBind::from_values.  An unsigned number beyond i64 and a byte      *)
(* string are bound as texts.                                               *)
from_value(value) ==
  CASE value.k = "Null" -> BoundAs("Null", 0)
    [] value.k = "Boolean" -> BoundAs("Bool", value.v)
    [] value.k = "Integer" -> IntegerSlot(value.v)
    [] value.k = "Huge" -> BoundAs("Text", Spelling("digits", value.v, TRUE))
    [] value.k = "Float" -> BoundAs("F64", value.v)
    [] value.k = "Decimal" -> BoundAs("Text", value.v)
    [] value.k = "String" -> classify_pg_string_param(value.v)
    [] value.k = "Bytes" -> BoundAs("Text", Spelling("hex", value.v, TRUE))

(* How the value of a slot is written as a text.                            *)
to_text_literal(slot) ==
  CASE slot.k = "Text" -> slot.v
    [] slot.k = "Numeric" -> slot.v
    [] slot.k = "Null" -> Spelling("empty", 0, TRUE)
    [] slot.k = "Bool" -> Spelling("truth", slot.v, TRUE)
    [] slot.k \in {"I32", "I64"} -> Spelling(IF slot.v < 0 THEN "signed" ELSE "digits", slot.v, TRUE)
    [] slot.k = "F64" -> Spelling("decimal", slot.v, TRUE)
    [] slot.k = "Date" -> Spelling("date", slot.v, TRUE)
    [] slot.k = "Time" -> Spelling("time", slot.v, TRUE)
    [] slot.k = "Timestamp" -> Spelling("timestamp", slot.v, TRUE)

(* Whole numbers of an i64, and decimal numbers.                            *)
ParsesAsI64(s) == s.form \in {"digits", "signed"} /\ s.v \in -4..4
ParsesAsF64(s) == s.form \in {"digits", "signed", "decimal"}

(* A moment is ten times its day plus the time of day.                      *)
DayOnly(moment) == (moment \div 10) * 10

(* The slot retyped to the declared type, where a rule says so.             *)
Retyped(slot, type) ==
  CASE slot.k = "I32" /\ type = "int8" -> BoundAs("I64", slot.v)
    [] slot.k = "I64" /\ type = "int4" /\ FitsI32(slot.v) -> BoundAs("I32", slot.v)
    [] slot.k = "Text" /\ type \in {"int2", "int4", "int8"} /\ ParsesAsI64(slot.v) ->
         BoundAs(IF type = "int8" \/ ~FitsI32(slot.v.v) THEN "I64" ELSE "I32", slot.v.v)
    [] slot.k = "Text" /\ type = "float8" /\ ParsesAsF64(slot.v) -> BoundAs("F64", slot.v.v)
    [] slot.k = "Text" /\ type = "numeric" /\ ParsesAsF64(slot.v) -> BoundAs("Numeric", slot.v)
    [] slot.k = "Timestamp" /\ type = "date" -> BoundAs("Date", DayOnly(slot.v))
    [] OTHER -> slot

covered(slot, type) ==
  CASE slot.k = "Null" -> TRUE
    [] slot.k = "Numeric" -> type = "numeric"
    [] slot.k = "Bool" -> type = "bool"
    [] slot.k = "I32" -> type = "int4"
    [] slot.k = "I64" -> type = "int8"
    [] slot.k = "F64" -> type = "float8"
    [] slot.k = "Date" -> type = "date"
    [] slot.k = "Time" -> type = "time"
    [] slot.k = "Timestamp" -> type = "timestamp"
    [] slot.k = "Text" -> type \in TextTypes

conform_pg_param_slots(slots, declared) ==
  LET n == Min({Len(slots), Len(declared)})
      retyped == [i \in 1..n |-> Retyped(slots[i], declared[i])]
  IN [slots |-> [i \in DOMAIN slots |->
        IF i > n THEN slots[i]
        ELSE IF covered(retyped[i], declared[i]) THEN retyped[i]
        ELSE BoundAs("Text", to_text_literal(retyped[i]))],
      texts |-> {i \in 1..n : ~covered(retyped[i], declared[i])}]

(***************************************************************************)
(* Calendar.  Days since 2000-01-01; a time is its seconds and millionths.  *)
(***************************************************************************)
Quotient(a, b) == IF a >= 0 THEN a \div b ELSE -((-a) \div b)

days_since_unix_epoch(year, month, day) ==
  LET doy == (153 * (IF month > 2 THEN month - 3 ELSE month + 9) + 2) \div 5 + day - 1
      Days(era, yoe) == era * 146097 + yoe * 365 + yoe \div 4 - yoe \div 100 + doy - 719468
      InEra(y, era) == Days(era, y - era * 400)
      InYear(y) == InEra(y, Quotient(IF y >= 0 THEN y ELSE y - 399, 400))
  IN InYear(year - (IF month <= 2 THEN 1 ELSE 0))

days_from_pg_epoch(year, month, day) == days_since_unix_epoch(year, month, day) - 10957

(* A date: numbers of a month and a day that some month has.                *)
parse_ymd(t) == IF t[2] \in 1..12 /\ t[3] \in 1..31 THEN <<t>> ELSE <<>>

parse_pg_date_days(t) == IF parse_ymd(t) = <<>> THEN <<>> ELSE <<days_from_pg_epoch(t[1], t[2], t[3])>>

(* A time of day and the digits after the point, at most six.               *)
parse_hms_micro_pg(t) ==
  IF t.h > 24 \/ t.m > 59 \/ t.s > 60 \/ Len(t.frac) > 6 THEN <<>>
  ELSE <<[secs |-> t.h * 3600 + t.m * 60 + t.s,
          micros |-> FoldLeft(LAMBDA v, d : v * 10 + d, 0, t.frac \o Zeros(6 - Len(t.frac)))]>>

(* A zone is nothing, Z, or a sign with hours and minutes; the seconds east *)
(* of UTC, where a zone may be given.                                       *)
split_tz_offset(zone, allowTz) ==
  CASE zone = <<>> -> <<0>>
    [] ~allowTz -> <<>>
    [] zone = <<"Z">> -> <<0>>
    [] OTHER -> IF zone[2] \in 0..14 /\ zone[3] \in 0..59
                THEN <<zone[1] * (zone[2] * 3600 + zone[3] * 60)>> ELSE <<>>

parse_pg_timestamp_us(t, allowTz) ==
  LET Moment(zone, days, time) ==
        IF zone = <<>> \/ days = <<>> \/ time = <<>> THEN <<>>
        ELSE <<[secs |-> days[1] * 86400 + time[1].secs - zone[1], micros |-> time[1].micros]>>
  IN Moment(split_tz_offset(t.zone, allowTz), parse_pg_date_days(t.date), parse_hms_micro_pg(t.time))

(***************************************************************************)
(* Rows.  A cell is NULL or a value; a number has its eight bytes, a float  *)
(* the bits of both of its sizes, a text its bytes.                         *)
(***************************************************************************)
NullCell == [k |-> "Null", v |-> <<>>]
PgCell(k, v) == [k |-> k, v |-> v]

(* The number and the size of a type; every other name is text.             *)
postgresql_type_info(type) ==
  CASE type = "bool" -> <<16, 1>>
    [] type = "int2" -> <<21, 2>>
    [] type = "int4" -> <<23, 4>>
    [] type = "int8" -> <<20, 8>>
    [] type = "float4" -> <<700, 4>>
    [] type = "float8" -> <<701, 8>>
    [] type = "numeric" -> <<1700, -1>>
    [] type = "date" -> <<1082, 4>>
    [] type = "time" -> <<1083, 8>>
    [] type = "timestamp" -> <<1114, 8>>
    [] type = "timestamptz" -> <<1184, 8>>
    [] type = "bytea" -> <<17, -1>>
    [] type = "varchar" -> <<1043, -1>>
    [] OTHER -> <<25, -1>>

gateway_column_to_postgresql_field(column) ==
  [name |-> column.name, oid |-> postgresql_type_info(column.type)[1],
   size |-> postgresql_type_info(column.type)[2], format |-> 0]

NumericCell(raw) ==
  IF raw = <<>> THEN <<NullCell>>
  ELSE LET Cell(text) == IF text = <<>> THEN <<>> ELSE <<PgCell("String", Spelt10(text[1]))>> IN Cell(pg_numeric_to_text(raw[1]))

(* What the server sent in the binary format, by the type of the column.    *)
(* Types without a reader of their own are tried as text, and the driver    *)
(* reads as text only what is text; the rest is an error, NULL or not.      *)
typed_value(type, raw) ==
  CASE type \in {"bool", "int2", "int4", "int8", "float4", "float8"} /\ raw = <<>> -> <<NullCell>>
    [] type = "bool" -> <<PgCell("Boolean", raw[1])>>
    [] type \in {"int2", "int4", "int8"} -> <<PgCell("Integer", Widen(raw[1]))>>
    [] type = "float4" -> <<PgCell("Float", [f32 |-> raw[1], f64 |-> Zeros(4) \o raw[1]])>>
    [] type = "float8" -> <<PgCell("Float", [f32 |-> SubSeq(raw[1], 1, 4), f64 |-> raw[1]])>>
    [] type = "numeric" -> NumericCell(raw)
    [] OTHER -> IF type \in TextTypes THEN <<IF raw = <<>> THEN NullCell ELSE PgCell("String", raw[1])>> ELSE <<>>

typed_row_to_gateway_values(row, types) ==
  LET All(values) == IF \E i \in DOMAIN values : values[i] = <<>> THEN <<>>
                     ELSE <<[i \in DOMAIN values |-> values[i][1]]>>
  IN All([i \in DOMAIN row |-> typed_value(types[i], row[i])])

(* A prefix of at most max rows, 0 standing for no limit; no rows at all    *)
(* have no columns either.                                                  *)
rows_to_gateway_response(rows, columns, max) ==
  LET kept == SubSeq(rows, 1, IF max = 0 THEN Len(rows) ELSE Min({max, Len(rows)}))
      types == [i \in DOMAIN columns |-> columns[i].type]
      All(out) == IF \E i \in DOMAIN out : out[i] = <<>> THEN <<>>
                  ELSE <<[columns |-> columns, rows |-> [i \in DOMAIN out |-> out[i][1]]]>>
  IN IF rows = <<>> THEN <<[columns |-> <<>>, rows |-> <<>>]>>
     ELSE All([i \in DOMAIN kept |-> typed_row_to_gateway_values(kept[i], types)])

(* The low bytes of a number, whatever it is.                               *)

encode_pg_int_binary(bytes, type) ==
  CASE type = "int2" -> SubSeq(bytes, 7, 8) [] type = "int8" -> bytes [] OTHER -> SubSeq(bytes, 5, 8)

(* Microseconds in eight bytes: the seconds times a million, byte by byte   *)
(* from the last one.                                                       *)
Microseconds(t) ==
  LET secs == Widen(BigEndian(t.secs, 4))
  IN FoldLeft(LAMBDA s, i : LET v == secs[9 - i] * 1000000 + s.carry
                            IN [bytes |-> <<v % 256>> \o s.bytes, carry |-> v \div 256],
              [bytes |-> <<>>, carry |-> t.micros], [i \in 1..8 |-> i]).bytes

(* A text that spells a date or a time of the column's type is turned into  *)
(* its number or refused; any other text keeps its bytes.                   *)
SpeltBinary(value, type) ==
  LET Bytes(number) == IF number = <<>> THEN <<>>
                       ELSE <<<<IF type = "date" THEN BigEndian(number[1], 4) ELSE Microseconds(number[1])>>>>
  IN Bytes(CASE type = "date" -> parse_pg_date_days(value.v)
             [] type = "time" -> parse_hms_micro_pg(value.v)
             [] OTHER -> parse_pg_timestamp_us(value.v, type = "timestamptz"))

gateway_value_to_pg_binary(value, type) ==
  CASE value.k = "Null" -> <<<<>>>>
    [] value.k = "Boolean" -> <<<<value.v>>>>
    [] value.k = "Integer" ->
         <<<<IF type \in {"timestamp", "timestamptz"} THEN value.v ELSE encode_pg_int_binary(value.v, type)>>>>
    [] value.k = "Float" -> <<<<IF type = "float4" THEN value.v.f32 ELSE value.v.f64>>>>
    [] value.k = "Spelt" -> SpeltBinary(value, type)
    [] value.k \in {"String", "Bytes"} -> <<<<value.v>>>>

(* The answer with its rows in the binary format: the header unless it was  *)
(* sent before, the rows, the end, and ReadyForQuery unless more follows.   *)
SelectTag(n) == <<83, 69, 76, 69, 67, 84, 32, 48 + n>>

encode_pg_resultset_rows_binary(columns, rows) ==
  LET All(cells) ==
        IF \E i \in DOMAIN rows, j \in DOMAIN columns : cells[i][j] = <<>> THEN <<>>
        ELSE <<[i \in DOMAIN rows |-> encode_data_row([j \in DOMAIN columns |-> cells[i][j][1]])]>>
  IN IF \E i \in DOMAIN rows : Len(rows[i]) # Len(columns) THEN <<>>
     ELSE All([i \in DOMAIN rows |-> [j \in DOMAIN columns |->
                 gateway_value_to_pg_binary(rows[i][j], columns[j].type)]])

encode_resultset_binary_opts(columns, rows, ready, skipHeader) ==
  LET data == encode_pg_resultset_rows_binary(columns, rows)
      header == encode_row_description([i \in DOMAIN columns |->
                  [gateway_column_to_postgresql_field(columns[i]) EXCEPT !.format = 1]])
  IN IF data = <<>> THEN <<>>
     ELSE <<(IF skipHeader THEN <<>> ELSE <<header>>) \o data[1]
            \o <<encode_command_complete(SelectTag(Len(rows)))>>
            \o (IF ready = <<>> THEN <<>> ELSE <<encode_ready_for_query(ready[1])>>)>>

(***************************************************************************)
(* The answer of a simple query: rows with texts and the count of each      *)
(* command (simple_query_messages_to_gateway_response), and the messages    *)
(* made of it (logical_response_to_pg_wire).                                *)
(***************************************************************************)

TakeSimple(s, message, max) ==
  CASE message.k = "row" ->
         IF max > 0 /\ Len(s.rows) >= max THEN s
         ELSE [s EXCEPT !.columns = IF s.columns = <<>> THEN message.columns ELSE s.columns,
                        !.rows = Append(s.rows, message.values)]
    [] message.k = "complete" -> [s EXCEPT !.affected = message.n]
    [] OTHER -> s

simple_query_messages_to_gateway_response(messages, max) ==
  LET s == FoldLeft(LAMBDA t, m : TakeSimple(t, m, max), [columns |-> <<>>, rows |-> <<>>, affected |-> 0], messages)
  IN IF s.columns # <<>> THEN [k |-> "ResultSet", columns |-> s.columns, rows |-> s.rows]
     ELSE [k |-> "Ok", affected |-> s.affected]

OkTag(n) == <<79, 75, 32, 48 + n>>

(* Every column is a text, whatever the server called it.                   *)
logical_response_to_pg_wire(response, status) ==
  IF response.k = "Ok" THEN <<<<encode_command_complete(OkTag(response.affected)), encode_ready_for_query(status)>>>>
  ELSE IF \E i \in DOMAIN response.rows : Len(response.rows[i]) # Len(response.columns) THEN <<>>
  ELSE <<<<encode_row_description([i \in DOMAIN response.columns |->
             [name |-> response.columns[i], oid |-> 25, size |-> -1, format |-> 0]])>>
         \o [i \in DOMAIN response.rows |-> encode_data_row(response.rows[i])]
         \o <<encode_command_complete(SelectTag(Len(response.rows))), encode_ready_for_query(status)>>>>

-----------------------------------------------------------------------------
(***************************************************************************)
(* What a PostgreSQL client or server writes is what the gateway reads, and *)
(* the other way round.                                                     *)
(***************************************************************************)

(***************************************************************************)
(* Messages a client can send: how it writes them, and what they say.       *)
(***************************************************************************)
PgNames == {<<>>, <<115>>, <<115, 49>>}
ValuesSent == {<<>>, <<<<>>>>, <<<<49>>>>, <<<<0>>>>, <<<<0, 7>>>>, <<<<255, 254>>>>, <<<<0, 0, 1, 44>>>>, <<<<97, 98, 99>>>>,
               <<<<255, 255, 255, 255, 255, 255, 255, 251>>>>}
FormatLists == {<<>>, <<0>>, <<1>>, <<0, 1>>, <<1, 0>>}

BindBody(portal, statement, formats, sent, results) ==
  CString(portal) \o CString(statement)
    \o BigEndian(Len(formats), 2) \o FlattenSeq([i \in DOMAIN formats |-> BigEndian(formats[i], 2)])
    \o BigEndian(Len(sent), 2)
    \o FlattenSeq([i \in DOMAIN sent |->
         IF sent[i] = <<>> THEN BigEndian(-1, 4) ELSE BigEndian(Len(sent[i][1]), 4) \o sent[i][1]])
    \o BigEndian(Len(results), 2) \o FlattenSeq([i \in DOMAIN results |-> BigEndian(results[i], 2)])

ClientMessage(tag, fields, body) == [says |-> [tag |-> Tag[tag], fields |-> fields], bytes |-> body]

PlainMessages ==
  {ClientMessage("Q", <<q>>, CString(q)) : q \in PgNames}
    \cup {ClientMessage(t, <<>>, <<>>) : t \in {"X", "S", "H"}}
    \cup {ClientMessage("P", <<s, q, oids>>,
            CString(s) \o CString(q) \o BigEndian(Len(oids), 2) \o FlattenSeq([i \in DOMAIN oids |-> BigEndian(oids[i], 4)])) :
            s \in PgNames, q \in PgNames, oids \in {<<>>, <<23>>, <<0, 1700>>}}
    \cup {ClientMessage(t, <<k, n>>, <<k>> \o CString(n)) : t \in {"D", "C"}, k \in {83, 80}, n \in PgNames}
    \cup {ClientMessage("E", <<p, max>>, CString(p) \o BigEndian(max, 4)) : p \in PgNames, max \in {0, 1, 300}}

(* The body with a byte more, a byte less, or one cut out of the middle.    *)
Damaged(body) ==
  {Append(body, b) : b \in {0, 97}} \cup (IF body = <<>> THEN {} ELSE {Front(body)})

(* A bind of two values that the formats are enough for.                    *)
Binds ==
  {b \in [portal : {<<>>, <<112>>}, formats : FormatLists, sent : {<<>>} \cup {<<v>> : v \in ValuesSent}
            \cup {<<v, w>> : v \in ValuesSent, w \in ValuesSent}, results : {<<>>, <<1>>, <<0, 1>>}] :
     Len(b.formats) \in {0, 1, Len(b.sent)}}

(* What a value says in its format.  In text it has no NUL; in binary a     *)
(* number has two, four or eight bytes, a truth value one, and a text any   *)
(* other length.                                                            *)
SaysInText(raw) == ValidUtf8(raw) /\ \A i \in DOMAIN raw : raw[i] # 0
SaysInBinary(raw) ==
  CASE Len(raw) = 1 -> TruthOf(IF raw[1] = 0 THEN 0 ELSE 1)
    [] Len(raw) \in {2, 4, 8} -> NumberOf(raw)
    [] OTHER -> TextOf(raw)

IsBinary(b, i) == IF Len(b.formats) = 1 THEN b.formats[1] = 1 ELSE i \in DOMAIN b.formats /\ b.formats[i] = 1

WellBound(b) == \A i \in DOMAIN b.sent :
  b.sent[i] # <<>> /\ ~IsBinary(b, i) => SaysInText(b.sent[i][1])

SaysBound(b) == [i \in DOMAIN b.sent |->
  IF b.sent[i] = <<>> THEN <<>>
  ELSE <<IF IsBinary(b, i) THEN SaysInBinary(b.sent[i][1]) ELSE TextOf(b.sent[i][1])>>]

(***************************************************************************)
(* A connection that starts: pairs of names and values.                     *)
(***************************************************************************)
StartupLists == UNION {[1..n -> {<<117>>, <<117, 115>>} \X {<<>>, <<97>>, <<97, 98>>}] : n \in 0..3}
LastOf(pairs, name) == pairs[Max({i \in DOMAIN pairs : pairs[i][1] = name})][2]
NamedValues(pairs) == [n \in {pairs[i][1] : i \in DOMAIN pairs} |-> LastOf(pairs, n)]

(***************************************************************************)
(* Streams of messages from a server, cut into reads anywhere.              *)
(***************************************************************************)
ServerMessages == {encode_data_row(<<<<<<49>>>>>>), encode_command_complete(<<79>>), encode_ready_for_query(73),
                   encode_message(Answer.s, <<>>)}
Streams == UNION {[1..n -> ServerMessages] : n \in 1..3}
ReadsOf(bytes, i, j) == <<SubSeq(bytes, 1, i), SubSeq(bytes, i + 1, j), SubSeq(bytes, j + 1, Len(bytes))>>

RECURSIVE PollAll(_, _, _)
PollAll(frames, max, stop) ==
  LET p == poll_packets(frames, max, stop)
  IN IF p.done \/ p.batch = <<>> THEN p.batch ELSE p.batch \o PollAll(p.rest, max, stop)

(***************************************************************************)
(* Numbers, dates and rows.                                                 *)
(***************************************************************************)
DigitLists(n) == UNION {[1..k -> {0, 1, 9}] : k \in 0..n}
LongDigits == {<<1, 0, 0, 0, 0>>, <<1, 2, 3, 4, 5>>, <<9, 9, 9, 9>>, <<1, 0, 0, 0, 0, 0, 0, 0, 0>>, <<5>>}

FourPlaces == {<<1, 2, 3, 4>>, <<0, 0, 0, 5>>, <<9, 0, 0, 0>>, <<0, 0, 0, 0>>}

DecimalTexts ==
  {t \in [neg : BOOLEAN, int : DigitLists(2) \cup LongDigits, frac : DigitLists(3) \cup FourPlaces] :
     t.int # <<>> \/ t.frac # <<>>}

(* The text PostgreSQL would show for it.                                   *)
Shown(t) ==
  LET int == WithoutLeadingZeros(t.int) IN [t EXCEPT !.int = IF int = <<>> THEN <<0>> ELSE int]

IsZero(t) == WithoutLeadingZeros(t.int \o t.frac) = <<>>

(* The power of ten thousand of the first group.                            *)
WeightOf(t) ==
  LET digits == WithoutLeadingZeros(t.int) IN IF digits = <<>> THEN -1 ELSE (Len(digits) - 1) \div 4

(* The sign and the weight the other way round.                             *)
WeightFirst(buf) == IF buf = <<>> THEN buf ELSE SubSeq(buf, 1, 2) \o SubSeq(buf, 5, 6) \o SubSeq(buf, 3, 4) \o Drop(buf, 6)

PgYears == {-401, -400, -100, -4, -1, 0, 1, 100, 1600, 1900, 1970, 1999, 2000, 2001, 2004, 2100, 2400}
IsLeap(y) == y % 4 = 0 /\ (y % 100 # 0 \/ y % 400 = 0)
DaysIn(y, m) == IF m = 2 THEN (IF IsLeap(y) THEN 29 ELSE 28) ELSE IF m \in {4, 6, 9, 11} THEN 30 ELSE 31
PgDates == {d \in PgYears \X (1..12) \X (1..31) : d[3] <= DaysIn(d[1], d[2])}
NextDay(d) ==
  IF d[3] < DaysIn(d[1], d[2]) THEN <<d[1], d[2], d[3] + 1>>
  ELSE IF d[2] < 12 THEN <<d[1], d[2] + 1, 1>> ELSE <<d[1] + 1, 1, 1>>

Clock(h, m, s, frac) == [h |-> h, m |-> m, s |-> s, frac |-> frac]
(* One moment as clocks in several zones show it.                           *)
Moments == [date : {<<2000, 1, 1>>, <<1999, 12, 31>>, <<2024, 2, 29>>, <<1970, 1, 1>>},
            h : {0, 5, 12, 23}, m : {0, 59}, frac : {<<>>, <<5>>, <<0, 0, 0, 0, 0, 1>>},
            sign : {1, -1}, zh : {0, 1, 8, 14}, zm : {0, 30}]

ParamTexts ==
  {Spelling("digits", n, p) : n \in {0, 1, 3}, p \in BOOLEAN}
    \cup {Spelling("signed", n, TRUE) : n \in {-1, -3}}
    \cup {Spelling("decimal", 1, TRUE), Spelling("word", 1, TRUE)}
    \cup {Spelling("date", 10, TRUE), Spelling("time", 1, TRUE), Spelling("time", 1, FALSE)}
    \cup {Spelling("timestamp", 10, TRUE), Spelling("timestamp", 11, FALSE)}
    \cup {Spelling("truth", b, p) : b \in {0, 1}, p \in BOOLEAN}
ParamValues ==
  {[k |-> "Null", v |-> 0]} \cup {[k |-> "String", v |-> t] : t \in ParamTexts}
    \cup {[k |-> "Integer", v |-> n] : n \in {-3, -1, 0, 2, 3}} \cup {[k |-> "Boolean", v |-> 1]}
    \cup {[k |-> "Huge", v |-> 9], [k |-> "Float", v |-> 1], [k |-> "Bytes", v |-> 1]}
    \cup {[k |-> "Decimal", v |-> Spelling("decimal", 1, TRUE)]}
DeclaredTypes == {"bool", "int2", "int4", "int8", "float8", "numeric", "date", "time", "timestamp", "text", "varchar", "json"}

(* The text the client gave, or one for what it gave.                       *)
GivenText(value) ==
  IF value.k \in {"String", "Decimal"} THEN value.v ELSE to_text_literal(from_value(value))

(* The declared types in which a slot has an encoding of the driver's.      *)
EncodesAs(slot) ==
  CASE slot.k = "I32" -> {"int4"} [] slot.k = "I64" -> {"int8"} [] slot.k = "F64" -> {"float8"}
    [] slot.k = "Bool" -> {"bool"} [] slot.k = "Date" -> {"date"} [] slot.k = "Time" -> {"time"}
    [] slot.k = "Timestamp" -> {"timestamp"} [] slot.k = "Numeric" -> {"numeric"}
    [] slot.k = "Text" -> TextTypes [] slot.k = "Null" -> DeclaredTypes

(* Numbers as a server of the layout that the reader's comment gives sends  *)
(* them: 0.00 and 12.5, and 12345 of weight one, which is not read.         *)
ServerNumerics == {<<WordBytes(<<0, 0, 0, 2>>)>>, <<WordBytes(<<2, 0, 0, 1, 12, 5000>>)>>}
UnreadNumerics == {<<WordBytes(<<2, 1, 0, 0, 1, 2345>>)>>}
Delivered(type, cell) ==
  IF type # "numeric" \/ cell = <<>> THEN cell
  ELSE IF cell = <<WordBytes(<<0, 0, 0, 2>>)>> THEN <<<<48, 46, 48, 48>>>> ELSE <<<<49, 50, 46, 53>>>>

RawCells(type) ==
  {<<>>} \cup CASE type = "bool" -> {<<<<0>>>>, <<<<1>>>>}
                [] type = "int2" -> {<<<<0, 7>>>>, <<<<255, 1>>>>, <<<<128, 0>>>>}
                [] type = "int4" -> {<<<<0, 0, 1, 2>>>>, <<<<128, 0, 0, 1>>>>, <<<<255, 255, 255, 255>>>>}
                [] type = "int8" -> {<<<<0, 0, 0, 1, 0, 0, 0, 9>>>>, <<<<255, 255, 255, 254, 0, 0, 0, 0>>>>}
                [] type = "numeric" -> ServerNumerics \cup UnreadNumerics
                [] type = "float4" -> {<<<<63, 128, 0, 0>>>>}
                [] type = "float8" -> {<<<<63, 240, 0, 0, 0, 0, 0, 1>>>>}
                [] type \in TextTypes -> {<<<<>>>>, <<<<97, 98>>>>}
PassedTypes == {"numeric", "bool", "int2", "int4", "int8", "float4", "float8", "text", "varchar", "name"}
BinaryRows ==
  UNION {{[types |-> <<s, t>>, row |-> <<a, b>>, ready |-> r, skip |-> h] :
            a \in RawCells(s), b \in RawCells(t), r \in {<<>>, <<73>>}, h \in BOOLEAN} :
            s \in PassedTypes, t \in PassedTypes}

SimpleRow(w, v) == [k |-> "row", columns |-> [i \in 1..w |-> <<99>>], values |-> [i \in 1..w |-> v]]
SimpleAnswers ==
  {[messages |-> [i \in 1..n |-> SimpleRow(w, IF i = at THEN <<>> ELSE <<<<48 + i>>>>)]
                   \o <<[k |-> "complete", n |-> n]>>, width |-> w, count |-> n, max |-> max] :
     w \in 1..2, n \in 0..3, at \in 1..3, max \in 0..3}

PgInputs ==
  [pgmessage |-> PlainMessages, pgbind |-> Binds, pgstartup |-> StartupLists,
   pgstream |-> Streams, pgnumeric |-> DecimalTexts, pgdays |-> PgDates, pgmoment |-> Moments,
   pgparam |-> ParamValues \X DeclaredTypes, pgbinary |-> BinaryRows, pgsimple |-> SimpleAnswers]

(* A message says to the gateway what the client wrote, and one with a byte *)
(* too many or too few, or with a length that is not its own, is refused    *)
(* and never taken for another message (decode_frontend_message).  Only a   *)
(* Parse whose count is negative is not refused but ends the task           *)
(* (decode_parse_body).                                                     *)
MessagesRead ==
  Looking("pgmessage") =>
    LET m == input[1]
        frame == encode_message(m.says.tag, m.bytes)
    IN /\ decode_frontend_message(frame) = <<m.says>>
       /\ \A d \in Damaged(m.bytes) :
            /\ decode_frontend_message(encode_message(m.says.tag, d)) = <<>>
            /\ decode_frontend_message(<<m.says.tag>> \o BigEndian(Len(m.bytes) + 4, 4) \o d) = <<>>
       /\ m.says.tag = Tag.P =>
            LET names == CString(m.says.fields[1]) \o CString(m.says.fields[2])
            IN \A n \in {-32768, -1, Len(m.says.fields[3])} :
                 DecodePanics("P", names \o BigEndian(n, 2) \o Drop(m.bytes, Len(names) + 2)) <=> n < 0

(* A value bound in either format reaches the statement as the client meant *)
(* it, each with the format that is its own, and NULL stays NULL            *)
(* (decode_bind_body).  A Bind ends the task when one of its three counts   *)
(* is negative and all before that is well formed, and for no other reason. *)
BindsRead ==
  Looking("pgbind") =>
    LET b == input[1]
        body == BindBody(b.portal, <<115>>, b.formats, b.sent, b.results)
        read == decode_frontend_message(encode_message(Tag.B, body))
        Cut(formats, sent) == BindBody(b.portal, <<115>>, formats, sent, <<>>)
        Negative(prefix, zeros) == SubSeq(prefix, 1, Len(prefix) - zeros) \o BigEndian(-1, 2)
    IN /\ WellBound(b) => read = <<[tag |-> Tag.B, fields |-> <<b.portal, <<115>>, SaysBound(b), b.results>>]>>
       /\ ~DecodePanics("B", body)
       /\ DecodePanics("B", Negative(Cut(<<>>, <<>>), 6))
       /\ DecodePanics("B", Negative(Cut(b.formats, <<>>), 4))
       /\ DecodePanics("B", Negative(Cut(b.formats, b.sent), 2)) <=> decode_bind_body(Cut(b.formats, b.sent)) # <<>>

(* The parameters of a connection are those the client sent, the last value *)
(* of a name being the one that counts; a packet cut short or with more     *)
(* behind its end is refused (decode_startup_packet,                        *)
(* encode_startup_message).                                                 *)
StartupRead ==
  Looking("pgstartup") =>
    LET packet == encode_startup_message(input[1])
    IN /\ decode_startup_packet(packet) = <<[is |-> "Startup", parameters |-> NamedValues(input[1])]>>
       /\ \A n \in 0..Len(packet) - 1 : decode_startup_packet(SubSeq(packet, 1, n)) = <<>>
       /\ decode_startup_packet(Append(packet, 0)) = <<>>
       /\ decode_startup_packet(encode_untagged_packet(Append(Drop(packet, 4), 0))) = <<>>

(* However the stream of a server falls into reads, the relay passes on     *)
(* whole messages in their order and keeps the rest; and polled in batches  *)
(* of any size it passes on the messages up to the end of the answer and    *)
(* none of the next (try_split_frame, next_raw_frame, poll_packets).        *)
StreamsCut ==
  Looking("pgstream") =>
    LET bytes == FlattenSeq(input[1])
        ends(stop) == {i \in DOMAIN input[1] : EndsUnit(input[1][i], stop)}
    IN /\ \A i \in 0..Len(bytes), k \in 0..8 :
            i + k <= Len(bytes) =>
              ReadFrames(ReadsOf(bytes, i, i + k)) = [frames |-> input[1], buf |-> <<>>]
       /\ \A max \in 0..3, stop \in BOOLEAN :
            PollAll(input[1], max, stop)
              = SubSeq(input[1], 1, IF ends(stop) = {} THEN Len(input[1]) ELSE Min(ends(stop)))

(* A number other than zero with up to three digits after the point is read *)
(* back from the wire form as it was written; with four it comes back ten   *)
(* thousand times as large, and zero not at all (PgNumericValue::to_wire,   *)
(* pg_numeric_to_text).  Between the gateway and a peer that has the weight *)
(* before the sign, as the comment of the reader says, a number of up to    *)
(* three digits after the point is the same at both ends exactly when it is *)
(* positive and has the weight zero.  With another weight it is refused,    *)
(* and a negative one of weight zero is taken for one of 16385 groups.      *)
NumericsKept ==
  Looking("pgnumeric") =>
    LET t == input[1]
        wire == to_wire(t)
        back == pg_numeric_to_text(wire[1])
        far == pg_numeric_to_text(WeightFirst(wire[1]))
    IN /\ wire # <<>>
       /\ IF IsZero(t) THEN wire[1] = <<>> /\ back = <<>>
          ELSE IF Len(t.frac) < 4 THEN back = <<Shown(t)>>
          ELSE back = <<Shown(Decimal(t.neg, t.int \o t.frac, Zeros(4)))>>
       /\ ~IsZero(t) /\ Len(t.frac) < 4 =>
            /\ far = <<Shown(t)>> <=> ~t.neg /\ WeightOf(t) = 0
            /\ far = <<>> <=> WeightOf(t) # 0
            /\ t.neg /\ WeightOf(t) = 0 => ~far[1].neg /\ Len(far[1].int) > 4 * NegativeSign

(* Each day of the calendar has the number after that of the day before, in *)
(* years before and after zero, with and without a leap day, and the first  *)
(* of January 2000 is day zero (days_from_pg_epoch).                        *)
DaysInOrder ==
  Looking("pgdays") =>
    LET Day(d) == days_from_pg_epoch(d[1], d[2], d[3])
        d == input[1]
    IN /\ Day(NextDay(d)) = Day(d) + 1
       /\ Day(<<d[1] + 400, d[2], d[3]>>) = Day(d) + 146097
       /\ d = <<2000, 1, 1>> => Day(d) = 0

(* Clocks in different zones that show one moment give one timestamp, also  *)
(* across midnight and a leap day; without a zone in its type a timestamp   *)
(* with one is refused (parse_pg_timestamp_us, split_tz_offset).            *)
MomentsAgree ==
  Looking("pgmoment") =>
    LET t == input[1]
        east == t.sign * (t.zh * 60 + t.zm)
        minutes == t.h * 60 + t.m + east
        Shift == IF minutes >= 1440 THEN 1 ELSE IF minutes < 0 THEN -1 ELSE 0
        day == CASE Shift = 1 -> NextDay(t.date)
                 [] Shift = 0 -> t.date
                 [] OTHER -> CHOOSE d \in PgDates \cup {<<1969, 12, 31>>, <<2024, 2, 28>>} : NextDay(d) = t.date
        there == minutes - Shift * 1440
        utc == [date |-> t.date, time |-> Clock(t.h, t.m, 1, t.frac), zone |-> <<"Z">>]
        local == [date |-> day, time |-> Clock(there \div 60, there % 60, 1, t.frac), zone |-> <<t.sign, t.zh, t.zm>>]
    IN /\ parse_pg_timestamp_us(local, TRUE) # <<>>
       /\ parse_pg_timestamp_us(local, TRUE) = parse_pg_timestamp_us(utc, TRUE)
       /\ parse_pg_timestamp_us(local, FALSE) = <<>>

(* A parameter is bound in an encoding of the type the server declared, or  *)
(* as a text in a place the statement is prepared again for, and says what  *)
(* the client gave; a text for a text column is the client's own text       *)
(* whenever it spells a value the plain way (conform_pg_param_slots,        *)
(* classify_pg_string_param, to_text_literal).                              *)
ParamsConform ==
  Looking("pgparam") =>
    LET value == input[1][1]
        type == input[1][2]
        c == conform_pg_param_slots(<<from_value(value)>>, <<type>>)
        slot == c.slots[1]
        given == GivenText(value)
        bound == to_text_literal(slot)
    IN /\ (IF 1 \in c.texts THEN "text" ELSE type) \in EncodesAs(slot)
       /\ value.k # "Null" =>
            IF type = "date" /\ given.form = "timestamp" THEN bound.v = DayOnly(given.v) ELSE bound.v = given.v
       /\ type \in TextTypes /\ given.plain /\ value.k # "Null" => bound = given

(* What the server sends for a column of a type the gateway can read is     *)
(* byte for byte what a client that asked for the binary format receives,   *)
(* in values of the size the header announces, NULL as NULL; a number of    *)
(* the type numeric is received as the characters of its text, and a row    *)
(* with one that the gateway cannot read fails the answer                   *)
(* (typed_row_to_gateway_values, gateway_value_to_pg_binary,                *)
(* postgresql_type_info, encode_resultset_binary_opts).                     *)
BinaryKept ==
  Looking("pgbinary") =>
    LET x == input[1]
        columns == [i \in 1..2 |-> [name |-> <<99>>, type |-> x.types[i]]]
        Received(cut, data) ==
          /\ Len(data) = 1
          /\ ReadBody(Drop(data[1], 5), <<"values">>) = <<<<[i \in 1..2 |-> Delivered(x.types[i], x.row[i])]>>>>
          /\ \A i \in 1..2 : x.row[i] # <<>> =>
               postgresql_type_info(x.types[i])[2] \in {-1, Len(x.row[i][1])}
          /\ (Last(cut)[1] = Answer.Z) = (x.ready # <<>>)
          /\ (cut[1][1] = Answer.T) = ~x.skip
    IN \A response \in {rows_to_gateway_response(<<x.row, x.row>>, columns, 1)} :
         /\ response = <<>> <=> \E i \in 1..2 : x.types[i] = "numeric" /\ x.row[i] \in UnreadNumerics
         /\ response # <<>> => \A sent \in {encode_resultset_binary_opts(columns, response[1].rows, x.ready, x.skip)} :
              /\ sent # <<>>
              /\ ReadFrames(<<FlattenSeq(sent[1])>>).frames = sent[1]
              /\ Received(sent[1], SelectSeq(sent[1], LAMBDA f : f[1] = Answer.D))

(* The answer of a simple query has the first rows of it up to the limit,   *)
(* each with every value, NULL as NULL; without a row it is the count of    *)
(* the command (simple_query_messages_to_gateway_response,                  *)
(* logical_response_to_pg_wire).                                            *)
SimpleWhole ==
  Looking("pgsimple") =>
    LET x == input[1]
        wire == logical_response_to_pg_wire(simple_query_messages_to_gateway_response(x.messages, x.max), 73)
        kept == IF x.max = 0 THEN x.count ELSE Min({x.max, x.count})
        data == SelectSeq(wire[1], LAMBDA f : f[1] = Answer.D)
    IN /\ wire # <<>> /\ Last(wire[1]) = encode_ready_for_query(73)
       /\ [i \in DOMAIN data |-> ReadBody(Drop(data[i], 5), <<"values">>)[1][1]]
            = [i \in 1..kept |-> x.messages[i].values]
       /\ (wire[1][1][1] = Answer.T) = (x.count > 0)

-----------------------------------------------------------------------------
(***************************************************************************)
(* What the frame relay may rely on when it gets a socket: a login that the *)
(* server finished, the transport that the endpoint asks for, and an idle   *)
(* socket that is young and nobody else's.                                  *)
(***************************************************************************)

LoginMessages == {"Ok", "Cleartext", "Md5", "SaslScram", "SaslOther", "SaslContinue", "SaslFinal", "Error", "Notice",
                  "Status", "Ready"}
WholeLogins == {<<"SaslScram", "SaslContinue", "SaslFinal", "Ok", "Status", "Key", "Ready">>,
                <<"Md5", "Notice", "Ok", "Notice", "Key", "Ready">>, <<"Cleartext", "Ok", "Key", "Error", "Ready">>}
Logged == WholeLogins \cup UNION {[1..n -> LoginMessages] : n \in 0..4}

Transports == [mode : {"disable", "prefer", "require"}, answer : {"S", "N", "E"}, secured : BOOLEAN]

PoolTtl == 1
PoolMax == 2
PoolOps == ({"put", "take"} \X {"a", "b"}) \cup {<<"tick">>, <<"purge">>}
OpLists == [1..5 -> PoolOps] \cup [1..6 -> {<<"put", "a">>, <<"take", "a">>, <<"tick">>}]

PgDialInputs == [pglogin |-> Logged, pgtls |-> Transports, pgpool |-> OpLists]

(* A run of operations: the socket of the i-th is number i.                 *)
RunOp(s, i, ops) ==
  LET op == ops[i] IN
  CASE op[1] = "put" -> [s EXCEPT !.pool = put_at(@, op[2], [id |-> i, since |-> s.now], s.now, PoolTtl, PoolMax)]
    [] op[1] = "take" ->
         LET t == take(s.pool, op[2], s.now, PoolTtl)
         IN [s EXCEPT !.pool = t.pool, !.took = Append(@, [at |-> i, now |-> s.now, got |-> t.got])]
    [] op[1] = "tick" -> [s EXCEPT !.now = @ + 1]
    [] op[1] = "purge" -> [s EXCEPT !.pool = purge_expired(@, s.now, PoolTtl)]

RunOps(ops) ==
  FoldLeft(LAMBDA s, i : RunOp(s, i, ops), [pool |-> <<>>, now |-> 0, took |-> <<>>], [i \in DOMAIN ops |-> i])

(* The time at an operation.                                                *)
TimeAt(ops, i) == Len(SelectSeq(SubSeq(ops, 1, i), LAMBDA op : op[1] = "tick"))

(* A login succeeds only on AuthenticationOk and, after nothing but         *)
(* parameters, the key and notices, ReadyForQuery; every request for a      *)
(* password or a proof is answered once and in order, and a proof is only   *)
(* sent in an exchange that the server offered.  Nothing is sent in plain   *)
(* to an endpoint that requires TLS, and to one that prefers it only when   *)
(* the server said no: a handshake that fails is an error (authenticate,    *)
(* maybe_upgrade_tls, PgTcpSession::connect).                               *)
LoginEarned ==
  /\ Looking("pgtls") =>
       LET x == input[1]
           got == connect(x.mode, x.answer, x.secured, <<"Md5", "Ok", "Ready">>)
       IN /\ got.sent # <<>> /\ got.transport = "plain" => x.mode = "disable" \/ (x.mode = "prefer" /\ x.answer = "N")
          /\ got.at = "in" <=> got.transport = "tls" \/ (got.transport = "plain" /\ got.sent # <<>>)
  /\ Looking("pglogin") =>
    LET ms == input[1]
        end == authenticate(ms)
        Before(i, from, allowed) == \A j \in from..i - 1 : ms[j] \in allowed
        begun == \A j \in DOMAIN ms : ms[j] \in {"SaslContinue", "SaslFinal"} => \E k \in 1..j - 1 : ms[k] = "SaslScram"
        answer == [m \in {"Cleartext", "Md5", "SaslScram", "SaslContinue"} |->
                     CASE m = "Cleartext" -> "password" [] m = "Md5" -> "hash" [] m = "SaslScram" -> "first"
                       [] OTHER -> "proof"]
        asked == SelectSeq(ms, LAMBDA m : m \in DOMAIN answer)
    IN /\ end.at = "in" <=>
            \E i \in DOMAIN ms, r \in DOMAIN ms :
              /\ ms[i] = "Ok" /\ ms[r] = "Ready" /\ i < r
              /\ Before(i, 1, DOMAIN answer \cup {"SaslFinal", "Notice"})
              /\ Before(r, i + 1, {"Status", "Key", "Notice"})
              /\ \A j \in 1..i : ms[j] \in {"SaslContinue", "SaslFinal"} => \E k \in 1..j - 1 : ms[k] = "SaslScram"
       /\ IsPrefix(end.sent, [i \in DOMAIN asked |-> answer[asked[i]]])
       /\ \A i \in DOMAIN end.sent : end.sent[i] = "proof" => \E k \in 1..i - 1 : end.sent[k] = "first"
       /\ (end.at = "in" /\ begun /\ Last(ms) = "Ready") =>
            Len(end.sent) = Len(SelectSeq(SubSeq(ms, 1, SelectInSeq(ms, LAMBDA m : m = "Ok")),
                                          LAMBDA m : m \in DOMAIN answer))

(* Whatever is put, taken and purged in whatever order: a socket is handed  *)
(* out at most once, for the key it was put under, in the order they were   *)
(* put, and never after its time; none is handed out only when the young    *)
(* ones had to make room; no key keeps more than its number or an empty     *)
(* queue                                                                    *)
(* (PgTcpIdlePool::take, put_at, purge_expired).                            *)
PoolYoung ==
  Looking("pgpool") =>
    LET ops == input[1]
        end == RunOps(ops)
        taken(n) == {end.took[k].got[1].id : k \in {k \in 1..n : end.took[k].got # <<>>}}
    IN /\ \A k \in DOMAIN end.pool : Len(end.pool[k]) \in 1..PoolMax
       /\ \A n \in DOMAIN end.took :
            LET t == end.took[n]
                young == {i \in 1..t.at - 1 : /\ ops[i] = <<"put", ops[t.at][2]>>
                                              /\ t.now - TimeAt(ops, i) <= PoolTtl
                                              /\ i \notin taken(n - 1)}
                after(i) == {j \in i + 1..t.at - 1 : ops[j] = ops[i]}
            IN IF t.got = <<>> THEN \A i \in young : Cardinality(after(i)) >= PoolMax
               ELSE /\ t.got[1].id \in young
                    /\ \A i \in taken(n - 1) : ops[i][2] = ops[t.at][2] => i < t.got[1].id
                    /\ Cardinality({i \in young : i >= t.got[1].id}) <= PoolMax

=============================================================================
