---------------------------- MODULE ResultPolicy ----------------------------
(***************************************************************************)
(* What a policy asks of a result (gateway/core/src/obligations.rs), when a *)
(* time rule fires (time_rules.rs) and which names a pattern matches        *)
(* (pdp.rs).  A cell is a kind and the characters it displays as.           *)
(***************************************************************************)
EXTENDS Integers, Sequences, FiniteSets, SequencesExt, Topic

Null == [kind |-> "null", text |-> <<>>]
Str(t) == [kind |-> "string", text |-> t]
Stars(n) == [i \in 1..n |-> "*"]
Least(a, b) == IF a < b THEN a ELSE b

\* Mutant of partial_mask: a text as short as what is shown is shown.
partial_mask_short(s, prefix, suffix) ==
  LET n == Len(s)
  IN  IF prefix + suffix > n THEN Stars(n)
      ELSE SubSeq(s, 1, prefix) \o Stars(n - prefix - suffix) \o SubSeq(s, n - suffix + 1, n)

partial_mask(s, prefix, suffix) ==
  LET n == Len(s)
  IN  IF prefix + suffix >= n THEN Stars(n)
      ELSE SubSeq(s, 1, prefix) \o Stars(n - prefix - suffix) \o SubSeq(s, n - suffix + 1, n)

keep_prefix_mask(s, prefix) ==
  LET keep == Least(prefix, Len(s))
  IN  SubSeq(s, 1, keep) \o (IF keep < Len(s) THEN Stars(3) ELSE <<>>)

mask_gateway_value(v, spec) ==
  CASE spec.algorithm = "nullify" -> Null
    [] spec.algorithm = "replace" -> Str(Stars(3))
    [] spec.algorithm = "hash"    -> Str(<<"hash">>)
    [] spec.algorithm = "partial" -> Str(partial_mask(v.text, spec.prefix, spec.suffix))
    [] spec.algorithm = "keep_prefix" -> Str(keep_prefix_mask(v.text, spec.prefix))

(* The mask of each column of a result: the last spec of its bare name.     *)
build_mask_index(columns, masks) ==
  LET of(i) == {k \in DOMAIN masks : masks[k].column = columns[i].bare}
  IN  [i \in {j \in DOMAIN columns : of(j) # {}} |->
         masks[CHOOSE k \in of(i) : \A m \in of(i) : m <= k]]

apply_masks_to_rows(rows, idx) ==
  [r \in DOMAIN rows |-> [c \in DOMAIN rows[r] |->
     IF c \in DOMAIN idx THEN mask_gateway_value(rows[r][c], idx[c]) ELSE rows[r][c]]]

Truncated(rows, max) == IF max = <<>> \/ Len(rows) <= max[1] THEN rows ELSE SubSeq(rows, 1, max[1])

Marked(t) == Contains(t, "|wm")

SuffixRow(row, token) ==
  LET strings == {c \in DOMAIN row : row[c].kind = "string"}
      at == IF strings = {} THEN Len(row) ELSE CHOOSE c \in strings : \A d \in strings : c <= d
  IN  IF row = <<>> THEN row
      ELSE IF strings # {} /\ Marked(row[at].text) THEN row
      ELSE [row EXCEPT ![at] = Str(@.text \o <<"|wm", token>>)]

apply_watermark_to_resultset(result, wm) ==
  IF wm.mode = "column"
  THEN IF \E c \in ToSet(result.columns) : c.name = wm.column THEN result
       ELSE [columns |-> Append(result.columns, [name |-> wm.column, bare |-> wm.column]),
             rows |-> [r \in DOMAIN result.rows |-> Append(result.rows[r], Str(<<wm.token>>))]]
  ELSE [result EXCEPT !.rows = [r \in DOMAIN result.rows |-> SuffixRow(result.rows[r], wm.token)]]

Watermarked(result, obl) ==
  IF obl.watermark = <<>> THEN result ELSE apply_watermark_to_resultset(result, obl.watermark[1])

has_result_obligations(obl) == obl.masks # <<>> \/ obl.max_rows # <<>> \/ obl.watermark # <<>>

apply_obligations_to_response(result, obl) ==
  LET masked == apply_masks_to_rows(result.rows, build_mask_index(result.columns, obl.masks))
  IN  IF ~has_result_obligations(obl) THEN result
      ELSE Watermarked([result EXCEPT !.rows = Truncated(masked, obl.max_rows)], obl)

RECURSIVE Windowed(_, _, _)

Windowed(rows, idx, window) ==
  IF rows = <<>> THEN <<>>
  ELSE LET take == Least(window, Len(rows))
       IN  apply_masks_to_rows(SubSeq(rows, 1, take), idx)
             \o Windowed(SubSeq(rows, take + 1, Len(rows)), idx, window)

apply_obligations_windowed(result, obl, window_rows) ==
  LET cut  == Truncated(result.rows, obl.max_rows)
      idx  == build_mask_index(result.columns, obl.masks)
      size == IF window_rows = 0 THEN 1 ELSE window_rows
      rows == IF DOMAIN idx = {} THEN cut ELSE Windowed(cut, idx, size)
  IN  IF ~has_result_obligations(obl) THEN result
      ELSE Watermarked([result EXCEPT !.rows = rows], obl)

(* Two sets of obligations in one: the first mask of a column stays, both   *)
(* filters hold, the smaller bound counts.                                  *)

merge(a, b) ==
  [masks |-> a.masks \o SelectSeq(b.masks, LAMBDA m : \A x \in ToSet(a.masks) : x.column # m.column),
   filter |-> a.filter \cup b.filter,
   max_rows |-> IF a.max_rows # <<>> /\ b.max_rows # <<>>
                THEN <<Least(a.max_rows[1], b.max_rows[1])>>
                ELSE a.max_rows \o b.max_rows,
   watermark |-> IF a.watermark # <<>> THEN a.watermark ELSE b.watermark]

-----------------------------------------------------------------------------
(* Time rules.  Day is the length of a day, Week the number of weekdays;    *)
(* instants and offsets are in the same unit.                               *)
Day == 6
Week == 3

civil_parts(now, offset) == [weekday |-> ((now + offset) \div Day) % Week,
                             minute  |-> (now + offset) % Day]

is_inside_window(minute, start, end) ==
  IF start = end THEN FALSE
  ELSE IF start < end THEN minute >= start /\ minute < end
  ELSE minute >= start \/ minute < end

matches_now(rule, now) ==
  LET at     == civil_parts(now, rule.offset)
      inside == is_inside_window(at.minute, rule.start, rule.end)
  IN  IF rule.days # {} /\ at.weekday \notin rule.days THEN rule.outside
      ELSE IF rule.outside THEN ~inside ELSE inside

-----------------------------------------------------------------------------
(* Patterns: the loop over pattern and value with the last star to return   *)
(* to; pi and vi are the next positions, star 0 while no star was met.      *)
RECURSIVE GlobLoop(_, _, _)

GlobLoop(p, v, st) ==
  IF st.vi > Len(v) THEN \A i \in st.pi..Len(p) : p[i] = "*"
  ELSE IF st.pi <= Len(p) /\ (p[st.pi] = "?" \/ p[st.pi] = v[st.vi])
  THEN GlobLoop(p, v, [st EXCEPT !.pi = @ + 1, !.vi = @ + 1])
  ELSE IF st.pi <= Len(p) /\ p[st.pi] = "*"
  THEN GlobLoop(p, v, [pi |-> st.pi + 1, vi |-> st.vi, star |-> st.pi, from |-> st.vi])
  ELSE IF st.star # 0
  THEN GlobLoop(p, v, [st EXCEPT !.pi = st.star + 1, !.vi = st.from + 1, !.from = @ + 1])
  ELSE FALSE

glob_match(p, v) == GlobLoop(p, v, [pi |-> 1, vi |-> 1, star |-> 0, from |-> 1])

Leaf(s) == LET I == {i \in DOMAIN s : s[i] = "."}
           IN  IF I = {} THEN s ELSE SubSeq(s, 1 + CHOOSE i \in I : \A j \in I : j <= i, Len(s))

table_glob_match(p, t) ==
  \/ glob_match(p, t)
  \/ Leaf(t) # t /\ glob_match(p, Leaf(t))
  \/ Leaf(p) # p /\ glob_match(Leaf(p), Leaf(t))

-----------------------------------------------------------------------------
(***************************************************************************)
(* ResultPolicy against reference definitions.                              *)
(***************************************************************************)

Texts == {<<>>, <<"s">>, <<"s", "e", "c">>, <<"s", "e", "c", "r">>}

Masks == {[column |-> c, algorithm |-> a, prefix |-> 1, suffix |-> 2] :
            c \in {"a", "b"}, a \in {"nullify", "partial", "keep_prefix"}}

Obligations ==
  [masks : {<<>>} \cup {<<m>> : m \in Masks} \cup {<<m, n>> : m, n \in Masks},
   filter : {{}}, max_rows : {<<>>, <<0>>, <<2>>},
   watermark : {<<>>} \cup {<<[mode |-> m, column |-> "w", token |-> "tok"]>> :
                              m \in {"column", "suffix"}}]

Cells == {[kind |-> "number", text |-> <<"4", "2">>], Null, Str(<<"s", "e", "c", "r">>)}
Result(names, rows) == [columns |-> names, rows |-> rows]
Results == { Result(<<[name |-> "t.a", bare |-> "a"], [name |-> "c", bare |-> "c"]>>, rows) :
               rows \in UNION {[1..n -> {<<x, y>> : x \in Cells, y \in {Null, Str(<<"o">>)}}] :
                                 n \in {0, 1, 3}} }

OneResult == {r \in Results : Len(r.rows) = 3 => r.rows[1] = r.rows[3]}

(* The two ways a result meets its obligations agree: the rows a client     *)
(* gets do not depend on whether the result came whole or in windows, nor   *)
(* on the size of a window.                                                 *)
WindowedAgrees ==
  Looking("result") =>
    \A w \in 0..3 : apply_obligations_windowed(input[1].result, input[1].obl, w)
                      = apply_obligations_to_response(input[1].result, input[1].obl)

(* Applied to a result that has met them, the watermark of the obligations  *)
(* adds nothing: a re-encoded result is marked once.                        *)
WatermarkOnce ==
  Looking("result") =>
    LET once == Watermarked(input[1].result, input[1].obl)
    IN  Watermarked(once, input[1].obl) = once

(* What a mask shows of a text is at most the length it says, and never the *)
(* whole of a text that a partial mask hides a part of.                     *)
MaskHides ==
  Looking("mask") =>
    LET s == input[1].text
        p == partial_mask(s, input[1].prefix, input[1].suffix)
        shown(t) == Cardinality({i \in 1..Least(Len(s), Len(t)) : t[i] = s[i]})
    IN  /\ Len(p) = Len(s)
        /\ shown(p) <= input[1].prefix + input[1].suffix
        /\ s # <<>> => p # s
        /\ shown(keep_prefix_mask(s, input[1].prefix)) <= input[1].prefix

(* Merged obligations ask for all that each of the two asks for: no more    *)
(* rows, no fewer filters, every column masked that one of them masks (by   *)
(* the mask that came first, which need not be the stricter one).           *)
MergeStricter ==
  Looking("merge") =>
    LET m == merge(input[1].a, input[1].b)
    IN  \A o \in {input[1].a, input[1].b} :
          /\ o.max_rows # <<>> => m.max_rows # <<>> /\ m.max_rows[1] <= o.max_rows[1]
          /\ o.filter \subseteq m.filter
          /\ {x.column : x \in ToSet(o.masks)} \subseteq {x.column : x \in ToSet(m.masks)}
          /\ o.watermark # <<>> => m.watermark # <<>>

(* A rule that acts inside its window fires at the local minutes from start *)
(* up to end, counted past midnight when end comes first, of a listed local *)
(* day, and the rule that acts outside fires at all other instants.         *)
TimeRuleExact ==
  Looking("time") =>
    LET r      == input[1].rule
        local  == input[1].now + r.offset
        listed == r.days = {} \/ (local \div Day) % Week \in r.days
        inside == listed /\ (local - r.start) % Day < (r.end - r.start) % Day
    IN  matches_now(r, input[1].now) <=> (inside # r.outside)

(* A pattern matches a value exactly when its stars can be replaced by runs *)
(* and its marks by single characters so that the two are equal.            *)
RECURSIVE Means(_, _)
Means(p, v) ==
  IF p = <<>> THEN v = <<>>
  ELSE IF p[1] = "*" THEN \E k \in 0..Len(v) : Means(Tail(p), SubSeq(v, k + 1, Len(v)))
  ELSE v # <<>> /\ (p[1] = "?" \/ p[1] = v[1]) /\ Means(Tail(p), Tail(v))

GlobExact == Looking("glob") => (glob_match(input[1].pattern, input[1].value)
                                   <=> Means(input[1].pattern, input[1].value))

ResultPolicyInputs ==
  [ result |-> [result : OneResult, obl : {o \in Obligations : Len(o.masks) < 2}],
    mask   |-> [text : Texts, prefix : 0..2, suffix : 0..2],
    merge  |-> [a : {[o EXCEPT !.filter = {"f"}] : o \in Obligations},
                b : {o \in Obligations : o.watermark = <<>> /\ Len(o.masks) < 2}],
    time   |-> [now : Day..(2 * Week * Day),
                rule : [start : {0, 1, 4}, end : {0, 2, 4}, offset : {-2, 0, 1}, outside : BOOLEAN,
                        days : {{}, {0}, {0, 2}}]],
    glob   |-> [pattern : UNION {[1..n -> {"a", "b", "*", "?"}] : n \in 0..4},
                value   : UNION {[1..n -> {"a", "b"}] : n \in 0..4}] ]

=============================================================================
