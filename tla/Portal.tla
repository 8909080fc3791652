------------------------------- MODULE Portal -------------------------------
(***************************************************************************)
(* The body of a portal answer: the tasks that portal_execute_ndjson_,      *)
(* _csv_ and _json_streaming of http/src/http/mod.rs spawn, which pull      *)
(* windows of rows from the backend and write them to the HTTP body, and    *)
(* the answers made of a result that is already complete.                   *)
(*                                                                          *)
(* A row is its number in the result and whether it is masked.  The backend *)
(* may fail after any row, the client may go away before any write.         *)
(***************************************************************************)
EXTENDS Naturals, Sequences, FiniteSets, FiniteSetsExt

CONSTANTS MaxRows,      \* the longest result
          Windows,      \* the values of window_rows
          Caps          \* the values of max_rows that a request leads to

ASSUME PortalAssumption == MaxRows \in Nat /\ Windows \subseteq Nat /\ Caps \subseteq Nat

VARIABLES fmt, cap, policyCap, window,  \* the request, fixed
          result,       \* number of rows the backend has for it, fixed
          source,       \* "stream", "complete", or how a stream ended: "done", "error"
          pulled,       \* rows taken from the backend
          body,         \* what was written: parts of the body
          client,       \* "reading" or "gone"
          stage         \* where the task is

request == <<fmt, cap, policyCap, window, result>>
portalVars == <<request, source, pulled, body, client, stage>>

Formats == {"json", "csv", "ndjson"}
NoCap == <<>>

(* clamp_portal_max_rows always yields a number, so that the cap of the     *)
(* policy is the second choice and is never taken.                          *)
max_total == IF cap # NoCap THEN cap[1] ELSE policyCap

PortalInit ==
  /\ fmt \in Formats /\ cap \in {<<c>> : c \in Caps} /\ policyCap \in Caps
  /\ window \in Windows /\ result \in 0..MaxRows
  /\ source \in {"stream", "complete"}
  /\ pulled = 0 /\ body = <<>> /\ client = "reading" /\ stage = "open"

(* The places of rows in the body, part by part, and the row at a place.    *)
Places == UNION {{<<k, i>> : i \in 1..Len(body[k].rows)} : k \in 1..Len(body)}
RowAt(p) == body[p[1]].rows[p[2]]
Count == Cardinality(Places)
Part(kind, rows) == [kind |-> kind, rows |-> rows]
MaskedRow(i) == [row |-> i, masked |-> TRUE]
Masked(lo, hi) == [i \in 1..(hi - lo) |-> MaskedRow(lo + i)]

Wrote(part, then) == body' = Append(body, part) /\ stage' = then /\ UNCHANGED client

(* A failed write: the rest of the stream is drained first.                 *)
Gone == client' = "gone" /\ stage' = "drain" /\ UNCHANGED body

Send(part, then) == client = "reading" /\ (Wrote(part, then) \/ Gone)

(* The first write: the meta line, the header line, or the open document.   *)
ndjson_meta == fmt = "ndjson" /\ Send(Part("meta", <<>>), "pull")
csv_header == fmt = "csv" /\ Send(Part("header", <<>>), "pull")
json_prefix == fmt = "json" /\ Send(Part("prefix", <<>>), "pull")

Open ==
  /\ stage = "open" /\ source = "stream"
  /\ ndjson_meta \/ csv_header \/ json_prefix
  /\ UNCHANGED <<request, source, pulled>>

Want == Max({Min({max_total - pulled, window}), 1})

(* A window of rows, at most as many as were asked for; none at the end.    *)
(* An error ends the loop like the end does.                                *)
Pull ==
  /\ stage = "pull" /\ source = "stream" /\ pulled < max_total
  /\ \/ /\ pulled < result
        /\ \E n \in 1..Min({Want, result - pulled}) :
             /\ pulled' = pulled + n
             /\ Send(Part("rows", Masked(pulled, pulled + n)), "pull")
        /\ UNCHANGED source
     \/ /\ pulled = result /\ source' = "done" /\ stage' = "close"
        /\ UNCHANGED <<pulled, body, client>>
     \/ /\ source' = "error" /\ stage' = "close"
        /\ UNCHANGED <<pulled, body, client>>
  /\ UNCHANGED request

(* The cap is reached: the rest is drained, then the body is closed.        *)
Capped ==
  /\ stage = "pull" /\ pulled >= max_total
  /\ stage' = "truncated"
  /\ UNCHANGED <<request, source, pulled, body, client>>

Drain ==
  /\ stage \in {"drain", "truncated"} /\ source = "stream"
  /\ source' \in {"done", "error"}
  /\ stage' = IF stage = "drain" THEN "end" ELSE "cut"
  /\ UNCHANGED <<request, pulled, body, client>>

(* Mutant of json_trailer: the count is that of the rows asked for.         *)
json_trailer_cap == [kind |-> "trailer", rows |-> <<>>, count |-> max_total, cut |-> stage = "cut"]
json_trailer == [kind |-> "trailer", rows |-> <<>>, count |-> pulled, cut |-> stage = "cut"]

(* JSON always closes its document; CSV marks a cut result; NDJSON ends.    *)
(* A failed last write is ignored.                                          *)
Close ==
  /\ stage \in {"close", "cut"}
  /\ stage' = "end"
  /\ \/ fmt = "json" /\ body' \in {body, Append(body, json_trailer)}
     \/ fmt = "csv" /\ stage = "cut" /\ body' \in {body, Append(body, Part("mark", <<>>))}
     \/ (fmt = "ndjson" \/ (fmt = "csv" /\ stage = "close")) /\ UNCHANGED body
  /\ UNCHANGED <<request, source, pulled, client>>

(* A complete result: the obligations cut it to the cap of the policy, JSON *)
(* and CSV cut it to the cap of the request too.  It is called truncated    *)
(* when it is as long as the cap of the request.                            *)
Complete ==
  LET obliged == Min({result, policyCap})
      kept == IF fmt = "ndjson" THEN obliged ELSE Min({obliged, max_total})
  IN /\ stage = "open" /\ source = "complete"
     /\ body' = <<[kind |-> "document", rows |-> Masked(0, kept), count |-> kept,
                   cut |-> obliged >= max_total]>>
     /\ pulled' = kept /\ source' = "done" /\ stage' = "end"
     /\ UNCHANGED <<request, client>>

(* An error of the backend before the first row is an answer of its own.    *)
Refused ==
  /\ stage = "open"
  /\ source' = "error" /\ stage' = "end"
  /\ UNCHANGED <<request, pulled, body, client>>

PortalNext == Open \/ Pull \/ Capped \/ Drain \/ Close \/ Complete \/ Refused

PortalSpec == PortalInit /\ [][PortalNext]_portalVars

-----------------------------------------------------------------------------
(* What the client has is the beginning of the result, in order and without *)
(* gaps, every row masked, whatever the windows, the cap and the failures.  *)
BodyIsPrefix ==
  /\ {RowAt(p) : p \in Places} = {MaskedRow(i) : i \in 1..Count}
  /\ \A p, q \in Places :
       p[1] < q[1] \/ (p[1] = q[1] /\ p[2] < q[2]) => RowAt(p).row < RowAt(q).row
  /\ Count <= pulled

(* A streamed body never has more rows than the request's cap allows.       *)
StreamWithinCap == body # <<>> /\ body[1].kind # "document" => Count <= max_total

(* When the task is over, the backend's stream was read to its end or has   *)
(* failed, so that the connection it came from can be used again.           *)
BackendDrained == stage = "end" => source \in {"done", "error"}

(* The numbers at the end of a JSON body are right: the count is that of    *)
(* the rows before it, and a body that is not called cut is the whole       *)
(* result, unless the backend failed under way.                             *)
TrailerTells ==
  \A k \in 1..Len(body) : body[k].kind = "trailer" =>
    /\ body[k].count = Count
    /\ ~body[k].cut /\ source = "done" => Count = result
    /\ body[k].cut => Count = max_total

(* The body of a portal answer at every moment: masked rows of the result   *)
(* in order, within the cap, told truly, and the backend's stream drained.  *)
BodySound ==
  /\ pulled \in 0..MaxRows
  /\ BodyIsPrefix /\ StreamWithinCap /\ BackendDrained /\ TrailerTells

=============================================================================
