------------------------------ MODULE AdminApi ------------------------------
(***************************************************************************)
(* The handlers of the admin API for tickets, projects and leases           *)
(* (http/src/http/mod.rs): under whose name they act, when they refuse, and *)
(* the endpoint a lease is for.  The stores they call are TicketStore and   *)
(* Vault.                                                                   *)
(*                                                                          *)
(* A name that was not given is <<>>, a given one <<name>>; "" is a name of *)
(* blanks.  The caller is <<>> when the admin API asks for no login.        *)
(***************************************************************************)
EXTENDS Naturals, Sequences, SequencesExt, Topic

(* What a handler does: the operation it asks the store for (or "none"),    *)
(* the name it gives it, and the subjects of the events it sends to the     *)
(* audit pipeline.  audit_admin_write sends none: it writes to the log.     *)
Refuse(code) == [op |-> "none", by |-> <<>>, events |-> <<>>, code |-> code]
Done(op, by, events) == [op |-> op, by |-> by, events |-> events, code |-> "ok"]

(* The name in the body when there is one that is not blank, else the       *)
(* caller's.                                                                *)
NameOf(given, caller) == IF given \in {<<>>, <<"">>} /\ caller # <<>> THEN caller ELSE given

(* The store's answer comes after the name is settled; an error of it is    *)
(* the handler's, without an event.                                         *)

Decide(op, given, caller, accepted, recorded) ==
  LET who == NameOf(given, caller) IN
  IF who \in {<<>>, <<"">>} THEN Refuse("invalid_request")
  ELSE IF ~accepted THEN [Refuse("store_failed") EXCEPT !.op = op, !.by = who]
  ELSE Done(op, who, IF recorded THEN <<who>> ELSE <<>>)

admin_approve_ticket(given, caller, accepted) == Decide("approve", given, caller, accepted, TRUE)
admin_reject_ticket(given, caller, accepted) == Decide("reject", given, caller, accepted, TRUE)
admin_revoke_ticket(given, caller, accepted) == Decide("revoke", given, caller, accepted, FALSE)

(* The issuer is the caller only when the body names none, not even blanks. *)
IssuerOf(given, caller) == IF given = <<>> THEN caller ELSE given

admin_issue_ticket(given, caller, subject, sql) ==
  IF subject = "" \/ sql = "" THEN Refuse("invalid_ticket_request")
  ELSE Done("issue", IssuerOf(given, caller), <<IssuerOf(given, caller)>>)

(* A lease may be revoked in nobody's name.                                 *)
admin_revoke_vault_lease(given, caller, accepted) ==
  IF accepted THEN Done("revoke_lease", NameOf(given, caller), <<NameOf(given, caller)>>)
  ELSE [Refuse("vault_revoke_failed") EXCEPT !.op = "revoke_lease", !.by = NameOf(given, caller)]

(* Renewing and pruning ask the store and leave no event.                   *)
admin_renew_vault_lease(accepted) ==
  IF accepted THEN Done("renew_lease", <<>>, <<>>) ELSE [Refuse("vault_renew_failed") EXCEPT !.op = "renew_lease"]
admin_prune_vault_leases == Done("prune_leases", <<>>, <<>>)
admin_prune_tickets == Done("prune_tickets", <<>>, <<>>)

(***************************************************************************)
(* Projects.  A name is a word and how it is written, equal up to the       *)
(* writing for the portal and equal as it stands for the configuration.     *)
(* The projects are made of the services once, when there are none.         *)
(***************************************************************************)
SameProjectName(a, b) == a.word = b.word
DefaultName == [word |-> "default", written |-> 0]

(* Mutant of ensure_default_projects_from_services: the first service gets  *)
(* a project of its own name, and so do the others, under the first.        *)
ensure_default_projects_from_services_shifted(projects, services) ==
  IF projects # <<>> THEN projects
  ELSE [i \in DOMAIN services |->
          [name |-> IF i = 1 THEN DefaultName ELSE services[i - 1].name, env |-> "dev", service |-> services[i].name]]

ensure_default_projects_from_services(projects, services) ==
  IF projects # <<>> THEN projects
  ELSE [i \in DOMAIN services |->
          [name |-> IF i = 1 THEN DefaultName ELSE services[i].name, env |-> "dev", service |-> services[i].name]]

(* The service of the first project of that name and environment, else of   *)
(* that very name.                                                          *)
ServiceAsked(projects, name, env) ==
  LET at == SelectInSeq(projects, LAMBDA p : SameProjectName(p.name, name) /\ p.env = env)
  IN IF at = 0 THEN name ELSE projects[at].service

(* A configuration is its services, each with its endpoints, and the names  *)
(* of the endpoints there are.                                              *)
admin_issue_vault_lease(projects, config, name, env) ==
  LET seeded == ensure_default_projects_from_services(projects, config.services)
      asked == ServiceAsked(seeded, name, env)
      at == SelectInSeq(config.services, LAMBDA s : s.name = asked)
      service == config.services[at]
  IN CASE at = 0 -> Refuse("unknown_service")
       [] at # 0 /\ service.endpoints = <<>> -> Refuse("no_endpoint")
       [] at # 0 /\ service.endpoints # <<>> ->
            IF service.endpoints[1] \notin config.endpoints THEN Refuse("unknown_endpoint")
            ELSE [op |-> "issue_lease", service |-> service.name, endpoint |-> service.endpoints[1],
                  events |-> <<name>>]

(* The projects are shown as they are after they were made of the services, *)
(* when there is a configuration.                                           *)
admin_list_projects(projects, configured, services) ==
  IF configured THEN ensure_default_projects_from_services(projects, services) ELSE projects

-----------------------------------------------------------------------------
(***************************************************************************)
(* The documents a portal answer is written as (http/src/http/mod.rs): CSV, *)
(* one JSON object per line, or one JSON document, each of them at once or  *)
(* in windows of rows.  A text is a sequence of characters, of which only   *)
(* the ones CSV knows are told apart; NULL is <<>> and a text <<text>>.  A  *)
(* document is a sequence of characters, or of the JSON values and the      *)
(* punctuation between them.                                                *)
(***************************************************************************)

csv_escape(s) ==
  IF \E i \in DOMAIN s : s[i] \in {",", "quote", "nl", "cr"}
  THEN <<"quote">> \o FlattenSeq([i \in DOMAIN s |-> IF s[i] = "quote" THEN <<"quote", "quote">> ELSE <<s[i]>>])
         \o <<"quote">>
  ELSE s

(* The text of a cell: nothing for NULL.                                    *)
json_cell_to_string(cell) == IF cell = <<>> THEN <<>> ELSE cell[1]

CellAt(row, i) == IF i \in DOMAIN row THEN row[i] ELSE <<>>

CsvJoined(texts) == FlattenSeq([i \in DOMAIN texts |-> (IF i = 1 THEN <<>> ELSE <<",">>) \o texts[i]])

CsvHeader(columns) == CsvJoined([i \in DOMAIN columns |-> csv_escape(columns[i])]) \o <<"nl">>

CsvRow(columns, row) ==
  CsvJoined([i \in DOMAIN columns |-> csv_escape(json_cell_to_string(CellAt(row, i)))]) \o <<"nl">>

portal_csv_encode_rows(columns, rows) == FlattenSeq([i \in DOMAIN rows |-> CsvRow(columns, rows[i])])

TruncatedMark == <<"#", "truncated", "nl">>

portal_to_csv(resp) ==
  CsvHeader(resp.columns) \o portal_csv_encode_rows(resp.columns, resp.rows)
    \o (IF resp.truncated THEN TruncatedMark ELSE <<>>)

(***************************************************************************)
(* The rows in windows: each is taken, encoded and sent before the next.    *)
(***************************************************************************)
WindowsOf(rows, window) ==
  [k \in 1..(Len(rows) + window - 1) \div window |->
     SubSeq(rows, (k - 1) * window + 1, IF k * window < Len(rows) THEN k * window ELSE Len(rows))]

AtLeastOne(n) == IF n = 0 THEN 1 ELSE n

portal_csv_chunked_response(resp, window) ==
  LET batches == WindowsOf(resp.rows, AtLeastOne(window))
  IN <<CsvHeader(resp.columns)>>
     \o [k \in DOMAIN batches |-> portal_csv_encode_rows(resp.columns, batches[k])]
     \o (IF resp.truncated THEN <<TruncatedMark>> ELSE <<>>)

(***************************************************************************)
(* One object per line: a name that two columns have is in it once, with    *)
(* the value of the last of them.                                           *)
(***************************************************************************)

RowObject(columns, row) ==
  [name \in {columns[i] : i \in DOMAIN columns} |->
     CellAt(row, CHOOSE i \in DOMAIN columns :
                   columns[i] = name /\ \A j \in i + 1..Len(columns) : columns[j] # name)]

portal_ndjson_meta_value(resp) ==
  [meta |-> TRUE, row_count |-> resp.row_count, truncated |-> resp.truncated, columns |-> resp.columns]

portal_ndjson_encode_rows(columns, rows) ==
  [i \in DOMAIN rows |-> [meta |-> FALSE, object |-> RowObject(columns, rows[i])]]

portal_to_ndjson(resp) ==
  <<portal_ndjson_meta_value(resp)>> \o portal_ndjson_encode_rows(resp.columns, resp.rows)

portal_ndjson_chunked_response(resp, window) ==
  LET batches == WindowsOf(resp.rows, AtLeastOne(window))
  IN <<<<portal_ndjson_meta_value(resp)>>>>
     \o [k \in DOMAIN batches |-> portal_ndjson_encode_rows(resp.columns, batches[k])]

(***************************************************************************)
(* One document: what opens it, rows with a comma between two of them, and  *)
(* what closes it with the number of rows.  A comma belongs to the row      *)
(* after it, in whatever window that is.                                    *)
(***************************************************************************)

portal_json_encode_row_array_fragment(chunk, first) ==
  FlattenSeq([i \in DOMAIN chunk |-> (IF first /\ i = 1 THEN <<>> ELSE <<[is |-> "comma"]>>)
                                      \o <<[is |-> "row", row |-> chunk[i]]>>])

portal_json_chunked_response(resp, window) ==
  LET batches == WindowsOf(resp.rows, AtLeastOne(window))
  IN <<<<[is |-> "prefix", columns |-> resp.columns]>>>>
     \o [k \in DOMAIN batches |-> portal_json_encode_row_array_fragment(batches[k], k = 1)]
     \o <<<<[is |-> "trailer", row_count |-> Len(resp.rows), truncated |-> resp.truncated]>>>>

(* The answer at once; a format the portal does not know is JSON.           *)
portal_format_response(resp, format) ==
  CASE format = "csv" -> [is |-> "csv", body |-> portal_to_csv(resp)]
    [] format = "ndjson" -> [is |-> "ndjson", body |-> portal_to_ndjson(resp)]
    [] OTHER -> [is |-> "json", body |-> <<resp>>]

-----------------------------------------------------------------------------
(***************************************************************************)
(* What the admin API promises: documents that can be read back, actions in *)
(* somebody's name, and leases for the service that was asked for.          *)
(***************************************************************************)

(***************************************************************************)
(* Answers.                                                                 *)
(***************************************************************************)
ExportTexts == {<<>>} \cup {<<c>> : c \in {",", "quote", "nl", "cr", "a"}}
                 \cup ({",", "quote", "nl", "a"} \X {",", "quote", "nl", "a"})
ExportCells == {<<>>} \cup {<<t>> : t \in ExportTexts}
FewCells == {<<>>, <<<<"quote">>>>, <<<<"a", ",">>>>}

ExportAnswer(columns, rows, truncated) ==
  [columns |-> columns, rows |-> rows, row_count |-> Len(rows), truncated |-> truncated]

Exported ==
  {ExportAnswer(<<<<"a">>, <<"b">>>>, <<<<c, d>>>>, t) : c \in ExportCells, d \in ExportCells, t \in BOOLEAN}
    \cup {ExportAnswer(names, [i \in 1..n |-> <<c, IF i = 1 THEN <<>> ELSE d>>], t) :
            names \in {<<<<"a">>, <<"a">>>>, <<<<"a", ",">>, <<"quote">>>>}, n \in 0..4, c \in FewCells, d \in FewCells, t \in BOOLEAN}

(* How a reader of CSV takes a document apart: a quote opens and closes a   *)
(* text in which everything else stands for itself and two are one.         *)
ReadChar(s, c) ==
  CASE s.quoted /\ c # "quote" -> [s EXCEPT !.field = Append(@, c), !.closing = FALSE]
    [] s.quoted /\ c = "quote" -> [s EXCEPT !.quoted = FALSE, !.closing = TRUE]
    [] ~s.quoted /\ c = "quote" -> [s EXCEPT !.quoted = TRUE, !.closing = FALSE,
                                             !.field = IF s.closing THEN Append(@, c) ELSE @]
    [] ~s.quoted /\ c = "," -> [s EXCEPT !.row = Append(@, s.field), !.field = <<>>, !.closing = FALSE]
    [] ~s.quoted /\ c = "nl" -> [s EXCEPT !.rows = Append(@, Append(s.row, s.field)), !.row = <<>>,
                                          !.field = <<>>, !.closing = FALSE]
    [] OTHER -> [s EXCEPT !.field = Append(@, c), !.closing = FALSE]

ReadCsv(doc) ==
  FoldLeft(ReadChar, [rows |-> <<>>, row |-> <<>>, field |-> <<>>, quoted |-> FALSE, closing |-> FALSE], doc)

RowCommas(doc) == {i \in DOMAIN doc : doc[i].is = "comma"}

(***************************************************************************)
(* Callers and configurations.                                              *)
(***************************************************************************)
GivenNames == {<<>>, <<"">>, <<"ann">>, <<"bob">>}
Callers == {<<>>, <<"bob">>}

Called(word) == [word |-> word, written |-> 0]
ServiceOf(word, endpoints) == [name |-> Called(word), endpoints |-> endpoints]
(* A name that differs from another's in case alone is another name.        *)
OrdersInCapitals == [name |-> [word |-> "orders", written |-> 1], endpoints |-> <<"e2">>]
SomeServices == {OrdersInCapitals} \cup {ServiceOf("orders", <<"e1">>), ServiceOf("stock", <<"e2", "e1">>), ServiceOf("default", <<"e2">>),
                 ServiceOf("empty", <<>>), ServiceOf("lost", <<"e9">>)}
ServiceLists == {s \in UNION {[1..n -> SomeServices] : n \in 1..3} : \A i, j \in DOMAIN s : i # j => s[i] # s[j]}
SeedLists == {<<>>, <<ServiceOf("stock", <<"e2">>), OrdersInCapitals, ServiceOf("orders", <<"e1">>)>>, <<ServiceOf("orders", <<"e1">>), ServiceOf("stock", <<"e2">>)>>,
              <<ServiceOf("gone", <<"e1">>), ServiceOf("orders", <<"e1">>)>>}

LeaseRequests ==
  [before : SeedLists, services : ServiceLists, env : {"dev", "prod"},
   name : {[word |-> w, written |-> n] : w \in {"orders", "stock", "default", "lost"}, n \in {0, 1}}]

AdminApiInputs == [exports |-> Exported, actors |-> GivenNames \X Callers \X BOOLEAN \X {"", "sql"}, projects |-> LeaseRequests]

(* An export read as CSV has the columns and in each row the text of every  *)
(* cell, whatever characters are in it, and the mark of a cut answer in the *)
(* last line; written in windows of any size it is the same document        *)
(* (csv_escape, portal_to_csv, portal_csv_chunked_response).                *)
CsvReadable ==
  Looking("exports") =>
    LET resp == input[1]
        doc == portal_format_response(resp, "csv").body
        read == ReadCsv(doc)
        texts == [i \in DOMAIN resp.rows |-> [j \in DOMAIN resp.columns |-> json_cell_to_string(resp.rows[i][j])]]
    IN /\ read.rows = <<resp.columns>> \o texts \o (IF resp.truncated THEN <<<<<<"#", "truncated">>>>>> ELSE <<>>)
       /\ read.row = <<>> /\ read.field = <<>> /\ ~read.quoted
       /\ \A w \in 0..3 : FlattenSeq(portal_csv_chunked_response(resp, w)) = doc

(* An export in lines has one line for the answer and one for every row, in *)
(* their order, with the value of each column that no later column has the  *)
(* name of, and is the same in windows of any size                          *)
(* (portal_to_ndjson, portal_ndjson_chunked_response).                      *)
LinesComplete ==
  Looking("exports") =>
    LET resp == input[1]
        lines == portal_format_response(resp, "ndjson").body
    IN /\ Len(lines) = resp.row_count + 1
       /\ \A i \in DOMAIN resp.rows, j \in DOMAIN resp.columns :
            (\A k \in j + 1..Len(resp.columns) : resp.columns[k] # resp.columns[j]) =>
              lines[i + 1].object[resp.columns[j]] = resp.rows[i][j]
       /\ \A w \in 0..3 : FlattenSeq(portal_ndjson_chunked_response(resp, w)) = lines

(* A JSON export that is written in windows is one document: it opens and   *)
(* closes once, has exactly one comma between two rows wherever the windows *)
(* end, and tells as many rows as it has                                    *)
(* (portal_json_chunked_response, portal_json_encode_row_array_fragment).   *)
JsonWhole ==
  Looking("exports") =>
    \A w \in 0..3 :
      LET resp == input[1]
          doc == FlattenSeq(portal_json_chunked_response(resp, w))
          rows == SelectSeq(doc, LAMBDA t : t.is = "row")
      IN /\ Head(doc).is = "prefix" /\ Last(doc).is = "trailer"
         /\ Last(doc).row_count = Len(rows) /\ Last(doc).truncated = resp.truncated
         /\ [i \in DOMAIN rows |-> rows[i].row] = resp.rows
         /\ RowCommas(doc) = {i \in DOMAIN doc : i % 2 = 1 /\ i > 1 /\ i < Len(doc)}

(* Nobody decides over a ticket without a name: the one in the request, or  *)
(* else the name of who is logged in, and without either the store is not   *)
(* asked.  Whoever approved, rejected or issued is the subject of the one   *)
(* event of it; what the store refused leaves none, and neither does a      *)
(* ticket that is revoked, a lease that is renewed or anything pruned       *)
(* (admin_approve_ticket, admin_reject_ticket, admin_revoke_ticket,         *)
(* admin_issue_ticket).                                                     *)
ActorsNamed ==
  Looking("actors") =>
    LET given == input[1][1]
        caller == input[1][2]
        accepted == input[1][3]
        decided == {admin_approve_ticket(given, caller, accepted), admin_reject_ticket(given, caller, accepted),
                    admin_revoke_ticket(given, caller, accepted)}
        issued == admin_issue_ticket(given, caller, "subject", input[1][4])
    IN /\ \A answer \in decided :
            IF answer.op = "none" THEN caller = <<>> /\ given \in {<<>>, <<"">>}
            ELSE answer.by \in {given, caller} \ {<<>>, <<"">>} /\ (given = <<"ann">> => answer.by = given)
       /\ \A answer \in decided \cup {issued, admin_revoke_vault_lease(given, caller, accepted)} :
            answer.events = IF answer.code = "ok" /\ answer.op # "revoke" THEN <<answer.by>> ELSE <<>>
       /\ \A answer \in {admin_renew_vault_lease(accepted), admin_prune_vault_leases, admin_prune_tickets} :
            answer.events = <<>>

(* A lease is for an endpoint of a service there is now, however old the    *)
(* projects are; and who asks for a service by its name gets that service,  *)
(* unless it is called as the first project is.  Of services whose names    *)
(* differ in case alone, dev has the first that has a project of its own    *)
(* name, whichever of them was asked for; elsewhere it is the one asked for *)
(* (admin_issue_vault_lease, ensure_default_projects_from_services).        *)
LeasesResolve ==
  Looking("projects") =>
    LET x == input[1]
        config == [services |-> x.services, endpoints |-> {"e1", "e2"}]
        projects == admin_list_projects(<<>>, x.before # <<>>, x.before)
        answer == admin_issue_vault_lease(projects, config, x.name, x.env)
        made == IF x.before # <<>> THEN x.before ELSE x.services
        alike == {j \in 2..Len(made) : SameProjectName(made[j].name, x.name)}
        meant == IF x.env = "dev" /\ alike # {}
                 THEN made[CHOOSE j \in alike : \A k \in alike : j <= k].name ELSE x.name
        mine == {i \in DOMAIN x.services : x.services[i].name = meant}
    IN /\ answer.op = "issue_lease" =>
            \E i \in DOMAIN x.services :
              /\ x.services[i].name = answer.service
              /\ answer.endpoint = x.services[i].endpoints[1]
              /\ answer.endpoint \in config.endpoints
       /\ \A i \in mine : x.name.word # "default" =>
            IF x.services[i].endpoints[1] \in config.endpoints
            THEN answer.op = "issue_lease" /\ answer.service = meant
            ELSE answer.op = "none"
       /\ mine = {} /\ x.name.word # "default" => answer.op = "none"

=============================================================================
