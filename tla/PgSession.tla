------------------------------ MODULE PgSession ------------------------------
(***************************************************************************)
(* One PostgreSQL client session of the gateway: the extended-query        *)
(* decoder and encoder of frontend/postgresql.rs, the part of              *)
(* CoreGatewayConnection that keeps a suspended portal's rows, the frame   *)
(* relay of backend/postgresql.rs and backend/pg_tcp_relay.rs, and the     *)
(* error path of run_postgresql_core_session.                              *)
(*                                                                         *)
(* A session handles one client message at a time, so an action is one     *)
(* message: decode, the engine, the backend, encode.  What is hard is what *)
(* the messages leave behind for later ones.  SQL texts are members of     *)
(* Sqls with a kind; a set of columns is named by the SQL it describes and *)
(* a row by its SQL and its number.  Bind parameters are left out: an      *)
(* Execute with and one without parameters differ in the command's name    *)
(* and take the same path.  Policy obligations are in Engine,              *)
(* transactions of pooled connections in BackendTxn.                       *)
(***************************************************************************)
EXTENDS Naturals, Sequences

LOCAL INSTANCE SequencesExt

CONSTANTS
    Stmts,      \* statement names
    Portals,    \* portal names
    Kind,       \* Kind[sql]: "list" (a SELECT with named columns), "wild"
                \* (SELECT *), "write", "bad" (the backend rejects it) or
                \* "dangerous" (classify_dangerous_sql names a capability)
    NumRows,    \* the rows any SELECT returns
    MaxFrames,  \* bound: the frames a unit buffers before its Execute
    Clients     \* the configurations a client may meet (see below)

Sqls == DOMAIN Kind
None == "none"
IsSelect(sql) == Kind[sql] \in {"list", "wild"}

\* A client: passthrough says how its service is configured, names, texts and
\* pages which portals, SQL texts and max_rows it uses (0 is no limit), and
\* mixes whether it may send a simple Query before the Sync of a unit.  Flush,
\* which changes nothing, is left out.
VARIABLES
    client,     \* the client of this behaviour, chosen once
    prepared,   \* Stmts -> SQL text, or None
    prepared_columns,   \* Stmts -> the SQL whose columns are cached, or None
    portals,    \* Portals -> SQL text, or None
    portal_columns,     \* Portals -> the SQL whose columns are cached, or None
    suppress,   \* suppress_next_row_description
    session,    \* the pg_* fields of SessionState and transaction_state
    held,       \* held_portal_stream: <<>>, or <<the rest of a portal's rows>>
    hold,       \* tcp_ext_hold: <<>> or <<the backend session of the open unit>>
    txn,        \* tcp_txn: <<>> or <<the session kept between units>>
    req,        \* the last message of the client
    reply,      \* the messages the gateway answered it with
    closed,     \* the gateway left its read loop
    told        \* history, for the properties: what the server of a relayed
                \* unit has been told of what the client was answered

frontend == <<prepared, prepared_columns, portals, portal_columns, suppress>>
vars == <<client, frontend, session, held, hold, txn, req, reply, closed, told>>

\* The backend session of a relayed unit (the PostgreSQL server's side):
\* statements and portals it knows, the transaction status it reports, and
\* whether it skips everything until Sync.
FreshBackend ==
    [stmts |-> [s \in Stmts |-> None], portals |-> [p \in Portals |-> None],
     rows |-> [p \in Portals |-> 0], status |-> "I", skips |-> FALSE]

\* History, before a portal was bound.
NoPortals == [p \in Portals |-> {}]
NoRows == [p \in Portals |-> 0]

\* The frontend after the handshake, and the session made from the startup
\* packet.
Init ==
    /\ client \in Clients
    /\ prepared = [s \in Stmts |-> None]
    /\ prepared_columns = [s \in Stmts |-> None]
    /\ portals = [p \in Portals |-> None]
    /\ portal_columns = [p \in Portals |-> None]
    /\ suppress = FALSE
    /\ session = [extended |-> FALSE, error |-> FALSE, transaction |-> "I",
                  max_rows |-> 0, portal |-> None, skip |-> 0,
                  tcp_hold |-> FALSE, frames |-> <<>>]
    /\ held = <<>>
    /\ hold = <<>>
    /\ txn = <<>>
    /\ req = [tag |-> "Startup"]
    /\ reply = <<[tag |-> "Z", status |-> "I"]>>
    /\ closed = FALSE
    /\ told = [ran |-> FALSE, pending |-> <<>>, stmts |-> [n \in Stmts |-> {}],
               portals |-> NoPortals, got |-> NoRows]

-----------------------------------------------------------------------------
\* Messages to the client

RowDescription(sql) == [tag |-> "T", of |-> sql]
DataRow(sql, n) == [tag |-> "D", of |-> sql, row |-> n]
Tagged(tag) == [tag |-> tag]
ReadyForQuery(status) == [tag |-> "Z", status |-> status]

\* transaction_status: what Z reports.
Ready(s) == IF s.extended THEN <<>> ELSE <<ReadyForQuery(s.transaction)>>

\* A transaction an error aborts.
Failed(s) == IF s.transaction = "T" THEN [s EXCEPT !.transaction = "E"] ELSE s

\* An error answer of the engine: inside an extended unit everything up to
\* Sync is ignored from now on.
\* Mutant of EngineError: the unit goes on after an error.
EngineError_forgotten(s) == Failed(s)
EngineError(s) == Failed([s EXCEPT !.error = s.extended])

Rows(sql, from, to) == [i \in 1 .. (to - from) |-> DataRow(sql, from + i)]

\* encode_resultset_header: an Execute consumes the suppression.
Header(sql, suppressed) == IF suppressed THEN <<>> ELSE <<RowDescription(sql)>>

\* ClientWire: packets the frontend made itself, passed through the engine.
\* Every command but a paged Execute drops the held stream, so that
\* pg_drop_portal_hold, which Bind, Close and Sync also set, is never left on.
\* Mutant of ClientWire: the held stream survives.
ClientWire_keeps(s, packets) ==
    /\ session' = s
    /\ reply' = packets
    /\ UNCHANGED <<held, hold, txn, closed>>
ClientWire(s, packets) ==
    /\ session' = s
    /\ held' = <<>>
    /\ reply' = packets
    /\ UNCHANGED <<hold, txn, closed>>

\* A decode error, which leaves handle_frame: postgresql_extended_error_packet
\* answers it inside an extended unit and when the frame is of an extended
\* query, and otherwise the session ends.
Protocol(s, extendedTag) ==
    IF s.extended \/ extendedTag
      THEN /\ session' = Failed([s EXCEPT !.extended = TRUE, !.error = TRUE])
           /\ reply' = <<Tagged("E")>>
           /\ UNCHANGED closed
      ELSE /\ closed' = TRUE
           /\ reply' = <<>>
           /\ session' = s

-----------------------------------------------------------------------------
\* Rows of a streamed result

Least(a, b) == IF a < b THEN a ELSE b

\* Rows are left after row `to` of a page (a row beyond the page was read).
More(s, to) == s.max_rows > 0 /\ to < NumRows

\* Mutant of Footer: a page that ends before the last row is complete.
Footer_complete(s, more) == <<Tagged("C")>> \o Ready(s)

\* encode_portal_suspended or encode_resultset_footer.
Footer(s, more) ==
    IF s.extended /\ more THEN <<Tagged("s")>> ELSE <<Tagged("C")>> \o Ready(s)

\* The stream an Execute leaves behind.
Rest(p, sql, to) == <<[portal |-> p, sql |-> sql, row |-> to]>>

\* write_streaming_query_with_obligations_sample and the engine's portal
\* state after it: the rows of sql after `from`, cut at the client's page.
\* With a page inside an extended unit the rest of the stream is kept.
Stream(s, p, sql, from, suppressed) ==
    LET wantHold == s.max_rows > 0 /\ s.portal # None /\ s.extended
        to   == IF s.max_rows = 0 THEN NumRows
                                  ELSE Least(from + s.max_rows, NumRows)
        more == More(s, to)
    IN  /\ reply' = Header(sql, suppressed) \o Rows(sql, from, to) \o Footer(s, more)
        /\ held' = IF wantHold /\ more THEN Rest(p, sql, to) ELSE <<>>
        /\ session' =
             [s EXCEPT !.max_rows = 0,
                !.skip = CASE wantHold \/ (s.portal # None /\ ~more) -> 0
                           [] s.portal # None /\ more -> s.skip + (to - from)
                           [] OTHER -> s.skip,
                !.portal = IF more THEN s.portal ELSE None]
        /\ suppress' = FALSE

\* A statement run on a pooled connection (execute_outcome, streaming): rows,
\* a completion, or an error of the backend.
Pooled(s, p, sql, suppressed) ==
    CASE IsSelect(sql) ->
           Stream(s, p, sql, IF s.max_rows > 0 /\ s.extended THEN 0 ELSE s.skip,
                  suppressed)
      [] Kind[sql] = "write" ->
           /\ session' = s
           /\ held' = <<>>
           /\ suppress' = suppressed
           /\ reply' = <<Tagged("C")>> \o Ready(s)
      [] OTHER ->
           /\ session' = EngineError(s)
           /\ held' = <<>>
           /\ suppress' = suppressed
           /\ reply' = <<Tagged("E")>> \o Ready(s)

-----------------------------------------------------------------------------
\* The PostgreSQL server on the other side of a relayed unit

Rejects(b, out) ==
    [b |-> [b EXCEPT !.skips = TRUE, !.status = IF @ = "T" THEN "E" ELSE @],
     out |-> Append(out, Tagged("E"))]

\* One frame of an extended unit.
ServerFrame(acc, f) ==
    LET b == acc.b
        Says(c, m) == [b |-> c, out |-> acc.out \o m]
    IN  CASE b.skips -> acc
          [] ~b.skips /\ b.status = "E" -> Rejects(b, acc.out)
          [] f.tag = "Parse" ->
               IF Kind[f.sql] = "bad" \/ (f.stmt # "" /\ b.stmts[f.stmt] # None)
                 THEN Rejects(IF f.stmt = "" THEN [b EXCEPT !.stmts[""] = None] ELSE b, acc.out)
                 ELSE Says([b EXCEPT !.stmts[f.stmt] = f.sql], <<Tagged("1")>>)
          [] f.tag = "Bind" ->
               IF b.stmts[f.stmt] = None THEN Rejects(b, acc.out)
                 ELSE Says([b EXCEPT !.portals[f.portal] = b.stmts[f.stmt],
                                     !.rows[f.portal] = 0], <<Tagged("2")>>)
          [] f.tag = "Describe" ->
               LET sql == IF f.target = "S" THEN b.stmts[f.name]
                                            ELSE b.portals[f.name]
               IN  IF sql = None THEN Rejects(b, acc.out)
                     ELSE Says(b, IF IsSelect(sql) THEN <<RowDescription(sql)>>
                                                   ELSE <<Tagged("n")>>)
          [] f.tag = "Execute" ->
               LET sql  == b.portals[f.portal]
                   from == b.rows[f.portal]
                   to   == IF f.max = 0 THEN NumRows
                                        ELSE Least(from + f.max, NumRows)
               IN  IF sql = None THEN Rejects(b, acc.out)
                     ELSE IF ~IsSelect(sql) THEN Says(b, <<Tagged("C")>>)
                     ELSE Says([b EXCEPT !.rows[f.portal] = to],
                               Rows(sql, from, to) \o
                               <<IF f.max > 0 /\ to - from = f.max
                                   THEN Tagged("s") ELSE Tagged("C")>>)

\* Sync on the server: the transaction status, and outside a transaction its
\* portals are gone.
ServerSync(b) ==
    [b EXCEPT !.skips = FALSE,
       !.portals = IF b.status = "I" THEN FreshBackend.portals ELSE @,
       !.rows = IF b.status = "I" THEN FreshBackend.rows ELSE @]

\* A simple query on the server.
ServerQuery(b, sql) ==
    CASE b.status = "E" -> [b |-> b, out |-> <<Tagged("E")>>]
      [] IsSelect(sql) -> [b |-> b, out |-> <<RowDescription(sql)>> \o Rows(sql, 0, NumRows)
                                              \o <<Tagged("C")>>]
      [] Kind[sql] = "write" -> [b |-> b, out |-> <<Tagged("C")>>]
      [] OTHER -> [b |-> [b EXCEPT !.status = IF @ = "T" THEN "E" ELSE @],
                   out |-> <<Tagged("E")>>]

-----------------------------------------------------------------------------
\* The relay (passthrough)

\* take_or_open_tcp_txn and the idle pool: the session kept for this client,
\* or a new one, on which BEGIN is sent when the client is in a transaction.
Opened ==
    IF txn # <<>> THEN Head(txn)
    ELSE [FreshBackend EXCEPT !.status = IF session.transaction = "T" THEN "T" ELSE "I"]

\* client_frames_relay_hold_into: a Describe of the bound portal is put before
\* the Execute when the client sent none.
Injected(frames) ==
    LET binds == SelectSeq(frames, LAMBDA f : f.tag = "Bind")
    IN  IF binds = <<>> \/ \E i \in DOMAIN frames : frames[i].tag = "Describe"
          THEN frames
          ELSE SubSeq(frames, 1, Len(frames) - 1)
               \o <<[tag |-> "Describe", target |-> "P", name |-> Last(binds).portal],
                    Last(frames)>>

\* execute_client_extended_frames_tcp_relay and write_wire_relay_observed: the
\* buffered frames go to the held session or a newly opened one, which is held
\* until Sync; ParseComplete and BindComplete were already answered.
RelayUnit(s) ==
    LET ran  == FoldLeft(ServerFrame,
                         [b |-> IF s.tcp_hold THEN Head(hold) ELSE Opened, out |-> <<>>],
                         IF s.tcp_hold THEN s.frames ELSE Injected(s.frames))
        fail == \E i \in DOMAIN ran.out : ran.out[i].tag = "E"
        s1   == [s EXCEPT !.frames = <<>>, !.tcp_hold = TRUE]
    IN  /\ hold' = <<ran.b>>
        /\ txn' = IF s.tcp_hold THEN txn ELSE <<>>
        /\ session' = IF fail THEN EngineError(s1) ELSE s1
        /\ reply' = SelectSeq(ran.out, LAMBDA m : m.tag \notin {"1", "2"})

\* execute_pg_backend_sync: Sync goes to the held session, whose status the
\* client and the gateway learn; the session is kept for the next unit.
RelaySync(s) ==
    LET b == ServerSync(Head(hold))
    IN  /\ hold' = <<>>
        /\ txn' = <<b>>
        /\ session' = [s EXCEPT !.extended = FALSE, !.tcp_hold = FALSE,
                                !.transaction = b.status]
        /\ reply' = <<ReadyForQuery(b.status)>>

\* execute_simple_query_tcp_relay and its transaction variant.
RelayQuery(s, sql) ==
    LET ran == ServerQuery(Opened, sql)
    IN  /\ txn' = IF txn # <<>> \/ session.transaction = "T" \/ ran.b.status # "I"
                    THEN <<ran.b>> ELSE <<>>
        /\ session' = [s EXCEPT !.transaction = ran.b.status]
        /\ reply' = Append(ran.out, ReadyForQuery(ran.b.status))
        /\ UNCHANGED hold

-----------------------------------------------------------------------------
\* The client's messages.  What a client never sends is its own restraint,
\* not a check of the gateway.

\* pg_client_extended_frames, which only the relay reads.
Buffered(frames, m) == IF client.passthrough THEN Append(frames, m) ELSE <<>>

\* The client's restraint: it does not fill the buffer without end.
Room == Len(session.frames) < MaxFrames

\* History: the unit's Parse and Bind are told to the server with its first
\* Execute, those that come later are not, and those of a unit without an
\* Execute are forgotten.  A server that finds an error skips the rest: what a
\* statement is then may be the old or a new text.
Answered(m) ==
    IF client.passthrough /\ ~told.ran THEN [told EXCEPT !.pending = Append(@, m)] ELSE told
Told(t, m) ==
    IF m.tag = "Parse" THEN [t EXCEPT !.stmts[m.stmt] = {m.sql}]
    ELSE [t EXCEPT !.portals[m.portal] = t.stmts[m.stmt], !.got[m.portal] = 0]
Executed(portal) ==
    LET t == FoldLeft(Told, told, told.pending)
        Sent(tag) == SelectSeq(reply', LAMBDA m : m.tag = tag)
        all == [t EXCEPT !.got[portal] = @ + Len(Sent("D"))]
        Texts(n) == {m.sql : m \in {x \in Range(told.pending) : x.tag = "Parse" /\ x.stmt = n}}
        part == [told EXCEPT !.stmts = [n \in Stmts |-> @[n] \cup Texts(n)]]
    IN  [IF Sent("E") = <<>> THEN all ELSE part EXCEPT !.ran = TRUE, !.pending = <<>>]

Asks(m) ==
    /\ ~closed
    /\ req' = m
    /\ UNCHANGED client

\* While an error waits for Sync every other message is decoded and ignored.
Ignored ==
    /\ session.error
    /\ Asks([tag |-> "ignored"])
    /\ reply' = <<>>
    /\ UNCHANGED <<frontend, session, held, hold, txn, closed, told>>

\* A frame decode_frontend_message does not understand.
Malformed(extendedTag) ==
    /\ Asks([tag |-> "malformed"])
    /\ Protocol(session, extendedTag)
    /\ UNCHANGED <<frontend, held, hold, txn, told>>

\* FrontendMessage::Query
Query(sql) ==
    /\ client.mixes \/ ~session.extended
    /\ ~session.error
    /\ Asks([tag |-> "Query", sql |-> sql])
    /\ LET s == [session EXCEPT !.extended = FALSE]
       IN  IF Kind[sql] = "dangerous"
             THEN /\ session' = s
                  /\ reply' = <<Tagged("E")>> \o Ready(s)
                  /\ suppress' = FALSE
                  /\ UNCHANGED <<held, hold, txn>>
           ELSE IF client.passthrough
             THEN /\ RelayQuery(s, sql)
                  /\ suppress' = FALSE
                  /\ UNCHANGED held
             ELSE /\ Pooled(s, None, sql, FALSE)
                  /\ UNCHANGED <<hold, txn>>
    /\ UNCHANGED <<prepared, prepared_columns, portals, portal_columns, closed, told>>

\* decode_query_command and the connector: BEGIN is only noted, COMMIT and
\* ROLLBACK go to the relayed session and drop it.
Control(verb) ==
    LET s == [session EXCEPT !.extended = FALSE,
                       !.transaction = IF verb = "BEGIN" THEN "T" ELSE "I"]
    IN  /\ client.mixes \/ ~session.extended
        /\ ~session.error
        /\ Asks([tag |-> "Control"])
        /\ session' = s
        /\ reply' = <<Tagged("C")>> \o Ready(s)
        /\ held' = <<>>
        /\ suppress' = FALSE
        /\ txn' = IF verb = "BEGIN" THEN txn ELSE <<>>
        /\ UNCHANGED <<prepared, prepared_columns, portals, portal_columns, hold, closed, told>>

\* infer_select_result_columns: the columns Parse leaves in the cache.
\* Mutant of Cached: columns of the old text are kept.
Cached_old(stmt, sql) == IF Kind[sql] = "list" THEN sql ELSE prepared_columns[stmt]
Cached(stmt, sql) == IF Kind[sql] = "list" THEN sql ELSE None

\* FrontendMessage::Parse
Parse(stmt, sql) ==
    /\ Room
    /\ ~session.error
    /\ Asks([tag |-> "Parse", stmt |-> stmt, sql |-> sql])
    /\ \/ /\ Kind[sql] = "dangerous"
          /\ session' = Failed([session EXCEPT !.extended = TRUE, !.error = TRUE])
          /\ reply' = <<Tagged("E")>>
          /\ UNCHANGED <<frontend, held, hold, txn, closed, told>>
       \/ /\ Kind[sql] # "dangerous"
          /\ told' = Answered(req')
          /\ prepared' = [prepared EXCEPT ![stmt] = sql]
          /\ prepared_columns' = [prepared_columns EXCEPT ![stmt] = Cached(stmt, sql)]
          /\ ClientWire([session EXCEPT !.extended = TRUE,
                         !.frames = Buffered(@, req')],
                      <<Tagged("1")>>)
          /\ UNCHANGED <<portals, portal_columns, suppress>>

\* FrontendMessage::Bind
Bind(portal, stmt) ==
    LET s == [session EXCEPT !.extended = TRUE,
                !.frames = Buffered(@, req')]
    IN  /\ Room
        /\ ~session.error
        /\ Asks([tag |-> "Bind", portal |-> portal, stmt |-> stmt])
        /\ \/ /\ prepared[stmt] = None
              /\ Protocol(s, TRUE)
              /\ UNCHANGED <<frontend, held, hold, txn, told>>
           \/ /\ prepared[stmt] # None
              /\ told' = Answered(req')
              /\ portals' = [portals EXCEPT ![portal] = prepared[stmt]]
              /\ portal_columns' = [portal_columns EXCEPT ![portal] = prepared_columns[stmt]]
              /\ suppress' = FALSE
              /\ ClientWire([s EXCEPT !.portal = portal,
                               !.skip = IF s.portal = portal THEN 0 ELSE @],
                            <<Tagged("2")>>)
              /\ UNCHANGED <<prepared, prepared_columns>>

\* looks_like_select, of a text whose columns Parse could not name.
Catalog(sql) == IF sql = None THEN FALSE ELSE Kind[sql] = "wild"

\* FrontendMessage::Describe: from the cached columns, else from the backend
\* for a SELECT (a pooled connection prepares it), else NoData.
Describe(target, name) ==
    LET cols == IF target = "S" THEN prepared_columns[name] ELSE portal_columns[name]
        sql  == IF target = "S" THEN prepared[name] ELSE portals[name]
        s    == [session EXCEPT !.frames = Buffered(@, req')]
    IN  /\ Room
        /\ ~session.error
        /\ Asks([tag |-> "Describe", target |-> target, name |-> name])
        /\ UNCHANGED told
        /\ \/ /\ cols # None
              /\ ClientWire(s, <<RowDescription(cols)>>)
              /\ UNCHANGED frontend
           \/ /\ cols = None
              /\ ~Catalog(sql)
              /\ ClientWire(s, <<Tagged("n")>>)
              /\ UNCHANGED frontend
           \/ /\ cols = None
              /\ Catalog(sql)
              /\ ClientWire(s, <<RowDescription(sql)>>)
              /\ prepared_columns' = IF target = "S"
                    THEN [prepared_columns EXCEPT ![name] = sql] ELSE prepared_columns
              /\ portal_columns' = IF target = "P"
                    THEN [portal_columns EXCEPT ![name] = sql] ELSE portal_columns
              /\ UNCHANGED <<prepared, portals, suppress>>
           \/ /\ cols = None
              /\ Catalog(sql)
              /\ session' = EngineError(s)     \* the catalog lookup fails
              /\ reply' = <<Tagged("E")>> \o Ready(s)
              /\ held' = <<>>
              /\ UNCHANGED <<frontend, hold, txn, closed>>

\* FrontendMessage::Execute: a page of the suspended stream when one is held,
\* otherwise the statement is run.
Execute(portal, max) ==
    LET fresh == session.portal # portal
        s == [session EXCEPT !.extended = TRUE,
                !.frames = Buffered(IF session.tcp_hold THEN <<>> ELSE @, req'),
                !.max_rows = max, !.portal = portal, !.skip = IF fresh THEN 0 ELSE @]
        kept == held # <<>> /\ max > 0
    IN  /\ ~session.error
        /\ Asks([tag |-> "Execute", portal |-> portal, max |-> max])
        /\ \/ /\ portals[portal] = None
              /\ Protocol(s, TRUE)
              /\ UNCHANGED <<frontend, held, hold, txn, told>>
           \/ /\ portals[portal] # None
              /\ UNCHANGED <<prepared, prepared_columns, portals, portal_columns, closed>>
              /\ IF client.passthrough
                   THEN /\ RelayUnit(s)
                        /\ suppress' = TRUE
                        /\ told' = Executed(portal)
                        /\ UNCHANGED held
                   ELSE /\ IF kept THEN LET h == Head(held) IN Stream(s, h.portal, h.sql, h.row, TRUE)
                                   ELSE Pooled(s, portal, portals[portal], TRUE)
                        /\ UNCHANGED <<hold, txn, told>>

\* FrontendMessage::Close
Close(target, name) ==
    LET s == IF target = "P" /\ session.portal = name
               THEN [session EXCEPT !.portal = None, !.skip = 0] ELSE session
    IN  /\ ~session.error
        /\ Asks([tag |-> "Close"])
        /\ ClientWire(s, <<Tagged("3")>>)
        /\ IF target = "S"
             THEN /\ prepared' = [prepared EXCEPT ![name] = None]
                  /\ prepared_columns' = [prepared_columns EXCEPT ![name] = None]
                  /\ UNCHANGED <<portals, portal_columns>>
             ELSE /\ portals' = [portals EXCEPT ![name] = None]
                  /\ portal_columns' = [portal_columns EXCEPT ![name] = None]
                  /\ UNCHANGED <<prepared, prepared_columns>>
        /\ UNCHANGED <<suppress, told>>

\* FrontendMessage::Sync
Sync ==
    LET s == [session EXCEPT !.max_rows = 0, !.portal = None, !.skip = 0,
                !.frames = <<>>, !.error = FALSE]
    IN  /\ Asks([tag |-> "Sync"])
        /\ suppress' = FALSE
        /\ IF session.tcp_hold
             THEN RelaySync(s) /\ UNCHANGED <<held, closed>>
             ELSE LET t == [s EXCEPT !.extended = FALSE] IN ClientWire(t, Ready(t))
        /\ told' = [told EXCEPT !.ran = FALSE, !.pending = <<>>,
                      !.portals = IF session'.transaction = "I" THEN NoPortals ELSE @,
                      !.got = IF session'.transaction = "I" THEN NoRows ELSE @]
        /\ UNCHANGED <<prepared, prepared_columns, portals, portal_columns>>

\* Terminate: the connector forgets its sessions and the read loop ends.
Terminate ==
    /\ Asks([tag |-> "Terminate"])
    /\ closed' = TRUE
    /\ reply' = <<>>
    /\ held' = <<>>
    /\ hold' = <<>>
    /\ txn' = <<>>
    /\ UNCHANGED <<frontend, session, told>>

Next ==
    \/ Ignored
    \/ \E extendedTag \in BOOLEAN : Malformed(extendedTag)
    \/ \E sql \in client.texts : Query(sql)
    \/ \E verb \in {"BEGIN", "COMMIT", "ROLLBACK"} : Control(verb)
    \/ \E stmt \in Stmts, sql \in client.texts : Parse(stmt, sql)
    \/ \E portal \in client.names, stmt \in Stmts : Bind(portal, stmt)
    \/ \E name \in Stmts : Describe("S", name)
    \/ \E name \in client.names : Describe("P", name)
    \/ \E portal \in client.names, max \in client.pages : Execute(portal, max)
    \/ \E name \in Stmts : Close("S", name)
    \/ \E name \in client.names : Close("P", name)
    \/ Sync
    \/ Terminate

Spec == Init /\ [][Next]_vars

-----------------------------------------------------------------------------
\* Properties

Requests == {"Startup", "Query", "Control", "Parse", "Bind",
             "Describe", "Execute", "Close", "Sync", "Terminate", "ignored",
             "malformed"}
ExtendedTags == {"Parse", "Bind", "Describe", "Execute", "Close"}
Tags == {"1", "2", "3", "n", "T", "D", "C", "s", "E", "Z"}
Of(tag) == SelectSeq(reply, LAMBDA m : m.tag = tag)

\* The session's state is well formed: names, cached columns and the held
\* stream refer to SQL texts, and the only stream kept is one cut before its
\* last row.
TypeOK ==
    /\ client \in Clients
    /\ prepared \in [Stmts -> Sqls \cup {None}]
    /\ prepared_columns \in [Stmts -> Sqls \cup {None}]
    /\ portals \in [Portals -> Sqls \cup {None}]
    /\ portal_columns \in [Portals -> Sqls \cup {None}]
    /\ suppress \in BOOLEAN /\ closed \in BOOLEAN
    /\ session.extended \in BOOLEAN /\ session.error \in BOOLEAN
    /\ closed \/ session.tcp_hold = (hold # <<>>)
    /\ session.transaction \in {"I", "T", "E"}
    /\ session.portal \in Portals \cup {None}
    /\ session.max_rows \in client.pages \cup {0}
    /\ held # <<>> => /\ Head(held).portal \in Portals /\ Head(held).sql \in Sqls
                      /\ Head(held).row \in 1 .. (NumRows - 1)
    /\ req.tag \in Requests
    /\ \A i \in DOMAIN reply : reply[i].tag \in Tags

\* Sync and a simple query are answered with exactly one ReadyForQuery, as the
\* last message, and no other message is answered with one: a client counts
\* them to match answers with requests (encode and encode_resultset_footer:
\* "Sync alone emits Z").  One case is different: a unit that a Describe opens
\* is not known to be one, so that its error carries a ReadyForQuery of its own.
ReadyOnce ==
    LET owed == \/ req.tag \in {"Startup", "Sync"}
                \/ req.tag \in {"Query", "Control"} /\ ~session.error
                \/ req.tag = "Describe" /\ Of("E") # <<>> /\ ~session.extended
    IN  IF owed /\ ~closed THEN /\ Len(Of("Z")) = 1
                               /\ Last(reply).tag = "Z"
                          ELSE Of("Z") = <<>>

\* An error inside an extended unit makes the session ignore the rest of the
\* unit, whichever of the decoder, the engine and the relayed server raised it;
\* in a transaction it is then reported as failed.
UnitErrors ==
    (req.tag \in ExtendedTags /\ Of("E") # <<>>) =>
        session.transaction # "T" /\ (session.extended => session.error)

\* A Describe answered with columns gives those of the SQL text the name
\* stands for now: the columns cached by Parse, by Bind and by a catalog
\* lookup never outlive the text they were made for.
DescribeFresh ==
    \A i \in DOMAIN Of("T") : req.tag = "Describe" =>
        Of("T")[i].of = IF req.target = "S" THEN prepared[req.name] ELSE portals[req.name]

\* Whether the next message is a page that continues a suspended one.  On a
\* streaming service that is any paged Execute right after it, even one of
\* another portal.
Continues == ~client.passthrough /\ req.tag = "Execute" /\ Of("s") # <<>> /\ req'.max > 0

\* The rows an Execute is sent.  On a streaming service they are those of the
\* SQL text bound to its portal now, unless they continue the page before
\* (core_engine.rs:848 does not compare the portals).  On a passthrough
\* service they are those of the text that the server was told: a Parse or
\* Bind after the unit's first Execute, or in a unit without one, has been
\* answered and counts for nothing.
OwnRows ==
    \A i \in DOMAIN Of("D")' : req'.tag = "Execute" =>
        Of("D")'[i].of \in IF client.passthrough THEN told'.portals[req'.portal]
                           ELSE {IF Continues THEN Of("D")[1].of ELSE portals'[req'.portal]}

\* What is sent for a simple query is the query's own, headed by its columns.
OwnResult ==
    \A i \in DOMAIN reply : (req.tag = "Query" /\ reply[i].tag \in {"T", "D"}) =>
        reply[i].of = req.sql /\ reply[1].tag = "T"

\* A result is never cut short in silence: when rows are followed by
\* CommandComplete the last row of the result was sent, and PortalSuspended
\* means the client's page is full.
PageEnd ==
    LET d == Of("D")
    IN  /\ (d # <<>> /\ Of("C") # <<>>) => Last(d).row = NumRows
        /\ Of("s") # <<>> => req.tag = "Execute" /\ Len(d) \in {0, req.max}
        /\ \A i \in 1 .. (Len(d) - 1) : d[i + 1].row = d[i].row + 1

\* Where the rows of an Execute begin.  On a passthrough service after the
\* last one this client got of the portal since it was bound.  On a streaming
\* service a page right after a suspended one continues it; whatever comes
\* between, or an Execute without a limit, and the portal starts again with
\* its first row.
PagesContinue ==
    [][(req'.tag = "Execute" /\ Of("D")' # <<>>) =>
         Of("D")'[1].row =
           IF client.passthrough THEN told'.got[req'.portal] - Len(Of("D")') + 1
           ELSE IF Continues THEN Last(Of("D")).row + 1
           ELSE 1]_vars

\* Every unit of the client ends with one ReadyForQuery, whatever failed in it
\* is answered by one error, and the session keeps its types.
UnitsAnswered == TypeOK /\ ReadyOnce /\ UnitErrors

\* A portal gives its own rows, and says that there are more exactly when
\* there are.
RowsOwn == [][OwnRows /\ OwnResult' /\ PageEnd']_vars

=============================================================================
