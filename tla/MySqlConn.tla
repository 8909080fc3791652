----------------------------- MODULE MySqlConn -----------------------------
(***************************************************************************)
(* One pooled connection to a MySQL backend, at the level of packets: the   *)
(* commands of ClientConn, the codecs that read their replies               *)
(* (ResultsetCodec, Stmt, CommonCodec), the functions of backend/mysql.rs   *)
(* that consume them, and the settings the pool expects the connection to   *)
(* have.  Sessions use it one after the other.  A packet is what kind it is *)
(* and the command it answers; the server answers a command at once, and    *)
(* its packets arrive in reads of any size.                                 *)
(***************************************************************************)
EXTENDS Naturals, Sequences, SequencesExt

CONSTANTS Charsets,      \* the character sets of the sessions
          MaxCommands,   \* commands sent on the connection
          MaxRows        \* rows a session may see of a result

VARIABLES
  user,     \* the session that has the connection: what it does and expects
  link,     \* ClientConn: whether it still has its stream, and what it recorded
  job,      \* the command whose reply is being read, and how far that is
  wire,     \* packets the server has sent that have not arrived
  buf,      \* packets in the read buffer
  server,   \* the backend's settings for this connection, and its statements
  sent,     \* commands sent
  fault,    \* what has gone wrong on this connection so far
  stray     \* the settings whose last change the connection has not recorded

connVars == <<user, link, job, wire, buf, server, sent, fault, stray>>

Idle == [kind |-> "none", n |-> 0, st |-> "none", rows |-> 0, cols |-> FALSE, others |-> FALSE]
OutOfHere == [at |-> "out", charset |-> "c1", db |-> "A"]

ConnInit ==
  /\ user = OutOfHere /\ job = Idle /\ wire = <<>> /\ buf = <<>> /\ sent = 0
  /\ link = [open |-> TRUE, charset |-> "c1", stmts |-> {}]
  /\ server = [charset |-> "c1", db |-> "A", open |-> TRUE]
  /\ fault = {} /\ stray = {}

(* Statements that change a setting of the server's: they are queries here. *)
Settling == {"set names", "use"}

(* The replies of the (external) server to each command.                    *)
ResultSet(rows) == <<"count", "def", "eof">> \o [i \in 1 .. rows |-> "row"] \o <<"eof">>
Replies(kind) ==
  CASE kind = "ping" -> {<<"ok">>}
    [] kind = "names" \/ kind \in Settling -> {<<"ok">>, <<"err">>}
    [] kind = "prepare" -> {<<"err">>, <<"first", "def", "eof", "def", "eof">>, <<"first params", "def", "eof">>,
                            <<"first cols", "def", "eof">>, <<"first none">>}
    [] OTHER -> {<<"ok">>, <<"err">>, ResultSet(0), ResultSet(2),
                 <<"count", "def", "eof", "row", "err">>}

(* The codec a command needs: into_resultset and into_stmt renew the state, *)
(* into_common starts afresh, and all of them keep what was read.           *)
FirstState(kind) ==
  CASE kind = "prepare" -> "PrepareFirst"
    [] kind \in {"query", "execute"} \cup Settling -> "ColumnCount"
    [] OTHER -> "Common"

(* Settings the connection's records do not tell: SET NAMES of init() that  *)
(* the server did not obey, USE and SET NAMES as statements of a session.   *)
(* The next SET NAMES of init() puts the character set right.               *)
Strays(kind, obeys) ==
  CASE kind = "names" -> IF obeys THEN stray \ {"charset"} ELSE stray \cup {"charset"}
    [] kind = "set names" -> stray \cup {"charset"}
    [] kind = "use" -> stray \cup {"db"}
    [] OTHER -> stray

(* A send_* takes the stream, writes the command, and puts the stream back: *)
(* a failed write returns before that.  The server obeys at once.           *)
Command(kind, obeyed) ==
  /\ sent < MaxCommands /\ link.open /\ sent' = sent + 1 /\ UNCHANGED buf
  /\ \/ \E reply \in Replies(kind) :
          LET obeys == server.open /\ reply # <<"err">>
          IN /\ wire' = IF ~server.open THEN wire
                        ELSE wire \o [i \in DOMAIN reply |-> [kind |-> reply[i], n |-> sent + 1]]
             /\ server' = IF obeys THEN obeyed ELSE server
             /\ stray' = Strays(kind, obeys) /\ UNCHANGED fault
             /\ job' = [Idle EXCEPT !.kind = kind, !.n = sent + 1, !.st = FirstState(kind)]
             /\ link' = [link EXCEPT !.charset = IF kind = "names" THEN user.charset ELSE @]
     \/ /\ link' = [link EXCEPT !.open = FALSE] /\ fault' = fault \cup {"write"}
        /\ job' = [Idle EXCEPT !.kind = kind, !.st = "failed"] /\ UNCHANGED <<wire, server, stray>>

Resting == job.kind = "none"

(* Taking the stream of a connection whose last write failed: unwrap() of   *)
(* None ends the task of the session, and the connection with it.           *)
UseWithoutStream ==
  /\ Resting /\ ~link.open /\ user.at \in {"ping", "held", "txn"}
  /\ fault' = fault \cup {"panic"} /\ user' = [user EXCEPT !.at = "dead"]
  /\ UNCHANGED <<link, job, wire, buf, server, sent, stray>>

-----------------------------------------------------------------------------
(* The pool hands the connection out: ping(), then init() of the session's  *)
(* attributes.  ping() looks only at whether there was an error, not at the *)
(* answer; init() ignores what the server says.                             *)

TakeConn ==
  /\ user.at = "out" /\ \E c \in Charsets : user' = [at |-> "ping", charset |-> c, db |-> "A"]
  /\ UNCHANGED <<link, job, wire, buf, server, sent, fault, stray>>

SendPing ==
  /\ Resting /\ user.at = "ping" /\ Command("ping", server)
  /\ user' = [user EXCEPT !.at = "init"]

(* The database is the one the pool's key names, which is recorded when the *)
(* connection is built, and no session sets autocommit here: so only the    *)
(* character set may differ; it is recorded before it is asked for.         *)
init ==
  /\ Resting /\ user.at = "init" /\ link.open
  /\ user' = [user EXCEPT !.at = "held"]
  /\ IF user.charset = link.charset THEN UNCHANGED <<link, job, wire, buf, server, sent, fault, stray>>
     ELSE Command("names", [server EXCEPT !.charset = user.charset])

(* The ping failed: the pool drops this connection and builds another.      *)
PingFailed ==
  /\ job.kind = "ping" /\ job.st = "failed" /\ user.at = "init"
  /\ user' = [user EXCEPT !.at = "dead"] /\ job' = Idle
  /\ UNCHANGED <<link, wire, buf, server, sent, fault, stray>>

-----------------------------------------------------------------------------
(* What a session does with it.                                             *)

send_query == Resting /\ user.at \in {"held", "txn"} /\ Command("query", server) /\ UNCHANGED user

(* get_or_prepare: the cache of the connection is keyed by the text.        *)
get_or_prepare ==
  /\ Resting /\ user.at \in {"held", "txn"} /\ link.stmts = {}
  /\ Command("prepare", server) /\ UNCHANGED user
send_execute ==
  /\ Resting /\ user.at \in {"held", "txn"} /\ link.stmts # {}
  /\ Command("execute", server) /\ UNCHANGED user

(* A statement prepared again by its client is prepared again here.         *)
prepare_result_columns ==
  /\ Resting /\ user.at \in {"held", "txn"} /\ link.stmts # {}
  /\ sent < MaxCommands /\ link.open /\ server.open /\ sent' = sent + 1
  /\ \E reply \in Replies("prepare") :
       wire' = wire \o [i \in DOMAIN reply |-> [kind |-> reply[i], n |-> sent + 1]]
  /\ job' = [Idle EXCEPT !.kind = "prepare", !.n = sent + 1, !.st = FirstState("prepare")]
  /\ link' = [link EXCEPT !.stmts = {}] /\ UNCHANGED <<user, buf, server, fault, stray>>

(* A transaction keeps the connection between commands.  USE on it is a     *)
(* plain statement, and so is SET NAMES: the records stay.  Outside of one  *)
(* that is so for USE as text, which decode_query_command does not know,    *)
(* and for SET NAMES with COLLATE, which parse_set_names does not take.     *)
StartTxn ==
  /\ Resting /\ user.at = "held" /\ user' = [user EXCEPT !.at = "txn"]
  /\ UNCHANGED <<link, job, wire, buf, server, sent, fault, stray>>
UseAsText ==
  /\ Resting /\ user.at \in {"held", "txn"} /\ user.db = "A"
  /\ Command("use", [server EXCEPT !.db = "B"])
  /\ user' = [user EXCEPT !.db = server'.db]
NamesAsText ==
  /\ Resting /\ user.at \in {"held", "txn"} /\ \E c \in Charsets \ {user.charset} :
       user' = [user EXCEPT !.charset = c]
       /\ Command("set names", [server EXCEPT !.charset = c])

(* The session drops the connection, which goes back to the pool.           *)
Release ==
  /\ Resting /\ user.at \in {"held", "txn"} /\ user' = OutOfHere
  /\ UNCHANGED <<link, job, wire, buf, server, sent, fault, stray>>

-----------------------------------------------------------------------------
(* Packets arrive, or the connection is lost.                               *)

Receive ==
  /\ wire # <<>> /\ \E k \in 1 .. Len(wire) :
       buf' = buf \o SubSeq(wire, 1, k) /\ wire' = SubSeq(wire, k + 1, Len(wire))
  /\ UNCHANGED <<user, link, job, server, sent, fault, stray>>

ServerCloses ==
  /\ server.open /\ server' = [server EXCEPT !.open = FALSE] /\ wire' = <<>>
  /\ fault' = fault \cup {"closed"} /\ UNCHANGED <<user, link, job, buf, sent, stray>>

Gone == ~server.open /\ wire = <<>> /\ buf = <<>>

(* A packet is handed to whoever waits; it should answer this command.      *)
Saw(st) == [job EXCEPT !.st = st, !.others = @ \/ Head(buf).n # job.n]
Consume == buf' = Tail(buf) /\ UNCHANGED <<user, wire, server, sent, stray>>

(* ResultsetCodec: decode_column_count.  An error packet takes the whole    *)
(* buffer with it.                                                          *)
decode_column_count ==
  /\ job.st = "ColumnCount" /\ buf # <<>> /\ UNCHANGED <<user, wire, server, sent, link, fault, stray>>
  /\ job' = Saw(IF Head(buf).kind \in {"ok", "err"} THEN "done" ELSE "ColumnInfo")
  /\ buf' = IF Head(buf).kind = "err" THEN <<>> ELSE Tail(buf)

decode_column_info ==
  /\ job.st = "ColumnInfo" /\ buf # <<>> /\ Consume /\ UNCHANGED <<link, fault>>
  /\ job' = Saw(IF Head(buf).kind = "eof" THEN "Row" ELSE "ColumnInfo")

(* ResultsetCodec: decode_row.                                              *)
decode_row == IF Head(buf).kind = "eof" THEN "done" ELSE "Row"

(* Rows up to the end; what exceeds the row limit is read and dropped.      *)
KeepRow ==
  /\ job.st = "Row" /\ buf # <<>> /\ Consume /\ UNCHANGED <<link, fault>>
  /\ job' = [Saw(decode_row) EXCEPT !.rows = IF @ < MaxRows THEN @ + 1 ELSE @]

(* A row (or the error packet that stands in its place) that does not       *)
(* decode ends the reading where it is.                                     *)
BadRow ==
  /\ job.st = "Row" /\ buf # <<>> /\ Consume /\ UNCHANGED link
  /\ Head(buf).kind # "eof" /\ job.rows < MaxRows /\ job' = Saw("done")
  /\ fault' = IF Head(buf).kind = "row" THEN fault \cup {"cut"} ELSE fault

(* The three readers of rows: text rows and binary rows are decoded, and a  *)
(* result that is relayed takes any packet for one row more.                *)
mysql_response_from_header_and_stream == job.kind # "execute" /\ (KeepRow \/ BadRow)
read_mysql_query_response_binary == job.kind = "execute" /\ (KeepRow \/ BadRow)
read_mysql_query_passthrough == job.kind = "query" /\ KeepRow

(* Stmt: the first packet tells whether parameters and columns follow.      *)
AfterPrepare(k) ==
  CASE k \in {"err", "first none"} -> "done"
    [] k = "first cols" -> "PrepareCols"
    [] OTHER -> "PrepareParams"

decode_prepare ==
  LET k == Head(buf).kind
      st == CASE job.st = "PrepareFirst" -> AfterPrepare(k)
              [] job.st # "PrepareFirst" /\ k # "eof" -> job.st
              [] job.st = "PrepareParams" /\ k = "eof" -> IF job.cols THEN "PrepareCols" ELSE "done"
              [] job.st = "PrepareCols" /\ k = "eof" -> "done"
  IN /\ job.st \in {"PrepareFirst", "PrepareParams", "PrepareCols"} /\ buf # <<>> /\ Consume
     /\ job' = [Saw(st) EXCEPT !.cols = IF job.st = "PrepareFirst" THEN k = "first" ELSE @]
     /\ link' = IF st = "done" /\ k # "err" THEN [link EXCEPT !.stmts = @ \cup {server.db}] ELSE link
     /\ UNCHANGED fault

(* CommonCodec: one packet for ping and for use; discarding ends when the   *)
(* buffer is empty after a packet.                                          *)
decode_common ==
  /\ job.st = "Common" /\ buf # <<>> /\ Consume /\ UNCHANGED <<link, fault>>
  /\ job' = Saw(IF job.kind = "names" /\ buf' # <<>> THEN "Common" ELSE "done")

(* The connection is closed: what reads rows takes that for their end, what *)
(* reads a header fails, ping answers false, and prepare asks again for     *)
(* ever.                                                                    *)
ReadClosed ==
  /\ Gone /\ job.st \in {"ColumnCount", "ColumnInfo", "Row", "Common"}
  /\ job' = [job EXCEPT !.st = "done"] /\ UNCHANGED <<user, link, wire, buf, server, sent, fault, stray>>

(* The caller has what it wanted.                                           *)
Done ==
  /\ job.st = "done" \/ (job.st = "failed" /\ job.kind # "ping")
  /\ job' = Idle /\ UNCHANGED <<user, link, wire, buf, server, sent, fault, stray>>

ConnNext ==
  \/ TakeConn \/ SendPing \/ PingFailed \/ init \/ send_query \/ get_or_prepare \/ send_execute
  \/ prepare_result_columns \/ StartTxn \/ UseAsText \/ NamesAsText \/ Release \/ UseWithoutStream
  \/ Receive \/ ServerCloses \/ decode_column_count \/ decode_column_info
  \/ mysql_response_from_header_and_stream \/ read_mysql_query_response_binary
  \/ read_mysql_query_passthrough \/ decode_prepare \/ decode_common \/ ReadClosed \/ Done

-----------------------------------------------------------------------------
(* The decoder is in a state its enum names, and never counts past the      *)
(* limit.                                                                   *)
ConnTypeOK ==
  /\ job.st \in {"none", "failed", "done", "Common", "ColumnCount", "ColumnInfo", "Row",
                 "PrepareFirst", "PrepareParams", "PrepareCols"}
  /\ job.rows \in 0 .. MaxRows /\ sent \in 0 .. MaxCommands
  /\ fault \subseteq {"write", "panic", "closed", "cut"} /\ stray \subseteq {"charset", "db"}

(* Every packet a command's caller is given answers that command, however   *)
(* the packets arrive, whatever was read or drained before, across sessions *)
(* and codecs; the exception is a row that did not decode, after which the  *)
(* rest of its result stays in the connection.                              *)
RepliesMatch == job.others => "cut" \in fault

(* A statement runs with the character set and in the database that its     *)
(* session asked for.  The exceptions are the settings that the last change *)
(* left unrecorded: a SET NAMES of init() that the server refused, until a  *)
(* later one is obeyed, and those a session has set with statements of its  *)
(* own, in a transaction or outside one.  A USE of that kind stays with the *)
(* connection, since init() finds the database it expects in its records.   *)
SettingsKept ==
  job.kind \in {"query", "prepare", "execute"} /\ server.open =>
    /\ server.charset = user.charset \/ "charset" \in stray
    /\ server.db = user.db \/ "db" \in stray

=============================================================================
