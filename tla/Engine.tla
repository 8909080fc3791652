------------------------------- MODULE Engine -------------------------------
(***************************************************************************)
(* CoreGatewayConnection::handle_frame_inner of                              *)
(* runtime/gateway/src/core_engine.rs: the gates that every command of a     *)
(* client frame passes on its way to the backend and back, with the session  *)
(* loops of gateway.rs around it and the plugin phase of the plugin crate.   *)
(*                                                                          *)
(* A session handles one command at a time and owns its plugin phase; the   *)
(* gauge of commands in progress is the process's.  What the SQL text of a  *)
(* command makes a gate decide is a choice of that gate.  Portals and the   *)
(* extended-query frames are PgSession's, the backend's transaction is      *)
(* BackendTxn's.                                                            *)
(***************************************************************************)
EXTENDS Integers, FiniteSets

CONSTANTS Plans,          \* listener plans: front, cross, kind, endpoints, secured, passthrough, stream, plugins
          MaxConcurrency, \* max_concurrency of the concurrency rule
          Cursors,        \* cursor names
          MaxBatch,       \* commands one frame decodes to, at most
          MaxFrames,      \* frames of all sessions
          MaxSessions

ASSUME LimitsAssumption == MaxConcurrency \in Nat \ {0} /\ MaxBatch \in Nat

\* The first endpoint is one of the service's; stream_mode comes from
\* from_streaming_config, which never makes it Passthrough.
ASSUME PlansAssumption ==
  \A p \in Plans : p.first \in DOMAIN p.endpoints /\ p.stream \in {"streaming", "materialized"}

VARIABLES plan,     \* the listener plan, fixed
          conn,     \* the session: pg_extended_query, pg_extended_error, transaction, endpoint, cursors
          rule,     \* the concurrency rule of the session: permits, start_at set
          cmd,      \* the command in hand and how far it got
          left,     \* commands of the frame still to come
          gauge,    \* sql_under_processing
          lost,     \* history: permits taken and not given back since the window opened
          clean,    \* history: no cursor statement and no failed frame so far
          frames, sessions

engineVars == <<plan, conn, rule, cmd, left, gauge, lost, clean, frames, sessions>>

Endpoints == DOMAIN plan.endpoints
Role(role) == {e \in Endpoints : plan.endpoints[e] = role}

(* The balancer of a role; without read endpoints reads share the others.   *)
build_read_write(target) ==
  IF target = "read" /\ Role("read") # {} THEN Role("read") ELSE Role("readwrite")

(* select_from_balancer: the next endpoint of the balancer, any of them.    *)
plan_for_role(target) ==
  IF plan.kind = "first" THEN {plan.first}
  ELSE IF plan.kind = "simple" THEN Endpoints ELSE build_read_write(target)

(* Only a query whose SQL the dialect calls read-only may leave the primary *)
(* and only outside a transaction.                                          *)
command_target_role(kind, reads) ==
  IF conn.txn # "active" /\ kind \in {"query", "params"} /\ reads THEN "read" ELSE "readwrite"

(* Mutant of plan_command: an open transaction is balanced like anything.   *)
plan_command_loose(kind, reads) ==
  IF plan.kind \in {"first", "simple"} THEN {conn.ep} ELSE plan_for_role(command_target_role(kind, reads))
(* Sticky for simple policies, and for an active transaction.               *)
plan_command(kind, reads) ==
  IF plan.kind \in {"first", "simple"} \/ conn.txn = "active" THEN {conn.ep}
  ELSE plan_for_role(command_target_role(kind, reads))

Idle == [stage |-> "read"]
(* A fresh session: build_connection picks the first endpoint and builds a  *)
(* plugin phase of its own.                                                 *)
build_connection ==
  /\ \E e \in plan_for_role("readwrite") :
       conn' = [ext |-> FALSE, err |-> FALSE, txn |-> "idle", ep |-> e, cursors |-> {}]
  /\ rule' = [permits |-> MaxConcurrency, started |-> FALSE]
  /\ lost' = 0

EngineInit ==
  /\ plan \in Plans
  /\ conn = [ext |-> FALSE, err |-> FALSE, txn |-> "idle", ep |-> plan.first, cursors |-> {}]
  /\ rule = [permits |-> MaxConcurrency, started |-> FALSE]
  /\ cmd = Idle /\ left = 0 /\ gauge = 0 /\ lost = 0 /\ clean = TRUE
  /\ frames = 0 /\ sessions = 1

(***************************************************************************)
(* Helpers: how a command ends.                                             *)
(***************************************************************************)
InHand(kind, reads) ==
  [stage |-> "plugins", kind |-> kind, reads |-> reads, permit |-> FALSE, obl |-> FALSE,
   passed |-> {}, executed |-> "no", audits |-> 0, replies |-> 0, end |-> "open"]

Failed(txn) == IF txn = "active" THEN "failed" ELSE txn

(* The rest of an extended unit is skipped and its transaction has failed.  *)
UnitFails == IF plan.front = "pg" /\ conn.ext THEN [conn EXCEPT !.err = TRUE, !.txn = Failed(conn.txn)] ELSE conn

Ended(how, replies) == [cmd EXCEPT !.stage = "done", !.end = how, !.replies = @ + replies]

finish_command_metrics == gauge' = gauge - 1

release_concurrency == rule' = IF cmd.permit THEN [rule EXCEPT !.permits = @ + 1] ELSE rule
Lose == lost' = IF cmd.permit THEN lost + 1 ELSE lost

(* An error leaves handle_frame_inner: the rest of the frame is dropped, as *)
(* are the metrics and the permit of the command.  A MySQL session answers  *)
(* and goes on; a PostgreSQL session goes on only in an extended unit.      *)
GoesOn == plan.front = "my" \/ conn.ext
FrameFails ==
  /\ clean' = FALSE /\ Lose /\ left' = 0
  /\ \/ /\ GoesOn
        /\ cmd' = Idle
        /\ conn' = UnitFails
     \/ cmd' = [stage |-> "closed"] /\ UNCHANGED conn
  /\ UNCHANGED <<plan, frames, sessions>>

(***************************************************************************)
(* The session loop and decoding.                                           *)
(***************************************************************************)
(* A frame is read and decoded.  An extended frame opens a unit; in a unit  *)
(* that failed everything up to its Sync decodes to nothing.                *)
ReadFrame ==
  /\ cmd.stage = "read" /\ frames < MaxFrames
  /\ frames' = frames + 1
  /\ \/ \E n \in 1..MaxBatch, ext \in BOOLEAN :
          /\ ext => plan.front = "pg"
          /\ ~conn.err
          /\ left' = n /\ conn' = [conn EXCEPT !.ext = ext] /\ cmd' = [stage |-> "next"]
     \/ /\ conn.err
        /\ left' = 0 /\ UNCHANGED cmd
        /\ \/ conn' = [conn EXCEPT !.err = FALSE, !.ext = FALSE]    \* Sync
           \/ UNCHANGED conn
  /\ UNCHANGED <<plan, rule, gauge, lost, clean, sessions>>

(* The frame does not decode.                                               *)
DecodeFails ==
  /\ cmd.stage = "read" /\ frames < MaxFrames /\ ~conn.err
  /\ frames' = frames + 1 /\ left' = 0 /\ clean' = FALSE
  /\ \/ GoesOn /\ conn' = UnitFails /\ UNCHANGED cmd
     \/ ~GoesOn /\ cmd' = [stage |-> "closed"] /\ UNCHANGED conn
  /\ UNCHANGED <<plan, rule, gauge, lost, sessions>>

(* reject_unsupported_capability: an audit event and an error, whether the  *)
(* decoder or the list of dangerous commands found it.  No gate is passed.  *)
reject_unsupported_capability(kind) ==
  /\ cmd.stage = "next" /\ left > 0
  /\ conn' = UnitFails
  /\ cmd' = [InHand(kind, FALSE) EXCEPT !.stage = "done", !.end = "unsupported", !.audits = 1, !.replies = 1]
  /\ left' = left - 1
  /\ UNCHANGED <<plan, rule, gauge, lost, clean, frames, sessions>>

NextCommand ==
  /\ cmd.stage = "done"
  /\ cmd' = [stage |-> IF cmd.kind = "quit" THEN "closed" ELSE "next"]
  /\ UNCHANGED <<plan, conn, rule, left, gauge, lost, clean, frames, sessions>>

FrameDone ==
  /\ cmd.stage = "next" /\ left = 0
  /\ cmd' = Idle
  /\ UNCHANGED <<plan, conn, rule, left, gauge, lost, clean, frames, sessions>>

(***************************************************************************)
(* Routing, then the cursor statements.                                     *)
(***************************************************************************)
Kinds == {"query", "params", "execute", "sync", "begin", "end", "quit", "other"}

Route(kind, reads) ==
  /\ cmd.stage = "next" /\ left > 0
  /\ left' = left - 1
  /\ \E e \in plan_command(kind, reads) : conn' = [conn EXCEPT !.ep = e]
  /\ gauge' = gauge + 1
  /\ cmd' = InHand(kind, reads)
  /\ UNCHANGED <<plan, rule, lost, clean, frames, sessions>>

Named(name) == {c \in conn.cursors : c.name = name}
CursorDone(executed, c) ==
  /\ conn' = c
  /\ cmd' = [cmd EXCEPT !.stage = "done", !.end = "cursor", !.replies = 1, !.executed = executed]
  /\ gauge' = gauge - 2                 \* by the statement and again by its caller
  /\ clean' = FALSE
  /\ UNCHANGED <<plan, rule, left, lost, frames, sessions>>
CursorFailed(c) == CursorDone("no", [c EXCEPT !.txn = Failed(c.txn)])

(* handle_named_cursor_sql, before any other gate.                          *)
Declare(name, hold) ==
  /\ cmd.stage = "plugins" /\ cmd.kind = "query"
  /\ IF Named(name) # {} THEN CursorFailed(conn)
     ELSE \/ CursorDone("stream", [conn EXCEPT !.cursors = @ \cup {[name |-> name, hold |-> hold]}])
          \/ CursorDone("complete", conn)       \* not a row stream: the answer is passed on
          \/ /\ gauge' = gauge - 1 /\ UNCHANGED rule \* the backend failed
             /\ FrameFails

(* A cursor is taken out for the fetch; a dead backend loses it.            *)
Fetch(name) ==
  /\ cmd.stage = "plugins" /\ cmd.kind = "query"
  /\ IF Named(name) = {} THEN CursorFailed(conn)
     ELSE \/ CursorDone("stream", conn)
          \/ CursorDone("no", [conn EXCEPT !.cursors = @ \ Named(name), !.txn = "failed"])
          \/ /\ gauge' = gauge - 1 /\ UNCHANGED rule     \* the stream failed
             /\ FrameFails

CloseCursor(name) ==
  /\ cmd.stage = "plugins" /\ cmd.kind = "query"
  /\ IF Named(name) = {} THEN CursorFailed(conn)
     ELSE CursorDone("no", [conn EXCEPT !.cursors = @ \ Named(name)])

UnsupportedCursor ==
  cmd.stage = "plugins" /\ cmd.kind = "query" /\ CursorDone("no", conn)

(***************************************************************************)
(* The plugin phase.                                                        *)
(***************************************************************************)
(* Mutant of is_allow: the window that ends hands out a permit all the same.*)
is_allow_renewed ==
  \/ /\ rule.started
     /\ rule' = [permits |-> MaxConcurrency, started |-> FALSE]
     /\ lost' = 0 /\ cmd' = [cmd EXCEPT !.stage = "translate", !.passed = @ \cup {"plugins"}, !.permit = TRUE]
  \/ /\ rule.permits > 0
     /\ rule' = [permits |-> rule.permits - 1, started |-> TRUE]
     /\ cmd' = [cmd EXCEPT !.stage = "translate", !.passed = @ \cup {"plugins"}, !.permit = TRUE]
     /\ UNCHANGED lost
(* A matching rule: the first match opens its window.  A match after the    *)
(* window has run out makes a new semaphore and takes nothing from it.      *)
is_allow ==
  \/ /\ rule.started
     /\ rule' = [permits |-> MaxConcurrency, started |-> FALSE]
     /\ lost' = 0 /\ cmd' = [cmd EXCEPT !.stage = "translate", !.passed = @ \cup {"plugins"}]
  \/ /\ rule.permits > 0
     /\ rule' = [permits |-> rule.permits - 1, started |-> TRUE]
     /\ cmd' = [cmd EXCEPT !.stage = "translate", !.passed = @ \cup {"plugins"}, !.permit = TRUE]
     /\ UNCHANGED lost

Replied(how) == cmd' = Ended(how, 1) /\ UNCHANGED <<plan, left, clean, frames, sessions>>

(* evaluate: the circuit breaker first.  A rejection is answered and        *)
(* counted, not audited.                                                    *)
PluginReject ==
  /\ cmd.stage = "plugins" /\ plan.plugins
  /\ \/ Replied("plugin_reject") /\ finish_command_metrics /\ UNCHANGED <<conn, rule, lost>>
     \/ FrameFails /\ UNCHANGED <<gauge, rule>>          \* the answer cannot be written

(* No permit is left in the window of the rule, which opens at the latest   *)
(* now.                                                                     *)
ConcurrencyReject ==
  /\ cmd.stage = "plugins" /\ plan.plugins /\ rule.permits = 0
  /\ rule' = [rule EXCEPT !.started = TRUE]
  /\ \/ Replied("no_permit") /\ finish_command_metrics /\ UNCHANGED <<conn, lost>>
     \/ FrameFails /\ UNCHANGED gauge

(* Mutant of Evaluate: a command no rule matches skips the translation.     *)
Evaluate_skip ==
  /\ cmd.stage = "plugins"
  /\ cmd' = [cmd EXCEPT !.stage = "authorize", !.passed = @ \cup {"plugins"}]
  /\ UNCHANGED <<plan, conn, rule, left, gauge, lost, clean, frames, sessions>>
Evaluate ==
  /\ cmd.stage = "plugins"
  /\ \/ plan.plugins /\ is_allow
     \/ /\ cmd' = [cmd EXCEPT !.stage = "translate", !.passed = @ \cup {"plugins"}]  \* nothing matches
        /\ UNCHANGED <<rule, lost>>
  /\ UNCHANGED <<plan, conn, left, gauge, clean, frames, sessions>>

(***************************************************************************)
(* Translation and the policy decision.                                     *)
(***************************************************************************)
(* prepare_cross_protocol_command refuses: the unit fails and the error is  *)
(* answered; the permit stays taken.                                        *)
TranslationReject ==
  /\ cmd.stage = "translate" /\ plan.cross
  /\ \/ /\ Replied("translation_reject") /\ finish_command_metrics
        /\ conn' = UnitFails /\ Lose /\ UNCHANGED rule
     \/ FrameFails /\ UNCHANGED <<gauge, rule>>

Translate ==
  /\ cmd.stage = "translate"
  /\ cmd' = [cmd EXCEPT !.stage = "authorize", !.passed = @ \cup {"translate"}]
  /\ UNCHANGED <<plan, conn, rule, left, gauge, lost, clean, frames, sessions>>

(* Mutant of Deny: the refusal is not answered.                             *)
Deny_mute ==
  /\ cmd.stage = "authorize" /\ plan.secured
  /\ cmd' = [Ended("denied", 0) EXCEPT !.audits = 1]
  /\ finish_command_metrics /\ release_concurrency
  /\ UNCHANGED <<plan, conn, left, lost, clean, frames, sessions>>
(* Audited, answered, counted, the permit returned.                         *)
Deny ==
  /\ cmd.stage = "authorize" /\ plan.secured
  /\ \/ /\ cmd' = [Ended("denied", 1) EXCEPT !.audits = 1]
        /\ finish_command_metrics /\ release_concurrency
        /\ UNCHANGED <<plan, conn, left, lost, clean, frames, sessions>>
     \/ FrameFails /\ UNCHANGED <<gauge, rule>>

(* The same, with the code that asks for an approval ticket.                *)
RequireTicket ==
  /\ cmd.stage = "authorize" /\ plan.secured
  /\ \/ /\ cmd' = [Ended("ticket", 1) EXCEPT !.audits = 1]
        /\ finish_command_metrics /\ release_concurrency
        /\ UNCHANGED <<plan, conn, left, lost, clean, frames, sessions>>
     \/ FrameFails /\ UNCHANGED <<gauge, rule>>

(* Allow and AllowRewrite, with or without obligations on the result.       *)
Authorize(obl) ==
  /\ cmd.stage = "authorize" /\ (obl => plan.secured)
  /\ cmd' = [cmd EXCEPT !.stage = "execute", !.passed = @ \cup {"authorize"}, !.obl = obl]
  /\ UNCHANGED <<plan, conn, rule, left, gauge, lost, clean, frames, sessions>>

(***************************************************************************)
(* Execution.                                                               *)
(***************************************************************************)
RowKinds == {"query", "params", "execute"}

want_passthrough == plan.passthrough /\ ~plan.cross /\ ~cmd.obl /\ cmd.kind \in RowKinds \cup {"sync"}

(* A materialized listener still streams whatever may return rows.          *)
exec_mode ==
  IF want_passthrough THEN "passthrough"
  ELSE IF plan.cross \/ cmd.obl \/ cmd.kind \in RowKinds THEN "streaming" ELSE plan.stream

(* What the backend can answer: only passthrough relays packets, and only   *)
(* what may return rows is streamed.                                        *)
Outcomes ==
  {"complete", "error"} \cup (IF cmd.kind \in RowKinds /\ exec_mode # "materialized" THEN {"stream"} ELSE {})
                        \cup (IF exec_mode = "passthrough" THEN {"relay"} ELSE {})

(* What a relayed command may leave the transaction in.                     *)
ReadyStatus == IF cmd.reads THEN {conn.txn} ELSE {"idle", "active", "failed"}
TxnAfter(outcome) ==
  IF outcome = "complete" /\ cmd.kind = "begin" THEN "active"
  ELSE IF outcome = "complete" /\ cmd.kind = "end" THEN "idle" ELSE conn.txn

Execute(outcome) ==
  /\ cmd.stage = "execute" /\ outcome \in Outcomes
  /\ cmd' = [cmd EXCEPT !.stage = "answer", !.executed = outcome]
  /\ conn' = [conn EXCEPT !.txn = TxnAfter(outcome)]
  /\ UNCHANGED <<plan, rule, left, gauge, lost, clean, frames, sessions>>

(* Relayed packets or a stream of rows reach the client before the event    *)
(* and the permit's return; a failure on the way loses all three.           *)
Sent ==
  /\ cmd' = [Ended("executed", 1) EXCEPT !.audits = 1]
  /\ release_concurrency /\ finish_command_metrics
  /\ UNCHANGED <<plan, left, lost, clean, frames, sessions>>

(* An error among the packets fails the unit; the status of ReadyForQuery   *)
(* is the new state of the transaction.                                     *)
AnswerRelay ==
  /\ cmd.stage = "answer" /\ cmd.executed = "relay"
  /\ \/ Sent /\ conn' = UnitFails
     \/ Sent /\ \E txn \in ReadyStatus : conn' = [conn EXCEPT !.txn = txn]
     \/ FrameFails /\ UNCHANGED <<gauge, rule>>

AnswerStream ==
  /\ cmd.stage = "answer" /\ cmd.executed = "stream"
  /\ \/ Sent /\ UNCHANGED conn
     \/ FrameFails /\ UNCHANGED <<gauge, rule>>

Errored == IF cmd.executed # "error" \/ plan.front = "my" THEN conn
           ELSE [conn EXCEPT !.err = conn.ext, !.txn = Failed(conn.txn)]

drop_non_hold_named_cursors(c) == [c EXCEPT !.cursors = {x \in @ : x.hold}]
drop_all_named_cursors(c) == [c EXCEPT !.cursors = {}]
CursorsAfter(c) ==
  CASE cmd.kind = "quit" -> drop_all_named_cursors(c)
    [] cmd.kind = "end" -> drop_non_hold_named_cursors(c)
    [] OTHER -> c

(* Any other answer, a backend error included, is audited and its permit    *)
(* returned before it is written; the cursors go after it is.               *)
AnswerComplete ==
  /\ cmd.stage = "answer" /\ cmd.executed \in {"complete", "error"}
  /\ \/ /\ cmd' = [Ended("executed", 1) EXCEPT !.audits = 1]
        /\ release_concurrency /\ finish_command_metrics
        /\ conn' = CursorsAfter(Errored)
        /\ UNCHANGED <<plan, left, lost, clean, frames, sessions>>
     \/ /\ release_concurrency /\ clean' = FALSE /\ left' = 0
        /\ IF GoesOn THEN cmd' = Idle /\ conn' = [Errored EXCEPT !.err = @ \/ conn.ext, !.txn = IF conn.ext THEN Failed(@) ELSE @]
           ELSE cmd' = [stage |-> "closed"] /\ UNCHANGED conn
        /\ UNCHANGED <<plan, gauge, lost, frames, sessions>>

(* The client leaves or said goodbye; another session begins.               *)
SessionEnds ==
  /\ cmd.stage \in {"read", "closed"} /\ sessions < MaxSessions
  /\ sessions' = sessions + 1
  /\ build_connection
  /\ cmd' = Idle /\ left' = 0
  /\ UNCHANGED <<plan, gauge, clean, frames>>

EngineNext ==
  \/ ReadFrame \/ DecodeFails \/ NextCommand \/ FrameDone \/ SessionEnds
  \/ \E kind \in Kinds, reads \in BOOLEAN : (reads => kind \in {"query", "params"}) /\ Route(kind, reads)
  \/ \E kind \in {"query", "params"} : reject_unsupported_capability(kind)
  \/ \E n \in Cursors : Fetch(n) \/ CloseCursor(n) \/ \E hold \in BOOLEAN : Declare(n, hold)
  \/ UnsupportedCursor \/ PluginReject \/ ConcurrencyReject \/ Evaluate
  \/ TranslationReject \/ Translate \/ Deny \/ RequireTicket \/ (\E obl \in BOOLEAN : Authorize(obl))
  \/ (\E o \in {"relay", "stream", "complete", "error"} : Execute(o))
  \/ AnswerRelay \/ AnswerStream \/ AnswerComplete

EngineSpec == EngineInit /\ [][EngineNext]_engineVars

(***************************************************************************)
(* What the engine promises.                                                *)
(***************************************************************************)
InFlight == cmd.stage \in {"plugins", "translate", "authorize", "execute", "answer"}
Over == cmd.stage = "done"
Holding == InFlight /\ cmd.permit

(* Every variable has its type; the session counts its permits from 0 to    *)
(* the number the rule was built with.                                      *)
EngineTypeOK ==
  /\ conn.txn \in {"idle", "active", "failed"} /\ conn.ep \in Endpoints
  /\ conn.ext \in BOOLEAN /\ conn.err \in BOOLEAN
  /\ rule.permits \in 0..MaxConcurrency /\ gauge \in Int /\ left \in 0..MaxBatch

(* A command reaches the backend through the plugins, the translation and   *)
(* the policy decision, in this order; only cursor statements are taken     *)
(* before them (handle_frame_inner).  A command refused by one of them      *)
(* never does.                                                              *)
GatesFirst ==
  cmd.stage \in {"answer", "done"} /\ cmd.executed # "no" =>
     \/ cmd.end = "cursor"
     \/ cmd.passed = {"plugins", "translate", "authorize"} /\ cmd.end \in {"open", "executed"}

(* Within one window of a concurrency rule every permit is free, held by    *)
(* the command in hand, or lost by a translation error or a failed frame:   *)
(* no path gives back one it did not take, and none gives one back twice.   *)
PermitsAccounted == rule.permits + (IF Holding THEN 1 ELSE 0) + lost = MaxConcurrency

(* sql_under_processing counts the commands in progress: with no cursor     *)
(* statement and no failed frame behind it the gauge is back at 0 between   *)
(* commands, on every path out of the loop over the commands.               *)
GaugeTells == clean => gauge = (IF InFlight THEN 1 ELSE 0)

(* Each command that the policy refused or the backend answered leaves one  *)
(* audit event, and so does an unsupported one; the plugin and translation  *)
(* rejections and the cursor statements leave none (try_audit).             *)
OneEvent == Over =>
  cmd.audits = (IF cmd.end \in {"executed", "denied", "ticket", "unsupported"} THEN 1 ELSE 0)

(* A command that ends is answered exactly once, and in passing no gate is  *)
(* both refused and executed.                                               *)
OneReply == Over => cmd.replies = 1 /\ (cmd.end \in {"executed", "cursor"} \/ cmd.executed = "no")

(* "Transactions stick to the already chosen endpoint": while a transaction *)
(* stays active its session keeps the endpoint it has (plan_command).       *)
TransactionSticks ==
  [][conn.txn = "active" /\ conn'.txn = "active" /\ sessions' = sessions => conn'.ep = conn.ep]_engineVars

(* Read/write splitting sends whatever is not a read-only query outside a   *)
(* transaction to an endpoint of the readwrite role, and with no read       *)
(* endpoint the reads too (command_target_role, build_read_write).          *)
WritesAtPrimary ==
  plan.kind = "split" /\ InFlight /\ plan.endpoints[conn.ep] = "read" =>
     cmd.kind \in {"query", "params"} /\ cmd.reads /\ conn.txn # "active"

(* Packets are relayed unread only for a command without obligations on its *)
(* result and without translation, so that no mask or cap is bypassed       *)
(* (want_passthrough).                                                      *)
RelayedUnbound == InFlight /\ cmd.executed = "relay" => ~cmd.obl /\ ~plan.cross

(* COMMIT and ROLLBACK leave exactly the cursors declared WITH HOLD, QUIT   *)
(* none; no other executed command drops one.                               *)
CursorsSurvive ==
  [][InFlight /\ cmd'.stage = "done" /\ cmd'.end = "executed" =>
       conn'.cursors = CASE cmd.kind = "quit" -> {}
                         [] cmd.kind = "end" -> {c \in conn.cursors : c.hold}
                         [] OTHER -> conn.cursors]_engineVars

(* In an extended unit a translation error, an unsupported capability or an *)
(* error of the backend makes the session skip to the Sync, and no command  *)
(* is left in an active transaction (pg_extended_error).                    *)
UnitStops ==
  plan.front = "pg" /\ conn.ext /\ Over /\
  (cmd.end \in {"translation_reject", "unsupported"} \/ cmd.executed = "error")
    => conn.err /\ conn.txn # "active"

(* Nothing reaches the backend but through the gates, and nothing of the    *)
(* backend reaches the client past the obligations the gates put on it.     *)
GatesHold == GatesFirst /\ RelayedUnbound

(* Every way out of the pipeline settles the permit and the gauge.          *)
CountersSettle == PermitsAccounted /\ GaugeTells

(* Every command that ends is answered once and audited as its end says.    *)
OneOutcome == OneReply /\ OneEvent

(* The session's transaction, endpoint, unit and cursors move only as the   *)
(* commands move them, and keep their types.                                *)
SessionKept ==
  TransactionSticks /\ CursorsSurvive /\ []EngineTypeOK /\ []WritesAtPrimary /\ []UnitStops

=============================================================================
