----------------------------- MODULE BackendTxn -----------------------------
(***************************************************************************)
(* Client transactions on leased backend connections.                      *)
(*                                                                         *)
(* A client session owns one backend connector (backend/mysql.rs or        *)
(* backend/postgresql.rs) with its own connection pool.  BEGIN is only     *)
(* noted; the first statement of the transaction leases a connection,      *)
(* sends BEGIN on it and puts it into the slot txn_lease, from which the   *)
(* later statements and COMMIT or ROLLBACK take it.  A result set is       *)
(* streamed: a spawned producer task owns the connection, sends row        *)
(* windows through a channel of capacity two and puts the connection back  *)
(* into the slot when the backend has no more rows.  The engine            *)
(* (core_engine.rs) writes the windows to the client, or keeps the         *)
(* receiver: a suspended portal, or a cursor opened by DECLARE.            *)
(*                                                                         *)
(* The engine runs one command at a time; the producers run concurrently   *)
(* with it.  Rows are abstracted to windows, statements to writes (each    *)
(* with an identity, so that its fate can be told) and reads.  The wire    *)
(* passthrough of PostgreSQL is not modelled here.                         *)
(***************************************************************************)
EXTENDS Naturals

CONSTANTS Clients,             \* the kinds of sessions, see Kind below
          MaxConns,            \* bound on the session's connections
          MaxStreams,          \* bound on the result streams alive at once
          Capacity,            \* of a channel, in windows: 2 in the code
          Sizes,               \* the sizes of results, in windows
          MaxTxns,             \* bound on the client's transactions
          MaxWrites            \* bound on the client's writes

\* A session: its protocols, whether its client suspends portals or uses
\* cursors, whether it prepares or describes statements, and what may go
\* wrong at its backend.
Protocols == {"MySql", "PostgreSql"}
Kind == [frontend : Protocols, backend : Protocols, holds : BOOLEAN, describes : BOOLEAN,
         faults : SUBSET {"break", "reject", "reject_begin"}]

ASSUME ClientsAssumption == Clients \subseteq Kind
ASSUME BoundsAssumption == 
  /\ Sizes \subseteq Nat /\ Capacity \in Nat \ {0}
  /\ {MaxConns, MaxStreams, MaxTxns, MaxWrites} \subseteq Nat

VARIABLES client,   \* the kind of this session
          txn,      \* session.transaction_state
          cur,      \* the client's current transaction, 0 when none
          lease,    \* the slot txn_lease
          idle,     \* connections in the pool's queue
          conn,     \* what the backend knows of each connection
          stream,   \* the producers and their channels
          engine,   \* where the engine is in the current command
          asked,    \* the transaction an acknowledged write was made in
          durable,  \* the writes the backend has committed
          outcome,  \* how the client was told each transaction ended
          dirty,    \* transactions in which the client was sent an error
          unsure,   \* transactions whose COMMIT was answered by an error
          short     \* why results reported complete have rows missing

history == <<asked, durable, outcome, dirty, unsure, short>>
vars == <<client, txn, cur, lease, idle, conn, stream, engine, history>>

Frontend == client.frontend
Backend == client.backend
Holds == client.holds
Describes == client.describes
Faults == client.faults

Conns == 1 .. MaxConns
Streams == 1 .. MaxStreams
NoConn == 0
NoStream == 0
Txns == 1 .. MaxTxns
Writes == 1 .. MaxWrites

\* open: is a backend transaction open; work: its writes; up: does the
\* connection work; aborted: did PostgreSQL abort the transaction
Fresh == [open |-> FALSE, work |-> {}, up |-> TRUE, aborted |-> FALSE]
Down == [Fresh EXCEPT !.up = FALSE]

\* tx: is the producer alive; rx: who holds the receiver; left: windows the
\* backend has still to send; chan, pre: windows in the channel and polled
\* ahead; due: windows the client has still to get; cut: did the connection
\* break before the backend sent them all
Dead == [tx |-> FALSE, rx |-> "gone", c |-> NoConn, inTxn |-> FALSE,
         left |-> 0, chan |-> 0, pre |-> 0, due |-> 0, cut |-> FALSE]

Ready == [pc |-> "ready", kind |-> "none", c |-> NoConn, inTxn |-> FALSE,
          need |-> FALSE, s |-> NoStream]
Closed == [Ready EXCEPT !.pc = "closed"]

Init ==
  /\ client \in Clients
  /\ txn = "Idle" /\ cur = 0
  /\ lease = NoConn /\ idle = {}
  /\ conn = [c \in Conns |-> Fresh]
  /\ stream = [s \in Streams |-> Dead]
  /\ engine = Ready
  /\ asked = [w \in {} |-> 0]
  /\ durable = {} /\ dirty = {} /\ unsure = {} /\ short = {}
  /\ outcome = [t \in Txns |-> "none"]

-----------------------------------------------------------------------------
(* Receivers, the pool and the slot                                        *)

\* the receiver of r is dropped; a stream without both ends is gone
Dropped(r) == IF r.tx THEN [r EXCEPT !.rx = "gone", !.chan = 0, !.pre = 0, !.due = 0, !.cut = FALSE] ELSE Dead

\* every receiver held by one of the given holders is dropped
Without(holders) ==
  [s \in Streams |-> IF stream[s].rx \in holders THEN Dropped(stream[s]) ELSE stream[s]]

Used == idle \cup {lease} \cup {engine.c} \cup {stream[s].c : s \in Streams}

\* fresh names are taken in order
First(S) == {x \in S : \A y \in S : x <= y}

\* Pool::get_conn: an idle connection that answers a ping, or a new one
Acquire(c) ==
  /\ c \in IF idle # {} THEN idle ELSE First(Conns \ Used)
  /\ idle' = idle \ {c}
  /\ conn' = [conn EXCEPT ![c] = IF @.up /\ ~@.aborted THEN @ ELSE Fresh]

\* store_lease: a connection already in the slot is dropped, so it is pooled
Store(c) ==
  /\ lease' = c
  /\ idle' = idle \cup ({lease} \ {NoConn})

\* the connection goes back where the statement took it from
PutBack(c) ==
  IF engine.inTxn THEN Store(c) ELSE idle' = idle \cup {c} /\ UNCHANGED lease

\* an error response of a PostgreSQL session fails the transaction
Errored ==
  /\ dirty' = dirty \cup ({cur} \ {0})
  /\ txn' = IF Frontend = "PostgreSql" /\ txn = "Active" THEN "Failed" ELSE txn

\* session end: the pool, the lease and the receivers go with the connector
CloseAll ==
  /\ engine' = Closed
  /\ lease' = NoConn /\ idle' = {}
  /\ stream' = [s \in Streams |-> Dropped(stream[s])]
  /\ conn' = [c \in Conns |-> IF \E s \in Streams : stream[s].tx /\ stream[s].c = c
                              THEN conn[c] ELSE Fresh]
  /\ UNCHANGED <<txn, cur>>

-----------------------------------------------------------------------------
(* Statements                                                              *)

\* GatewayCommand::Begin: nothing is sent to the backend
Begin ==
  /\ engine.pc = "ready"
  /\ txn' = "Active"
  /\ stream' = Without({"portal"})
  /\ IF cur # 0 THEN UNCHANGED <<cur, outcome>>
     ELSE \E t \in Txns :
            /\ outcome[t] = "none" /\ \A u \in Txns : outcome[u] = "none" => t <= u
            /\ cur' = t /\ outcome' = [outcome EXCEPT ![t] = "open"]
  /\ UNCHANGED <<lease, idle, conn, engine, asked, durable, dirty, unsure, short>>

\* bound: no more streams are held than there are slots for them
StreamFree == \E s \in Streams : stream[s].rx \in {"gone", "portal"}

\* execute_outcome: in_txn, and whether the slot is empty, are read first
Statement(kind) ==
  /\ engine.pc = "ready"
  /\ kind = "write" => DOMAIN asked # Writes
  /\ kind = "read" => StreamFree
  /\ kind = "describe" => Describes
  /\ engine' = [Ready EXCEPT !.pc = "take", !.kind = kind,
                             !.inTxn = txn = "Active" \/ lease # NoConn,
                             !.need = lease = NoConn /\ kind # "describe"]
  /\ stream' = Without({"portal"})
  /\ UNCHANGED <<txn, cur, lease, idle, conn, history>>

\* DECLARE runs the query of a new cursor; a portal stays suspended
Declare ==
  /\ engine.pc = "ready" /\ Holds
  /\ \A s \in Streams : stream[s].rx \notin {"cursor", "hold"}
  /\ \E s \in Streams : stream[s].rx = "gone"
  /\ engine' = [Ready EXCEPT !.pc = "take", !.kind = "declare",
                             !.inTxn = txn = "Active" \/ lease # NoConn,
                             !.need = lease = NoConn]
  /\ UNCHANGED <<txn, cur, lease, idle, conn, stream, history>>

\* Mutant of take_or_acquire_lease: the slot is read, not taken.
take_or_acquire_lease_peek ==
  /\ engine.pc = "take"
  /\ \/ /\ engine.inTxn /\ lease # NoConn
        /\ engine' = [engine EXCEPT !.pc = "run", !.c = lease]
        /\ UNCHANGED <<idle, conn>>
     \/ /\ ~(engine.inTxn /\ lease # NoConn)
        /\ \E c \in Conns :
             /\ Acquire(c)
             /\ engine' = [engine EXCEPT !.pc = "run", !.c = c]
  /\ UNCHANGED <<txn, cur, lease, stream, history>>

\* take_or_acquire_lease
take_or_acquire_lease ==
  /\ engine.pc = "take"
  /\ \/ /\ engine.inTxn /\ lease # NoConn
        /\ engine' = [engine EXCEPT !.pc = "run", !.c = lease]
        /\ lease' = NoConn
        /\ UNCHANGED <<idle, conn>>
     \/ /\ ~(engine.inTxn /\ lease # NoConn)
        /\ \E c \in Conns :
             /\ Acquire(c)
             /\ engine' = [engine EXCEPT !.pc = "run", !.c = c]
        /\ UNCHANGED lease
  /\ UNCHANGED <<txn, cur, stream, history>>

\* no connection can be built: the statement fails before it leased one
AcquireFails ==
  /\ engine.pc = "take" /\ "break" \in Faults
  /\ ~(engine.inTxn /\ lease # NoConn)
  /\ IF engine.kind = "declare" THEN CloseAll /\ UNCHANGED dirty
     ELSE /\ Errored /\ engine' = Ready
          /\ UNCHANGED <<cur, lease, idle, conn, stream>>
  /\ UNCHANGED <<asked, durable, outcome, unsure, short>>

NeedsBegin == engine.inTxn /\ engine.need

\* BEGIN on the leased connection; MySQL commits a transaction already open
Begun(k) ==
  IF ~NeedsBegin THEN k
  ELSE IF Backend = "PostgreSql" /\ k.open THEN k
  ELSE [Fresh EXCEPT !.open = TRUE]
ImplicitlyCommitted(k) ==
  IF NeedsBegin /\ Backend = "MySql" THEN k.work ELSE {}

\* every accepted write is a new one
NextWrite == CHOOSE w \in Writes : w \notin DOMAIN asked

\* the statement is a write and the backend accepts it
RunWrite ==
  /\ engine.pc = "run" /\ engine.kind = "write"
  /\ LET c == engine.c
         k == Begun(conn[c])
         w == NextWrite
     IN /\ k.up /\ ~k.aborted
        /\ conn' = [conn EXCEPT ![c] = IF k.open THEN [k EXCEPT !.work = @ \cup {w}] ELSE k]
        /\ durable' = durable \cup ImplicitlyCommitted(conn[c])
                              \cup (IF k.open THEN {} ELSE {w})
        /\ asked' = [v \in DOMAIN asked \cup {w} |->
                       IF v = w THEN cur ELSE asked[v]]
        /\ PutBack(c)
  /\ engine' = Ready
  /\ UNCHANGED <<txn, cur, stream, outcome, dirty, unsure, short>>

\* a query: the spawned producer owns the connection from here on
RunStream ==
  /\ engine.pc = "run" /\ engine.kind \in {"read", "declare"}
  /\ conn[engine.c].up /\ ~conn[engine.c].aborted
  /\ \E s \in First({x \in Streams : stream[x] = Dead}), n \in Sizes,
        holder \in IF engine.kind = "read" THEN {"writer"} ELSE {"cursor", "hold"} :
       /\ stream' = [stream EXCEPT ![s] =
                       [tx |-> TRUE, rx |-> holder, c |-> engine.c,
                        inTxn |-> engine.inTxn, left |-> n, chan |-> 0,
                        pre |-> 0, due |-> n, cut |-> FALSE]]
       /\ engine' = IF engine.kind = "read" THEN [Ready EXCEPT !.pc = "relay", !.s = s]
                                            ELSE Ready
  /\ conn' = [conn EXCEPT ![engine.c] = Begun(@)]
  /\ durable' = durable \cup ImplicitlyCommitted(conn[engine.c])
  /\ UNCHANGED <<txn, cur, lease, idle, asked, outcome, dirty, unsure, short>>

\* describe_sql_columns: the connection is leased, BEGIN is not sent
RunDescribe ==
  /\ engine.pc = "run" /\ engine.kind = "describe"
  /\ conn[engine.c].up /\ ~conn[engine.c].aborted
  /\ PutBack(engine.c)
  /\ engine' = Ready
  /\ UNCHANGED <<txn, cur, conn, stream, history>>

\* the backend answers the statement with an error
RunReject ==
  /\ engine.pc = "run"
  /\ conn[engine.c].up /\ ("reject" \in Faults \/ conn[engine.c].aborted)
  /\ LET c == engine.c
         k == Begun(conn[c])
     IN IF engine.kind = "declare" /\ Backend = "PostgreSql"
        THEN CloseAll /\ UNCHANGED dirty
        ELSE /\ conn' = [conn EXCEPT ![c] =
                           IF Backend = "PostgreSql" /\ k.open
                           THEN [k EXCEPT !.aborted = TRUE, !.work = {}] ELSE k]
             /\ PutBack(c)
             /\ engine' = Ready
             /\ IF engine.kind = "declare" THEN UNCHANGED <<txn, dirty>> ELSE Errored
             /\ UNCHANGED <<cur, stream>>
  /\ durable' = durable \cup ImplicitlyCommitted(conn[engine.c])
  /\ UNCHANGED <<asked, outcome, unsure, short>>

\* the backend refuses BEGIN: the connection is stored as the lease
RunRejectBegin ==
  /\ engine.pc = "run" /\ "reject_begin" \in Faults
  /\ NeedsBegin /\ conn[engine.c].up /\ ~conn[engine.c].open
  /\ PutBack(engine.c)
  /\ engine' = Ready
  /\ IF engine.kind = "declare" THEN UNCHANGED <<txn, dirty>> ELSE Errored
  /\ UNCHANGED <<cur, conn, stream, asked, durable, outcome, unsure, short>>

\* the connection breaks: the text paths let it go to the pool, the
\* parameter paths keep it as the lease
RunBreak ==
  /\ engine.pc = "run" /\ ("break" \in Faults \/ ~conn[engine.c].up)
  /\ IF engine.kind = "declare" THEN CloseAll /\ UNCHANGED dirty
     ELSE /\ conn' = [conn EXCEPT ![engine.c] = Down]
          /\ \/ idle' = idle \cup {engine.c} /\ UNCHANGED lease
             \/ PutBack(engine.c)
          /\ engine' = Ready
          /\ Errored
          /\ UNCHANGED <<cur, stream>>
  /\ UNCHANGED <<asked, durable, outcome, unsure, short>>

-----------------------------------------------------------------------------
(* Producers                                                               *)

\* a window goes into the channel
Produce(s) ==
  /\ stream[s].tx /\ stream[s].left > 0
  /\ stream[s].rx # "gone" /\ stream[s].chan < Capacity
  /\ stream' = [stream EXCEPT ![s].left = @ - 1, ![s].chan = @ + 1]
  /\ UNCHANGED <<txn, cur, lease, idle, conn, engine, history>>

\* Mutant of Drain: the producer stays at the window it could not send.
Drain_stuck(s) ==
  /\ stream[s].tx /\ stream[s].left > 0 /\ stream[s].rx = "gone"
  /\ UNCHANGED vars

\* the receiver is gone: the rows the backend still sends are discarded
Drain(s) ==
  /\ stream[s].tx /\ stream[s].left > 0 /\ stream[s].rx = "gone"
  /\ stream' = [stream EXCEPT ![s].left = 0]
  /\ UNCHANGED <<txn, cur, lease, idle, conn, engine, history>>

\* the connection breaks under the producer, which only logs the error
BreakStream(s) ==
  /\ stream[s].tx /\ "break" \in Faults /\ conn[stream[s].c].up
  /\ conn' = [conn EXCEPT ![stream[s].c] = Down]
  /\ stream' = [stream EXCEPT ![s].left = 0, ![s].cut = (stream[s].left > 0)]
  /\ UNCHANGED <<txn, cur, lease, idle, engine, history>>

\* where the producer leaves the connection
Returned(s) ==
  LET c == stream[s].c IN
  IF engine.pc = "closed"
  THEN conn' = [conn EXCEPT ![c] = Fresh] /\ UNCHANGED <<lease, idle>>
  ELSE /\ UNCHANGED conn
       /\ IF stream[s].inTxn THEN Store(c) ELSE idle' = idle \cup {c} /\ UNCHANGED lease

\* Mutant of Finish: the sender lives until the receiver is dropped.
Finish_waits(s) ==
  /\ stream[s].tx /\ stream[s].left = 0 /\ stream[s].rx = "gone"
  /\ Returned(s)
  /\ stream' = [stream EXCEPT ![s] = Dead]
  /\ UNCHANGED <<txn, cur, engine, history>>

\* no rows are left: the slot is filled, then the sender is dropped
Finish(s) ==
  /\ stream[s].tx /\ stream[s].left = 0
  /\ Returned(s)
  /\ stream' = [stream EXCEPT ![s] =
                  IF @.rx = "gone" THEN Dead ELSE [@ EXCEPT !.tx = FALSE, !.c = NoConn]]
  /\ UNCHANGED <<txn, cur, engine, history>>

-----------------------------------------------------------------------------
(* The receiving side                                                      *)

\* poll_window: what was polled ahead comes first
Polled(r) ==
  IF r.pre > 0 THEN [r EXCEPT !.pre = 0, !.due = @ - 1]
               ELSE [r EXCEPT !.chan = @ - 1, !.due = @ - 1]
HasWindow(r) == r.pre + r.chan > 0
Ended(r) == ~HasWindow(r) /\ ~r.tx

\* why rows of a result that has ended are missing
Missing(r) == {IF r.cut THEN "cut" ELSE "lost" : w \in 1 .. r.due}

RelayWindow ==
  /\ engine.pc = "relay" /\ HasWindow(stream[engine.s])
  /\ stream' = [stream EXCEPT ![engine.s] = Polled(@)]
  /\ UNCHANGED <<txn, cur, lease, idle, conn, engine, history>>

RelayEnd ==
  /\ engine.pc = "relay" /\ Ended(stream[engine.s])
  /\ short' = short \cup Missing(stream[engine.s])
  /\ stream' = [stream EXCEPT ![engine.s] = Dead]
  /\ engine' = Ready
  /\ UNCHANGED <<txn, cur, lease, idle, conn, asked, durable, outcome, dirty, unsure>>

\* Mutant of PolledAhead: the window polled ahead is not kept.
PolledAhead_lost(r) == IF r.pre > 0 THEN r ELSE [r EXCEPT !.chan = @ - 1]

\* the page is full and a window polled ahead says that there is more
PolledAhead(r) == IF r.pre > 0 THEN r ELSE [r EXCEPT !.chan = @ - 1, !.pre = 1]

HoldPortal ==
  /\ engine.pc = "relay" /\ Holds
  /\ HasWindow(stream[engine.s])
  /\ stream' = [stream EXCEPT ![engine.s] = [PolledAhead(@) EXCEPT !.rx = "portal"]]
  /\ engine' = Ready
  /\ UNCHANGED <<txn, cur, lease, idle, conn, history>>

ResumePortal ==
  /\ engine.pc = "ready"
  /\ \E s \in Streams :
       /\ stream[s].rx = "portal"
       /\ stream' = [stream EXCEPT ![s].rx = "writer"]
       /\ engine' = [Ready EXCEPT !.pc = "relay", !.s = s]
  /\ UNCHANGED <<txn, cur, lease, idle, conn, history>>

\* FETCH: PostgreSQL first checks the leased connection
Fetch ==
  /\ engine.pc = "ready"
  /\ \E s \in Streams :
       /\ stream[s].rx \in {"cursor", "hold"}
       /\ IF Backend = "PostgreSql" /\ lease # NoConn
          THEN /\ engine' = [Ready EXCEPT !.pc = "health", !.c = lease, !.s = s]
               /\ lease' = NoConn
          ELSE engine' = [Ready EXCEPT !.pc = "fetch", !.s = s] /\ UNCHANGED lease
  /\ UNCHANGED <<txn, cur, idle, conn, stream, history>>

check_session_health ==
  /\ engine.pc = "health"
  /\ \/ /\ conn[engine.c].up /\ ~conn[engine.c].aborted
        /\ Store(engine.c)
        /\ engine' = [Ready EXCEPT !.pc = "fetch", !.s = engine.s]
        /\ UNCHANGED <<txn, conn, stream, dirty>>
     \/ /\ "break" \in Faults \/ ~conn[engine.c].up \/ conn[engine.c].aborted
        /\ conn' = [conn EXCEPT ![engine.c] = IF @.aborted THEN @ ELSE Down]
        /\ idle' = idle \cup {engine.c}
        /\ txn' = "Failed"
        /\ dirty' = dirty \cup ({cur} \ {0})
        /\ stream' = [stream EXCEPT ![engine.s] = Dropped(@)]
        /\ engine' = Ready
        /\ UNCHANGED lease
  /\ UNCHANGED <<cur, asked, durable, outcome, unsure, short>>

FetchWindow ==
  /\ engine.pc = "fetch" /\ HasWindow(stream[engine.s])
  /\ stream' = [stream EXCEPT ![engine.s] = Polled(@)]
  /\ engine' \in {engine, Ready}
  /\ UNCHANGED <<txn, cur, lease, idle, conn, history>>

FetchEnd ==
  /\ engine.pc = "fetch" /\ Ended(stream[engine.s])
  /\ engine' = Ready
  /\ short' = short \cup Missing(stream[engine.s])
  /\ UNCHANGED <<txn, cur, lease, idle, conn, stream, asked, durable, outcome, dirty, unsure>>

CloseCursor ==
  /\ engine.pc = "ready"
  /\ \E s \in Streams : stream[s].rx \in {"cursor", "hold"}
  /\ stream' = Without({"cursor", "hold"})
  /\ UNCHANGED <<txn, cur, lease, idle, conn, engine, history>>

\* DECLARE of an existing cursor, FETCH or CLOSE of an unknown one
CursorError ==
  /\ engine.pc = "ready" /\ Holds
  /\ txn' = IF txn = "Active" THEN "Failed" ELSE txn
  /\ dirty' = dirty \cup ({cur} \ {0})
  /\ UNCHANGED <<cur, lease, idle, conn, stream, engine, asked, durable, outcome, unsure, short>>

-----------------------------------------------------------------------------
(* COMMIT, ROLLBACK and the end of the session                             *)

\* finish_transaction takes the lease first
TakeToFinish(kind) ==
  /\ engine.pc = "ready"
  /\ engine' = [Ready EXCEPT !.pc = "finish", !.kind = kind, !.c = lease]
  /\ lease' = NoConn
  /\ stream' = Without({"portal"})
  /\ UNCHANGED <<txn, cur, idle, conn, history>>

\* the client is told that the transaction ended as it asked
Concluded ==
  /\ txn' = "Idle" /\ cur' = 0
  /\ outcome' = IF cur = 0 THEN outcome
                ELSE [outcome EXCEPT ![cur] =
                        IF engine.kind = "commit" THEN "committed" ELSE "rolledback"]
  /\ stream' = Without({"cursor"})
  /\ engine' = Ready

\* the slot was empty: nothing to do
FinishNone ==
  /\ engine.pc = "finish" /\ engine.c = NoConn
  /\ Concluded
  /\ UNCHANGED <<lease, idle, conn, asked, durable, dirty, unsure, short>>

FinishOk ==
  /\ engine.pc = "finish" /\ engine.c # NoConn /\ conn[engine.c].up
  /\ durable' = IF engine.kind = "commit" THEN durable \cup conn[engine.c].work ELSE durable
  /\ conn' = [conn EXCEPT ![engine.c] = Fresh]
  /\ idle' = idle \cup {engine.c}
  /\ Concluded
  /\ UNCHANGED <<lease, asked, dirty, unsure, short>>

\* Mutant of FinishFails: the answer to COMMIT is not looked at.
FinishFails_ignored ==
  /\ engine.pc = "finish" /\ engine.c # NoConn
  /\ "reject" \in Faults \/ "break" \in Faults \/ ~conn[engine.c].up
  /\ conn' = [conn EXCEPT ![engine.c] = IF conn[engine.c].up THEN Fresh ELSE Down]
  /\ idle' = idle \cup {engine.c}
  /\ Concluded
  /\ UNCHANGED <<lease, asked, durable, dirty, unsure, short>>

\* the backend rejects COMMIT, or the connection breaks before or after it
FinishFails ==
  /\ engine.pc = "finish" /\ engine.c # NoConn
  /\ \/ /\ "reject" \in Faults /\ conn[engine.c].up
        /\ conn' = [conn EXCEPT ![engine.c] = Fresh]
        /\ UNCHANGED durable
     \/ /\ "break" \in Faults \/ ~conn[engine.c].up
        /\ conn' = [conn EXCEPT ![engine.c] = Down]
        /\ durable' \in {durable, IF engine.kind = "commit"
                                  THEN durable \cup conn[engine.c].work ELSE durable}
  /\ idle' = idle \cup {engine.c}
  /\ Errored
  /\ unsure' = unsure \cup ({cur} \ {0})
  /\ stream' = Without({"cursor"})
  /\ engine' = Ready
  /\ UNCHANGED <<cur, lease, asked, outcome, short>>

\* Quit, or the client goes away while it is being answered
Quit ==
  /\ engine.pc \in {"ready", "relay", "fetch"}
  /\ CloseAll
  /\ UNCHANGED history

-----------------------------------------------------------------------------
\* a command that was begun is continued
Continue ==
  \/ take_or_acquire_lease \/ AcquireFails
  \/ RunWrite \/ RunStream \/ RunDescribe \/ RunReject \/ RunRejectBegin \/ RunBreak
  \/ RelayWindow \/ RelayEnd \/ HoldPortal
  \/ check_session_health \/ FetchWindow \/ FetchEnd
  \/ FinishNone \/ FinishOk \/ FinishFails

Command ==
  \/ Begin
  \/ \E kind \in {"write", "read", "describe"} : Statement(kind)
  \/ \E kind \in {"commit", "rollback"} : TakeToFinish(kind)
  \/ ResumePortal \/ Declare \/ Fetch \/ CloseCursor \/ CursorError \/ Quit

Producer(s) == Produce(s) \/ Drain(s) \/ BreakStream(s) \/ Finish(s)

Next == (Continue \/ Command \/ \E s \in Streams : Producer(s)) /\ UNCHANGED client

\* A task that can run is eventually run: the executor polls woken tasks, the
\* backend answers, and the client reads or goes away.
Fairness ==
  /\ WF_vars(Continue /\ UNCHANGED client)
  /\ \A s \in Streams : WF_vars((Produce(s) \/ Drain(s) \/ Finish(s)) /\ UNCHANGED client)

Spec == Init /\ [][Next]_vars /\ Fairness

-----------------------------------------------------------------------------
(* Sessions                                                                *)

\* Where the backend's transactions follow the client's: nothing is held open
\* or prepared, BEGIN is accepted, and a PostgreSQL client loses no connection
\* (its failed transaction would go on outside the backend's).
Careful(k) ==
  /\ ~k.holds /\ ~k.describes /\ "reject_begin" \notin k.faults
  /\ k.frontend = "PostgreSql" => "break" \notin k.faults

Plain(protocol, faults) ==
  [frontend |-> protocol, backend |-> protocol, holds |-> FALSE, describes |-> FALSE,
   faults |-> faults]

\* one connection of a transaction may be lost at MySQL; PostgreSQL rejects
PlainClients == {Plain("MySql", {"break", "reject"}), Plain("PostgreSql", {"reject"})}

\* a connection lost under a portal or cursor; BEGIN rejected under a prepare
HoldingClients ==
  {[Plain("PostgreSql", {"break"}) EXCEPT !.holds = TRUE],
   [Plain("PostgreSql", {"reject_begin"}) EXCEPT !.holds = TRUE, !.describes = TRUE]}

-----------------------------------------------------------------------------
(* Properties                                                              *)

TypeOK ==
  /\ txn \in {"Idle", "Active", "Failed"} /\ cur \in Txns \cup {0}
  /\ lease \in Conns \cup {NoConn} /\ idle \subseteq Conns
  /\ conn \in [Conns -> [open : BOOLEAN, work : SUBSET Writes, up : BOOLEAN,
                         aborted : BOOLEAN]]
  /\ stream \in [Streams ->
       [tx : BOOLEAN, rx : {"gone", "writer", "portal", "cursor", "hold"},
        c : Conns \cup {NoConn}, inTxn : BOOLEAN, left : Nat,
        chan : 0 .. Capacity, pre : 0 .. 1, due : Nat, cut : BOOLEAN]]
  /\ engine.pc \in {"ready", "take", "run", "relay", "health", "fetch", "finish", "closed"}
  /\ engine.c \in Conns \cup {NoConn} /\ engine.s \in Streams \cup {NoStream}
  /\ DOMAIN asked \subseteq Writes /\ \A w \in DOMAIN asked : asked[w] \in Txns \cup {0}
  /\ durable \subseteq Writes /\ dirty \subseteq Txns /\ unsure \subseteq Txns
  /\ outcome \in [Txns -> {"none", "open", "committed", "rolledback"}]
  /\ short \subseteq {"lost", "cut"}

\* A connection has one user: the pool's queue, the slot, the engine or one
\* producer.  Two users would interleave their packets on one socket.
OneOwner ==
  \A c \in Conns :
    LET owners == {<<"idle", x>> : x \in {c} \cap idle}
                    \cup {<<"lease", x>> : x \in {c} \cap {lease}}
                    \cup {<<"engine", x>> : x \in {c} \cap {engine.c}}
                    \cup {<<"producer", s>> : s \in {x \in Streams : stream[x].tx /\ stream[x].c = c}}
    IN \A o, p \in owners : o = p

\* COMMIT is answered only when the transaction's writes are committed: a
\* client that was sent no error in the transaction loses no write, and a
\* write outside a transaction is committed when it is acknowledged.
NoLostCommit ==
  \A w \in DOMAIN asked :
    LET t == asked[w]
        promised == t = 0 \/ (outcome[t] = "committed" /\ t \notin dirty)
    IN promised => w \in durable

\* A statement inside a transaction runs inside the backend's transaction: no
\* write of a transaction that was rolled back is committed.
NoPhantomWrite ==
  \A w \in DOMAIN asked \cap durable :
    asked[w] # 0 => outcome[asked[w]] # "rolledback" \/ asked[w] \in unsure

\* A connection in the pool's queue is not inside a transaction.
PoolClean == \A c \in idle : ~conn[c].open

\* A result that is reported complete has all the rows the backend sent: a
\* window polled to see whether there are more is not lost when the portal is
\* resumed, and a full channel drops nothing.
CompleteResults == "lost" \notin short

\* Every command is answered: the engine does not wait for a producer that
\* waits for the engine.
Answered == engine.pc \notin {"ready", "closed"} ~> engine.pc \in {"ready", "closed"}

\* A producer whose receiver is gone gives its connection back.
Reclaimed ==
  \A s \in Streams : (stream[s].tx /\ stream[s].rx = "gone") ~> ~stream[s].tx

\* The client's transactions and the backend's agree: nothing that was
\* promised is lost, nothing that was taken back stays, and no connection goes
\* back to the pool inside a transaction.
CommitsExact == NoLostCommit /\ NoPhantomWrite /\ PoolClean

\* No connection has two users, whatever the client holds open, and the
\* variables keep their types.
ConnectionsKept == TypeOK /\ OneOwner

=============================================================================
