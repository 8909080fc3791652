--------------------------- MODULE LegacySession ---------------------------
(***************************************************************************)
(* The command service for MySQL that came before the core engine           *)
(* (server/server.rs) and its transaction state machine                     *)
(* (transaction_fsm.rs): which backend connection runs which statement.     *)
(* One session, without sharding, over connections of a pool; routing sends *)
(* a transaction to the writer and other statements to either.  The service *)
(* is kept in the repository, but no listener runs it any more.             *)
(***************************************************************************)
EXTENDS Naturals

CONSTANTS Writers, Readers,   \* pooled connections to the two endpoints
          Dbs,                \* databases
          MaxSteps            \* commands of the session

VARIABLES
  fsm,      \* TransFsm: current_state, client_conn ("none": no connection)
  backend,  \* each connection: its database, the one ClientConn has recorded,
            \* whether a transaction is open
  mine,     \* the client's view: its database, where its transaction began
  ranOn,     \* the connection the last command ran on
  upset,    \* what has broken the promises below since the last BEGIN or COMMIT
  steps

legacyVars == <<fsm, backend, mine, ranOn, upset, steps>>

Pooled == Writers \cup Readers

LegacyInit ==
  /\ fsm = [state |-> "Dummy", conn |-> "none"]
  /\ \E d \in Dbs : backend = [c \in Pooled |-> [db |-> d, said |-> d, txn |-> FALSE]]
  /\ \E d \in Dbs : mine = [db |-> d, session |-> d, lost |-> FALSE, txn |-> "none"]
  /\ ranOn = "none" /\ upset = {} /\ steps = 0

(* init_trans_events; the second entry for a query after SET is never       *)
(* reached.                                                                 *)
TransEvents ==
  {<<"Use", "Dummy", "Use">>, <<"Use", "Use", "Use">>,
   <<"SetSession", "Dummy", "SetSession">>, <<"SetSession", "Use", "SetSession">>,
   <<"SetSession", "SetSession", "SetSession">>,
   <<"Query", "SetSession", "SetSession">>, <<"Query", "Use", "Use">>, <<"Query", "Dummy", "Dummy">>,
   <<"Start", "Dummy", "Start">>, <<"Start", "Use", "Start">>, <<"Start", "SetSession", "Start">>,
   <<"Prepare", "Dummy", "Prepare">>, <<"Prepare", "Use", "Prepare">>, <<"Prepare", "Start", "Prepare">>,
   <<"CommitRollBack", "Prepare", "Dummy">>, <<"CommitRollBack", "Dummy", "Dummy">>,
   <<"CommitRollBack", "Start", "Dummy">>}

(* TransFsm::trigger: the state behind an event; an event the state does    *)
(* not know changes nothing.  It asks for a new connection in Dummy.        *)
trigger(event) ==
  IF \E t \in TransEvents : t[1] = event /\ t[2] = fsm.state
  THEN (CHOOSE t \in TransEvents : t[1] = event /\ t[2] = fsm.state)[3] ELSE fsm.state

(* handle_set_stmt and query_rewrite: the event of a statement.  SET NAMES, *)
(* and autocommit switched on, reset the machine and want a new connection; *)
(* autocommit given as another word wants one, and leaves the machine.      *)
Resetting == {"names", "autocommit on"}
Moving == Resetting \cup {"autocommit word"}
Statements == {"read", "write", "begin", "commit", "set", "use"} \cup Moving
EventOf(kind) ==
  CASE kind = "begin" -> "Start" [] kind = "commit" -> "CommitRollBack"
    [] kind = "set" -> "SetSession" [] OTHER -> "Query"
NextState(kind) ==
  IF kind \in Resetting THEN "Dummy"
  ELSE IF kind = "autocommit word" THEN fsm.state ELSE trigger(EventOf(kind))

(* route: the writer for a transaction, either for the rest.                *)
route(kind) == IF kind \in {"begin", "commit"} THEN Writers ELSE Pooled

(* check_get_conn: a pooled connection is given the session's attributes    *)
(* that differ from those it has recorded.                                  *)
check_get_conn(c) ==
  IF backend[c].said = mine.session THEN backend[c]
  ELSE [backend[c] EXCEPT !.db = mine.session, !.said = mine.session]

Step == steps < MaxSteps /\ fsm.state # "over" /\ steps' = steps + 1

(* The connection for a command: a new one where the machine asks for it,   *)
(* else the bound one, else (for the commands that route anyway) a new one. *)
(* "none" is an error, of the pool or for want of a bound connection.       *)
Fresh(kind) == kind \in Moving \/ fsm.state = "Dummy"
ConnsFor(kind, routes) ==
  IF Fresh(kind) \/ (routes /\ fsm.conn = "none") THEN (route(kind) \ {fsm.conn}) \cup {"none"}
  ELSE {fsm.conn}

(* A command without a connection: only the machine has moved.              *)
NoConn(state) == fsm' = [fsm EXCEPT !.state = state] /\ ranOn' = "none" /\ UNCHANGED backend

(* The exchange failed: the connection falls back to the pool; the one that *)
(* was bound stays, unless it was the same.                                 *)
Fails(c, state, was) ==
  /\ fsm' = [state |-> state, conn |-> IF c = fsm.conn THEN "none" ELSE fsm.conn]
  /\ backend' = [backend EXCEPT ![c] = was] /\ ranOn' = c

(* put_conn: the connection is bound; what was bound falls to the pool.     *)
put_conn(c, state, now) ==
  /\ fsm' = [state |-> state, conn |-> c] /\ backend' = [backend EXCEPT ![c] = now]
  /\ ranOn' = c

Given(c) == IF c = fsm.conn THEN backend[c] ELSE check_get_conn(c)
Ended(kind, c) == [Given(c) EXCEPT !.txn = CASE kind = "begin" -> TRUE [] kind = "commit" -> FALSE
                                             [] OTHER -> @]

(* USE as text is a query like any other: the server changes its database,  *)
(* the connection and the session record nothing.                           *)
AfterUse(c, db) == [Given(c) EXCEPT !.db = db]

(* query: an error of the server is an answer like any other.               *)
query(kind, routes) ==
  /\ Step
  /\ \E c \in ConnsFor(kind, routes) :
       \/ c = "none" /\ NoConn(NextState(kind))
          /\ upset' = upset \cup {"failed"} /\ UNCHANGED mine
       \/ c # "none" /\ Fails(c, NextState(kind), Given(c))
          /\ upset' = upset \cup {"failed"} /\ UNCHANGED mine
       \/ /\ c # "none" /\ kind = "use" /\ UNCHANGED upset
          /\ \E db \in Dbs : put_conn(c, NextState(kind), AfterUse(c, db)) /\ mine' = [mine EXCEPT !.db = db]
       \/ /\ c # "none" /\ put_conn(c, NextState(kind), Ended(kind, c))
          /\ mine' = CASE kind = "begin" -> [mine EXCEPT !.txn = c]
                       [] kind = "commit" -> [mine EXCEPT !.txn = "none"] [] OTHER -> mine
          /\ upset' = IF kind \in {"begin", "commit"} THEN {}
                      ELSE upset \cup (IF kind \in Moving THEN {"moved"} ELSE {})

(* field_list routes in every state.                                        *)
field_list == query("read", TRUE)

(* init_db: the session has the database before anybody is asked.  The      *)
(* server may refuse it, to a new connection's init() as well.              *)
init_db(db) ==
  /\ Step
  /\ \E c \in ConnsFor("read", TRUE) :
       \/ c = "none" /\ NoConn(trigger("Use"))
       \/ c # "none" /\ Fails(c, trigger("Use"), backend[c])
       \/ c # "none" /\ put_conn(c, trigger("Use"), backend[c])
  /\ mine' = [mine EXCEPT !.session = db, !.lost = TRUE]
  /\ upset' = IF ranOn' # fsm'.conn \/ ranOn' = "none" THEN upset \cup {"failed"} ELSE upset

init_db_obeyed(db) ==
  /\ Step
  /\ \E c \in ConnsFor("read", TRUE) \ {"none"} :
       put_conn(c, trigger("Use"), [backend[c] EXCEPT !.db = db, !.said = db])
  /\ mine' = [mine EXCEPT !.session = db, !.db = db, !.lost = FALSE] /\ UNCHANGED upset

(* prepare: prepare_stmt indexes the results of a rewrite there has not     *)
(* been, which ends the session; a statement the server refuses leaves the  *)
(* machine in Prepare.                                                      *)
com_prepare ==
  /\ Step
  /\ \E c \in ConnsFor("read", TRUE) :
       \/ c = "none" /\ NoConn(trigger("Prepare")) /\ upset' = upset \cup {"failed"}
       \/ c # "none" /\ put_conn(c, trigger("Prepare"), Given(c)) /\ UNCHANGED upset
       \/ /\ c # "none" /\ fsm' = [state |-> "over", conn |-> "none"] /\ ranOn' = c
          /\ backend' = [backend EXCEPT ![c] = Given(c)] /\ UNCHANGED upset
  /\ UNCHANGED mine

(* execute asks for the bound connection, and binds it again whatever       *)
(* happened on it.                                                          *)
execute ==
  /\ Step /\ UNCHANGED <<fsm, backend, mine, upset>> /\ ranOn' = fsm.conn

(* quit, or the end of the connection: the bound one falls to the pool.     *)
quit ==
  /\ Step /\ fsm' = [state |-> "over", conn |-> "none"]
  /\ ranOn' = "none" /\ UNCHANGED <<backend, mine, upset>>

(* handle_command.  PING, STMT_RESET, STMT_CLOSE, commands refused by a     *)
(* plugin or not supported change nothing here.                             *)
LegacyNext ==
  \/ \E kind \in Statements : query(kind, FALSE)
  \/ field_list
  \/ \E db \in Dbs : init_db(db) \/ init_db_obeyed(db)
  \/ com_prepare \/ execute \/ quit

-----------------------------------------------------------------------------
LegacyTypeOK ==
  /\ fsm.state \in {"Dummy", "Use", "SetSession", "Start", "Prepare", "over"}
  /\ fsm.conn \in Pooled \cup {"none"} /\ ranOn \in Pooled \cup {"none"}
  /\ backend \in [Pooled -> [db : Dbs, said : Dbs, txn : BOOLEAN]] /\ mine.db \in Dbs

(* Between BEGIN and COMMIT every statement of the session runs on the      *)
(* connection BEGIN ran on, in whatever state BEGIN found the machine, and  *)
(* through USE and PREPARE; unless a statement failed for want of a backend *)
(* or on the way to it, or SET NAMES or SET AUTOCOMMIT moved the session.   *)
TxnOnOneConn == mine.txn # "none" /\ ranOn # "none" /\ upset = {} => ranOn = mine.txn

(* A statement runs in the database the client chose last, on whichever     *)
(* connection it is run, as long as no USE was refused or lost.  The        *)
(* exceptions come from USE as text: the session has not taken it over, or  *)
(* the connection is in another database than it has recorded.              *)
DbFollows ==
  ranOn # "none" /\ ~mine.lost =>
    \/ backend[ranOn].db = mine.db
    \/ mine.db # mine.session
    \/ backend[ranOn].db # backend[ranOn].said

(* The connection of a transaction goes back to the pool with it open only  *)
(* when the session ends in it, or was moved or failed in it.                        *)
GivenBackClean ==
  [][fsm.conn # "none" /\ fsm.conn = mine.txn /\ fsm'.conn # fsm.conn /\ backend'[fsm.conn].txn =>
       upset # {} \/ upset' # {} \/ fsm'.state = "over"]_legacyVars

=============================================================================
