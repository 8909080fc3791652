----------------------- MODULE BackendTxnCommitProofs -----------------------
(***************************************************************************)
(* The transactions of a careful client (Careful in BackendTxn): what the  *)
(* client was told of them is what the backend did.  The invariant of      *)
(* BackendTxnProofs, which holds for every client, is used throughout.     *)
(***************************************************************************)
EXTENDS BackendTxnProofs

(* The connection that is, or may be, inside the backend's transaction: the  *)
(* slot's, the one of the current command, or the one of the producer whose  *)
(* result the command relays.                                                *)
Holder ==
  IF lease # NoConn THEN lease
  ELSE IF engine.pc \in {"run", "finish"} THEN engine.c
  ELSE IF engine.pc = "relay" /\ stream[engine.s].tx /\ stream[engine.s].inTxn THEN stream[engine.s].c
  ELSE NoConn

(* The command has a connection on which no BEGIN was sent yet.              *)
Unbegun == engine.pc = "run" /\ (engine.need \/ ~engine.inTxn)

(* A stream lives within the command that reads it.                          *)
Quiet ==
  /\ engine.pc \in {"ready", "take", "run", "relay", "finish"}
  /\ engine.pc \in {"take", "run"} => engine.kind \in {"write", "read"}
  /\ \A s \in Streams : stream[s].tx \/ stream[s].rx # "gone" => engine.pc = "relay" /\ engine.s = s

(* Only the holder is inside a transaction, and it is, unless it broke.      *)
Sane ==
  \A c \in Conns : /\ ~conn[c].open => conn[c].work = {} /\ ~conn[c].aborted
                   /\ ~conn[c].up => ~conn[c].open /\ "break" \in Faults
                   /\ conn[c].open => c = Holder
Slot == lease # NoConn => engine.pc \in {"ready", "take"} \/ (engine.pc = "relay" /\ ~stream[engine.s].tx)
Inside == Holder # NoConn /\ ~Unbegun => cur # 0 /\ (conn[Holder].open \/ ~conn[Holder].up)
Outside == Unbegun => ~conn[engine.c].open /\ conn[engine.c].up

(* What execute_outcome read before it waited for a connection still holds.  *)
Planned ==
  /\ engine.pc = "take" => /\ engine.inTxn <=> txn = "Active" \/ lease # NoConn
                           /\ engine.need <=> lease = NoConn
  /\ engine.pc = "run" => /\ engine.inTxn /\ engine.need => txn = "Active"
                          /\ ~engine.inTxn => cur = 0 \/ cur \in unsure

(* The client's side: a failed transaction without a connection is one whose *)
(* COMMIT was answered by an error.                                          *)
Session ==
  /\ cur = 0 <=> txn = "Idle"
  /\ \A t \in Txns : outcome[t] = "open" <=> t = cur
  /\ unsure \subseteq dirty
  /\ txn = "Failed" => /\ cur \in dirty /\ Frontend = "PostgreSql"
                       /\ Holder = NoConn => cur \in unsure
  /\ \A t \in Txns : outcome[t] = "none" => t \notin dirty /\ \A w \in DOMAIN asked : asked[w] # t

(* The writes of the current transaction are the holder's work.              *)
Work ==
  /\ \A c \in Conns : \A w \in conn[c].work : w \in DOMAIN asked /\ asked[w] = cur /\ w \notin durable
  /\ durable \subseteq DOMAIN asked
  /\ \A w \in DOMAIN asked : asked[w] = cur /\ cur # 0 =>
       /\ cur \notin dirty => Holder # NoConn /\ (w \in conn[Holder].work \/ ~conn[Holder].up)
       /\ cur \notin unsure => w \notin durable

Followed == Quiet /\ Sane /\ Slot /\ Inside /\ Outside /\ Planned /\ Session /\ Work
Deep == CommitsExact /\ (engine.pc # "closed" => Followed)

\* What a careful client's session can do while it is open.
LEMMA CarefulNext ==
  ASSUME Inv, Quiet, Careful(client), Next
  PROVE  \/ Begin \/ (\E kind \in {"write", "read"} : Statement(kind))
         \/ (\E kind \in {"commit", "rollback"} : TakeToFinish(kind)) \/ Quit
         \/ take_or_acquire_lease \/ AcquireFails \/ RunWrite \/ RunStream \/ RunReject \/ RunBreak
         \/ RelayWindow \/ RelayEnd \/ FinishNone \/ FinishOk \/ FinishFails
         \/ \E s \in Streams : Producer(s)
<1>1. TypeOK /\ Phases BY DEF Inv
<1>2. ~Holds /\ ~Describes /\ "reject_begin" \notin Faults BY DEF Careful, Holds, Describes, Faults
<1>3. engine.pc = "ready" => \A s \in Streams : stream[s].rx = "gone" BY DEF Quiet
<1>4. ~Declare /\ ~CursorError /\ ~HoldPortal BY <1>2 DEF Declare, CursorError, HoldPortal
<1>5. ~ResumePortal /\ ~Fetch /\ ~CloseCursor BY <1>3, Zenon DEF ResumePortal, Fetch, CloseCursor
<1>6. ~check_session_health /\ ~FetchWindow /\ ~FetchEnd
  BY DEF Quiet, check_session_health, FetchWindow, FetchEnd
<1>7. ~RunDescribe /\ ~RunRejectBegin /\ ~Statement("describe")
  BY <1>2 DEF Quiet, RunDescribe, RunRejectBegin, Statement
<1> QED BY <1>4, <1>5, <1>6, <1>7 DEF Next, Continue, Command

\* Between commands no receiver is held.
LEMMA QuietWithout ==
  ASSUME TypeOK, Quiet, engine.pc # "relay", NEW h, "gone" \notin h, stream' = Without(h)
  PROVE  stream' = stream
<1>1. stream \in [Streams -> StreamRec] BY Types
<1>2. \A s \in Streams : stream[s].rx = "gone" BY DEF Quiet
<1> QED BY <1>1, <1>2 DEF Without

\* A careful client's session starts a stream only for the command that reads it.
LEMMA QuietStep ==
  ASSUME Inv, Quiet, Careful(client), Next, Inv', engine'.pc # "closed"
  PROVE  Quiet'
<1>1. TypeOK /\ Phases /\ Phases' BY DEF Inv
<1>2. stream \in [Streams -> StreamRec] BY <1>1, Types
<1>3. ASSUME engine'.pc = "ready", stream' = stream, engine.pc # "relay" PROVE Quiet'
  BY <1>3 DEF Quiet
<1>4. ASSUME NEW h, "gone" \notin h, stream' = Without(h), engine.pc # "relay" PROVE stream' = stream
  BY <1>1, <1>4, QuietWithout
<1>5. CASE Begin
  BY <1>3, <1>4, <1>5 DEF Begin
<1>6. CASE \E kind \in {"write", "read"} : Statement(kind)
  <2>1. PICK kind \in {"write", "read"} : Statement(kind) BY <1>6
  <2>2. engine.pc = "ready" /\ stream' = stream BY <1>4, <2>1 DEF Statement
  <2>3. engine'.pc = "take" /\ engine'.kind = kind BY <2>1 DEF Statement, Ready
  <2> QED BY <2>2, <2>3 DEF Quiet
<1>7. CASE \E kind \in {"commit", "rollback"} : TakeToFinish(kind)
  <2>1. engine.pc = "ready" /\ stream' = stream BY <1>4, <1>7 DEF TakeToFinish
  <2>2. engine'.pc = "finish" BY <1>7 DEF TakeToFinish, Ready
  <2> QED BY <2>1, <2>2 DEF Quiet
<1>8. CASE Quit \/ AcquireFails \/ RunReject \/ RunBreak
  <2>1. ~CloseAll BY EngineFields DEF CloseAll
  <2>2. engine' = Ready /\ stream' = stream /\ engine.pc # "relay"
    BY <1>8, <2>1 DEF Quit, AcquireFails, RunReject, RunBreak
  <2> QED BY <1>3, <2>2, EngineFields
<1>9. CASE take_or_acquire_lease
  <2>1. engine.pc = "take" /\ stream' = stream BY <1>9, Zenon DEF take_or_acquire_lease
  <2>2. engine'.pc = "run" /\ engine'.kind = engine.kind
    BY <1>1, <1>9, Zenon DEF take_or_acquire_lease, Phases, EngineRec
  <2> QED BY <2>1, <2>2 DEF Quiet
<1>10. CASE RunWrite
  BY <1>3, <1>10, EngineFields DEF RunWrite
<1>11. CASE FinishNone \/ FinishOk \/ FinishFails
  BY <1>3, <1>4, <1>11, EngineFields DEF FinishNone, FinishOk, FinishFails, Concluded
<1>12. CASE RunStream
  <2>1. engine.pc = "run" /\ engine.kind = "read" BY <1>12 DEF RunStream, Quiet
  <2>2. PICK s \in Streams : /\ engine' = [Ready EXCEPT !.pc = "relay", !.s = s]
                             /\ \A t \in Streams \ {s} : stream'[t] = stream[t]
    <3>1. PICK s \in First({x \in Streams : stream[x] = Dead}), n \in Sizes,
               holder \in IF engine.kind = "read" THEN {"writer"} ELSE {"cursor", "hold"} :
            /\ stream' = [stream EXCEPT ![s] =
                         [tx |-> TRUE, rx |-> holder, c |-> engine.c,
                          inTxn |-> engine.inTxn, left |-> n, chan |-> 0,
                          pre |-> 0, due |-> n, cut |-> FALSE]]
            /\ engine' = IF engine.kind = "read" THEN [Ready EXCEPT !.pc = "relay", !.s = s]
                                                 ELSE Ready
      BY <1>12, Zenon DEF RunStream
    <3>2. s \in Streams BY <3>1 DEF First
    <3>3. \A t \in Streams \ {s} : stream'[t] = stream[t] BY <1>2, <3>1
    <3> QED BY <2>1, <3>1, <3>2, <3>3, Zenon
  <2>3. engine'.pc = "relay" /\ engine'.s = s BY <2>2 DEF Ready
  <2> QED BY <2>1, <2>2, <2>3 DEF Quiet
<1>13. CASE RelayWindow
  <2>1. engine.pc = "relay" /\ engine' = engine /\ \A t \in Streams \ {engine.s} : stream'[t] = stream[t]
    BY <1>2, <1>13 DEF RelayWindow
  <2> QED BY <2>1 DEF Quiet
<1>14. CASE RelayEnd
  <2>1. /\ engine.pc = "relay" /\ engine'.pc = "ready" /\ engine.s \in Streams
        /\ \A t \in Streams \ {engine.s} : stream'[t] = stream[t]
        /\ stream'[engine.s] = Dead
    BY <1>1, <1>2, <1>14, EngineFields DEF RelayEnd, Phases
  <2> QED BY <2>1 DEF Quiet, Dead
<1>15. ASSUME NEW s \in Streams, Producer(s) PROVE Quiet'
  <2>1. engine' = engine /\ stream[s].tx
    BY <1>15 DEF Producer, Produce, Drain, BreakStream, Finish
  <2>2. \A t \in Streams \ {s} : stream'[t] = stream[t]
    BY <1>2, <1>15 DEF Producer, Produce, Drain, BreakStream, Finish
  <2>3. engine.pc = "relay" /\ engine.s = s BY <2>1 DEF Quiet
  <2> QED BY <2>1, <2>2, <2>3 DEF Quiet
<1> QED BY <1>5, <1>6, <1>7, <1>8, <1>9, <1>10, <1>11, <1>12, <1>13, <1>14, <1>15, CarefulNext

\* A step that moves neither the transaction nor its connection out of sight.
LEMMA Undisturbed ==
  ASSUME Followed, CommitsExact, UNCHANGED <<client, txn, cur, conn, asked, durable, outcome, dirty, unsure>>,
         Holder' = Holder, ~Unbegun, ~Unbegun'
  PROVE  Sane' /\ Inside' /\ Outside' /\ Session' /\ Work' /\ NoLostCommit' /\ NoPhantomWrite'
<1>1. Sane /\ Inside /\ Session /\ Work BY DEF Followed
<1>2. Sane' BY <1>1 DEF Sane, Faults
<1>3. Inside' /\ Outside' BY <1>1 DEF Inside, Outside
<1>4. Session' BY <1>1 DEF Session, Frontend
<1>5. Work' BY <1>1 DEF Work
<1>6. NoLostCommit' /\ NoPhantomWrite' BY DEF CommitsExact, NoLostCommit, NoPhantomWrite
<1> QED BY <1>2, <1>3, <1>4, <1>5, <1>6

\* A statement is begun, or a COMMIT or ROLLBACK takes the slot.
LEMMA CommandFollowed ==
  ASSUME Inv, Followed, CommitsExact, UNCHANGED client, Quiet',
         \/ \E kind \in {"write", "read"} : Statement(kind)
         \/ \E kind \in {"commit", "rollback"} : TakeToFinish(kind)
  PROVE  Followed' /\ CommitsExact'
<1>1. TypeOK /\ Quiet /\ Slot /\ engine.pc = "ready" BY DEF Inv, Followed, Statement, TakeToFinish
<1>2. UNCHANGED <<txn, cur, idle, conn, asked, durable, outcome, dirty, unsure>>
  BY DEF Statement, TakeToFinish, history
<1>3. stream' = stream BY <1>1, QuietWithout DEF Statement, TakeToFinish
<1>4. Holder = lease BY <1>1 DEF Holder
<1>5. CASE \E kind \in {"write", "read"} : Statement(kind)
  <2>1. PICK kind \in {"write", "read"} : Statement(kind) BY <1>5
  <2>2. /\ engine'.pc = "take" /\ lease' = lease
        /\ engine'.inTxn = (txn = "Active" \/ lease # NoConn)
        /\ engine'.need = (lease = NoConn /\ kind # "describe")
    BY <2>1 DEF Statement, Ready
  <2>3. Holder' = Holder /\ ~Unbegun /\ ~Unbegun' BY <1>1, <1>4, <2>2 DEF Holder, Unbegun
  <2>4. Slot' /\ Planned' BY <1>2, <2>2, <2>1, Zenon DEF Slot, Planned
  <2>5. PoolClean' BY <1>2 DEF CommitsExact, PoolClean
  <2> QED BY <1>2, <2>3, <2>4, <2>5, Undisturbed DEF Followed, CommitsExact
<1>6. CASE \E kind \in {"commit", "rollback"} : TakeToFinish(kind)
  <2>1. engine'.pc = "finish" /\ engine'.c = lease /\ lease' = NoConn BY <1>6 DEF TakeToFinish, Ready
  <2>2. Holder' = Holder /\ ~Unbegun /\ ~Unbegun' BY <1>1, <1>4, <2>1 DEF Holder, Unbegun
  <2>3. Slot' /\ Planned' BY <2>1 DEF Slot, Planned
  <2>4. PoolClean' BY <1>2 DEF CommitsExact, PoolClean
  <2> QED BY <1>2, <2>2, <2>3, <2>4, Undisturbed DEF Followed, CommitsExact
<1> QED BY <1>5, <1>6

\* The result is relayed.
LEMMA RelayFollowed ==
  ASSUME Inv, Followed, CommitsExact, UNCHANGED client, Quiet', RelayWindow \/ RelayEnd
  PROVE  Followed' /\ CommitsExact'
<1>1. TypeOK /\ Phases /\ Slot /\ engine.pc = "relay" BY DEF Inv, Followed, RelayWindow, RelayEnd
<1>2. UNCHANGED <<txn, cur, lease, idle, conn, asked, durable, outcome, dirty, unsure>>
  BY DEF RelayWindow, RelayEnd, history
<1>3. /\ stream'[engine.s].tx = stream[engine.s].tx /\ stream'[engine.s].c = stream[engine.s].c
      /\ stream[engine.s].tx => stream'[engine.s].inTxn = stream[engine.s].inTxn
  BY <1>1, ProducersKept DEF Steady, Phases
<1>4. engine' = engine \/ (engine'.pc = "ready" /\ ~stream[engine.s].tx)
  BY EngineFields DEF RelayWindow, RelayEnd, Ended
<1>5. Holder' = Holder /\ ~Unbegun /\ ~Unbegun' BY <1>1, <1>2, <1>3, <1>4 DEF Holder, Unbegun
<1>6. Slot' /\ Planned' BY <1>1, <1>2, <1>3, <1>4 DEF Slot, Planned
<1>7. PoolClean' BY <1>2 DEF CommitsExact, PoolClean
<1> QED BY <1>2, <1>5, <1>6, <1>7, Undisturbed DEF Followed, CommitsExact

\* A producer sends a window, drops one or gives its connection back: in a
\* transaction to the slot, which was empty, and otherwise to the pool.
LEMMA ProducerFollowed ==
  ASSUME Inv, Followed, CommitsExact, UNCHANGED client, Quiet', NEW s \in Streams,
         Produce(s) \/ Drain(s) \/ Finish(s)
  PROVE  Followed' /\ CommitsExact'
<1>1. TypeOK /\ Phases /\ Apart /\ Quiet /\ Slot /\ Sane /\ stream[s].tx
  BY DEF Inv, Followed, Produce, Drain, Finish
<1>2. engine.pc = "relay" /\ engine.s = s /\ engine' = engine /\ lease = NoConn
  BY <1>1 DEF Quiet, Slot, Produce, Drain, Finish
<1>3. stream \in [Streams -> StreamRec] /\ stream[s].c \in Conns BY <1>1, Types DEF Apart
<1>4. UNCHANGED <<txn, cur, conn, asked, durable, outcome, dirty, unsure>>
  BY <1>2 DEF Produce, Drain, Finish, Returned, history
<1>5. CASE Produce(s) \/ Drain(s)
  <2>1. UNCHANGED <<lease, idle>> BY <1>5 DEF Produce, Drain
  <2>2. /\ stream'[s].tx = stream[s].tx /\ stream'[s].c = stream[s].c
        /\ stream[s].tx => stream'[s].inTxn = stream[s].inTxn
    BY <1>5, ProducersKept DEF Steady
  <2>3. Holder' = Holder /\ ~Unbegun /\ ~Unbegun' BY <1>1, <1>2, <2>1, <2>2, Zenon DEF Holder, Unbegun
  <2>4. Slot' /\ Planned' BY <1>2, <2>1 DEF Slot, Planned
  <2>5. PoolClean' BY <1>4, <2>1 DEF CommitsExact, PoolClean
  <2> QED BY <1>4, <2>3, <2>4, <2>5, Undisturbed DEF Followed, CommitsExact
<1>6. CASE Finish(s)
  <2>1. ~stream'[s].tx BY <1>3, <1>6 DEF Finish, Dead, StreamRec
  <2>2. IF stream[s].inTxn THEN lease' = stream[s].c /\ idle' = idle
                           ELSE lease' = NoConn /\ idle' = idle \cup {stream[s].c}
    BY <1>2, <1>6 DEF Finish, Returned, Store
  <2>3. Holder' = Holder /\ ~Unbegun /\ ~Unbegun'
    BY <1>1, <1>2, <1>3, <2>1, <2>2, Names DEF Holder, Unbegun
  <2>4. Slot' /\ Planned' BY <1>2, <2>1 DEF Slot, Planned
  <2>5. ~stream[s].inTxn => ~conn[stream[s].c].open
    <3>1. ~stream[s].inTxn => Holder = NoConn BY <1>2 DEF Holder
    <3> QED BY <1>1, <1>3, <3>1, Names DEF Sane
  <2>6. PoolClean' BY <1>4, <2>2, <2>5 DEF CommitsExact, PoolClean
  <2> QED BY <1>4, <2>3, <2>4, <2>6, Undisturbed DEF Followed, CommitsExact
<1> QED BY <1>5, <1>6

\* BEGIN starts a transaction of the client only: outside one, no connection
\* holds work.
LEMMA BeginFollowed ==
  ASSUME Inv, Followed, CommitsExact, UNCHANGED client, Quiet', Begin
  PROVE  Followed' /\ CommitsExact'
<1>1. TypeOK /\ Quiet /\ Sane /\ Slot /\ Inside /\ Session /\ Work /\ engine.pc = "ready"
  BY DEF Inv, Followed, Begin
<1>2. /\ UNCHANGED <<lease, idle, conn, engine, asked, durable, dirty, unsure>>
      /\ txn' = "Active" /\ stream' = stream
  BY <1>1, QuietWithout DEF Begin
<1>3. Holder' = lease /\ Holder = lease /\ ~Unbegun /\ ~Unbegun' BY <1>1, <1>2 DEF Holder, Unbegun
<1>4. Sane' BY <1>1, <1>2, <1>3 DEF Sane, Faults
<1>5. Slot' /\ Planned' /\ Outside' BY <1>1, <1>2, <1>3 DEF Slot, Planned, Outside
<1>6. PoolClean' BY <1>2 DEF CommitsExact, PoolClean
<1>7. 0 \notin Txns /\ cur \in Txns \cup {0} /\ outcome \in [Txns -> {"none", "open", "committed", "rolledback"}]
  BY <1>1, Types, Names
<1>8. CASE cur # 0
  <2>1. UNCHANGED <<cur, outcome>> BY <1>8 DEF Begin
  <2>2. Inside' BY <1>1, <1>2, <1>3, <2>1 DEF Inside
  <2>3. Session' BY <1>1, <1>2, <1>8, <2>1 DEF Session
  <2>4. Work' BY <1>1, <1>2, <1>3, <2>1 DEF Work
  <2>5. NoLostCommit' /\ NoPhantomWrite'
    BY <1>2, <2>1 DEF CommitsExact, NoLostCommit, NoPhantomWrite
  <2> QED BY <1>4, <1>5, <1>6, <2>2, <2>3, <2>4, <2>5 DEF Followed, CommitsExact
<1>9. CASE cur = 0
  <2>1. PICK t \in Txns : outcome[t] = "none" /\ cur' = t /\ outcome' = [outcome EXCEPT ![t] = "open"]
    BY <1>9 DEF Begin
  <2>2. lease = NoConn BY <1>1, <1>3, <1>9 DEF Inside
  <2>3. \A c \in Conns : conn[c].work = {} BY <1>1, <1>3, <2>2, Names DEF Sane
  <2>4. t \notin dirty /\ t \notin unsure /\ \A w \in DOMAIN asked : asked[w] # t
    BY <1>1, <2>1 DEF Session
  <2>5. Inside' BY <1>2, <1>3, <2>2 DEF Inside
  <2>6. \A u \in Txns : outcome'[u] = IF u = t THEN "open" ELSE outcome[u] BY <1>7, <2>1
  <2>7. \A u \in Txns : outcome[u] # "open" BY <1>1, <1>7, <1>9 DEF Session
  <2>8. Session' BY <1>1, <1>2, <1>7, <2>1, <2>6, <2>7 DEF Session
  <2>9. Work' BY <1>1, <1>2, <2>1, <2>3, <2>4 DEF Work
  <2>10. \A w \in DOMAIN asked : asked[w] # 0 => asked[w] \in Txns /\ outcome'[asked[w]] = outcome[asked[w]]
    BY <1>1, <2>4, <2>6, Types
  <2>11. NoLostCommit' BY <1>2, <2>10 DEF CommitsExact, NoLostCommit
  <2>12. NoPhantomWrite' BY <1>2, <2>10 DEF CommitsExact, NoPhantomWrite
  <2> QED BY <1>4, <1>5, <1>6, <2>5, <2>8, <2>9, <2>11, <2>12 DEF Followed, CommitsExact
<1> QED BY <1>8, <1>9

\* The command gets the slot's connection, or one that is not in a transaction.
LEMMA TakeFollowed ==
  ASSUME Inv, Followed, CommitsExact, UNCHANGED client, Quiet', take_or_acquire_lease
  PROVE  Followed' /\ CommitsExact'
<1>1. /\ TypeOK /\ Phases /\ Quiet /\ Sane /\ Slot /\ Inside /\ Planned /\ Session /\ Work
      /\ engine.pc = "take"
  BY Zenon DEF Inv, Followed, take_or_acquire_lease
<1>2. UNCHANGED <<txn, cur, stream, asked, durable, outcome, dirty, unsure>>
  BY Zenon DEF take_or_acquire_lease, history
<1>3. /\ engine.inTxn <=> txn = "Active" \/ lease # NoConn
      /\ engine.need <=> lease = NoConn
      /\ Holder = lease /\ ~Unbegun
  BY <1>1 DEF Planned, Holder, Unbegun
<1>4. /\ engine'.pc = "run" /\ engine'.inTxn = engine.inTxn /\ engine'.need = engine.need /\ lease' = NoConn
  BY <1>1, <1>3, Zenon DEF take_or_acquire_lease, Phases, EngineRec
<1>5. Slot' BY <1>4 DEF Slot
<1>6. Planned'
  <2>1. ~engine.inTxn => cur = 0 \/ cur \in unsure
    BY <1>1, <1>3, Types DEF Session
  <2> QED BY <1>2, <1>3, <1>4, <2>1 DEF Planned
<1>7. CASE lease # NoConn
  <2>1. engine'.c = lease /\ UNCHANGED <<idle, conn>>
    BY <1>1, <1>3, <1>7, Zenon DEF take_or_acquire_lease, Phases, EngineRec
  <2>2. Holder' = Holder /\ ~Unbegun' BY <1>3, <1>4, <1>7, <2>1 DEF Holder, Unbegun
  <2>3. PoolClean' BY <2>1 DEF CommitsExact, PoolClean
  <2> QED BY <1>2, <1>3, <1>5, <1>6, <2>1, <2>2, <2>3, Undisturbed DEF Followed, CommitsExact
<1>8. CASE lease = NoConn
  <2>1. PICK c \in Conns : Acquire(c) /\ engine' = [engine EXCEPT !.pc = "run", !.c = c]
    BY <1>8, Zenon DEF take_or_acquire_lease
  <2>2. engine'.c = c BY <1>1, <2>1 DEF Phases, EngineRec
  <2>3. Holder' = c /\ Unbegun' BY <1>3, <1>4, <1>8, <2>2 DEF Holder, Unbegun
  <2>4. conn \in [Conns -> ConnRec] /\ \A d \in Conns : ~conn[d].open /\ conn[d].work = {} /\ ~conn[d].aborted
    BY <1>1, <1>3, <1>8, Types, Names DEF Sane
  <2>5. \A d \in Conns : conn'[d] = IF d = c /\ ~conn[c].up THEN Fresh ELSE conn[d]
    BY <2>1, <2>4 DEF Acquire
  <2>6. /\ Fresh.open = FALSE /\ Fresh.work = {} /\ Fresh.aborted = FALSE /\ Fresh.up = TRUE BY DEF Fresh
  <2>7. \A d \in Conns : ~conn'[d].open /\ conn'[d].work = {} /\ ~conn'[d].aborted /\ (conn'[d].up \/ ~conn[d].up)
    BY <2>4, <2>5, <2>6
  <2>8. conn'[c].up BY <2>1, <2>5, <2>6
  <2>9. Sane' BY <1>1, <2>5, <2>6, <2>7 DEF Sane, Faults
  <2>10. Inside' /\ Outside' BY <2>2, <2>3, <2>7, <2>8 DEF Inside, Outside
  <2>11. Session' BY <1>1, <1>2, <1>3, <1>8, <2>3 DEF Session, Frontend
  <2>12. Work' BY <1>1, <1>2, <1>3, <1>8, <2>7 DEF Work
  <2>13. PoolClean'
    <3>1. idle' \subseteq Conns BY <1>1, <2>1, Types DEF Acquire
    <3> QED BY <2>7, <3>1 DEF PoolClean
  <2>14. NoLostCommit' /\ NoPhantomWrite' BY <1>2 DEF CommitsExact, NoLostCommit, NoPhantomWrite
  <2> QED BY <1>5, <1>6, <2>9, <2>10, <2>11, <2>12, <2>13, <2>14 DEF Followed, CommitsExact
<1> QED BY <1>7, <1>8

\* An error response on the client's side.
LEMMA ErroredSession ==
  ASSUME TypeOK, Session, CommitsExact, Errored, UNCHANGED <<client, cur, asked, durable, outcome, unsure>>,
         txn' = "Failed" /\ Holder' = NoConn => cur \in unsure
  PROVE  Session' /\ NoLostCommit' /\ NoPhantomWrite' /\ (cur # 0 => cur \in dirty')
<1>1. cur \in Txns \cup {0} /\ 0 \notin Txns /\ dirty' = dirty \cup ({cur} \ {0})
  BY Types, Names DEF Errored
<1>2. txn' = txn \/ (txn = "Active" /\ txn' = "Failed" /\ Frontend = "PostgreSql") BY DEF Errored
<1>3. cur # 0 => cur \in dirty' BY <1>1
<1>4. /\ cur' = 0 <=> txn' = "Idle"
      /\ \A t \in Txns : outcome'[t] = "open" <=> t = cur'
      /\ unsure' \subseteq dirty'
  BY <1>1, <1>2 DEF Session
<1>5. txn' = "Failed" => cur' \in dirty' /\ Frontend' = "PostgreSql" /\ (Holder' = NoConn => cur' \in unsure')
  BY <1>1, <1>2 DEF Session, Frontend
<1>6. \A t \in Txns : outcome'[t] = "none" => t \notin dirty' /\ \A w \in DOMAIN asked' : asked'[w] # t
  BY <1>1 DEF Session
<1>7. Session' BY <1>4, <1>5, <1>6 DEF Session
<1>8. NoLostCommit' /\ NoPhantomWrite' BY <1>1 DEF CommitsExact, NoLostCommit, NoPhantomWrite
<1> QED BY <1>3, <1>7, <1>8

\* No connection can be had: the statement is answered by an error.
LEMMA AcquireFailsFollowed ==
  ASSUME Inv, Followed, CommitsExact, Careful(client), UNCHANGED client, Quiet', AcquireFails
  PROVE  Followed' /\ CommitsExact'
<1>1. /\ TypeOK /\ Quiet /\ Sane /\ Slot /\ Inside /\ Planned /\ Session /\ Work
      /\ engine.pc = "take" /\ engine.kind # "declare" /\ "break" \in Faults
  BY DEF Inv, Followed, AcquireFails, Quiet
<1>2. Errored /\ engine' = Ready /\ UNCHANGED <<cur, lease, idle, conn, stream, asked, durable, outcome, unsure>>
  BY <1>1 DEF AcquireFails
<1>3. Frontend # "PostgreSql" BY <1>1 DEF Careful, Frontend, Faults
<1>4. txn # "Failed" /\ txn' = txn BY <1>1, <1>2, <1>3 DEF Session, Errored
<1>5. Holder' = Holder /\ ~Unbegun /\ ~Unbegun' BY <1>1, <1>2, EngineFields DEF Holder, Unbegun
<1>6. Session' /\ NoLostCommit' /\ NoPhantomWrite' /\ dirty \subseteq dirty'
  BY <1>1, <1>2, <1>4, ErroredSession DEF Errored
<1>7. Sane' BY <1>1, <1>2, <1>5 DEF Sane, Faults
<1>8. Slot' /\ Planned' /\ Inside' /\ Outside'
  BY <1>1, <1>2, <1>5, EngineFields DEF Slot, Planned, Inside, Outside
<1>9. Work' BY <1>1, <1>2, <1>5, <1>6 DEF Work
<1>10. PoolClean' BY <1>2 DEF CommitsExact, PoolClean
<1> QED BY <1>6, <1>7, <1>8, <1>9, <1>10 DEF Followed, CommitsExact

\* The connection breaks under the producer: the transaction's work is gone,
\* and its holder, which is down, tells.
LEMMA BreakFollowed ==
  ASSUME Inv, Followed, CommitsExact, UNCHANGED client, Quiet', NEW s \in Streams, BreakStream(s)
  PROVE  Followed' /\ CommitsExact'
<1>1. /\ TypeOK /\ Apart /\ Quiet /\ Sane /\ Slot /\ Inside /\ Session /\ Work
      /\ stream[s].tx /\ "break" \in Faults
  BY DEF Inv, Followed, BreakStream
<1>2. /\ engine.pc = "relay" /\ engine.s = s /\ engine' = engine /\ lease = NoConn
      /\ UNCHANGED <<txn, cur, lease, idle, asked, durable, outcome, dirty, unsure>>
  BY <1>1 DEF Quiet, Slot, BreakStream, history
<1>3. /\ stream'[s].tx = stream[s].tx /\ stream'[s].c = stream[s].c
      /\ stream[s].tx => stream'[s].inTxn = stream[s].inTxn
  BY ProducersKept DEF Steady
<1>4. Holder' = Holder /\ ~Unbegun /\ ~Unbegun' BY <1>1, <1>2, <1>3, Zenon DEF Holder, Unbegun
<1>5. conn \in [Conns -> ConnRec] /\ stream[s].c \in Conns BY <1>1, Types DEF Apart
<1>6. \A c \in Conns : conn'[c] = IF c = stream[s].c THEN Down ELSE conn[c]
  BY <1>5 DEF BreakStream
<1>7. Down.open = FALSE /\ Down.up = FALSE /\ Down.work = {} /\ Down.aborted = FALSE BY DEF Down, Fresh
<1>8. Sane' BY <1>1, <1>4, <1>6, <1>7 DEF Sane, Faults
<1>9. Slot' /\ Planned' BY <1>1, <1>2, <1>3 DEF Slot, Planned
<1>10. Holder \in {NoConn, stream[s].c} BY <1>2 DEF Holder
<1>11. Inside' /\ Outside' BY <1>1, <1>2, <1>4, <1>5, <1>6, <1>7, <1>10 DEF Inside, Outside
<1>12. Session' BY <1>1, <1>2, <1>4, Zenon DEF Session, Frontend
<1>13. Work' BY <1>1, <1>2, <1>4, <1>5, <1>6, <1>7, <1>10 DEF Work
<1>14. PoolClean' BY <1>1, <1>2, <1>6, <1>7, Types DEF CommitsExact, PoolClean
<1>15. NoLostCommit' /\ NoPhantomWrite' BY <1>2 DEF CommitsExact, NoLostCommit, NoPhantomWrite
<1> QED BY <1>8, <1>9, <1>11, <1>12, <1>13, <1>14, <1>15 DEF Followed, CommitsExact

\* What a running statement knows: it is in the client's transaction exactly
\* when its connection is, or will be by BEGIN, in the backend's.
LEMMA RunFacts ==
  ASSUME Inv, Followed, engine.pc = "run"
  PROVE  LET c == engine.c
             k == Begun(conn[c])
         IN /\ lease = NoConn /\ Holder = c /\ c \in Conns
            /\ engine.inTxn => cur # 0
            /\ ImplicitlyCommitted(conn[c]) = {}
            /\ k \in ConnRec /\ k.work = conn[c].work
            /\ ~k.open => k = conn[c] /\ k.work = {} /\ ~k.aborted
            /\ k.up => (k.open <=> engine.inTxn)
            /\ ~k.up => ~k.open /\ "break" \in Faults
            /\ k.up <=> conn[c].up
            /\ ~engine.inTxn => ~k.open
            /\ \A d \in Conns \ {c} : ~conn[d].open /\ conn[d].work = {} /\ ~conn[d].aborted
<1> DEFINE c == engine.c
           k == Begun(conn[c])
<1>1. TypeOK /\ Phases /\ Sane /\ Slot /\ Inside /\ Outside /\ Planned /\ Session BY DEF Inv, Followed
<1>2. c \in Conns /\ conn[c] \in ConnRec BY <1>1, Types DEF Phases
<1>3. lease = NoConn /\ Holder = c BY <1>1, Zenon DEF Slot, Holder
<1>4. engine.inTxn => cur # 0
  <2>1. CASE engine.inTxn /\ engine.need BY <1>1, <2>1 DEF Planned, Session
  <2>2. CASE engine.inTxn /\ ~engine.need BY <1>1, <1>2, <1>3, <2>2, Names DEF Inside, Unbegun
  <2> QED BY <2>1, <2>2
<1>5. \A d \in Conns \ {c} : ~conn[d].open /\ conn[d].work = {} /\ ~conn[d].aborted
  BY <1>1, <1>3 DEF Sane
<1>6. /\ ~conn[c].open => conn[c].work = {} /\ ~conn[c].aborted
      /\ ~conn[c].up => ~conn[c].open /\ "break" \in Faults
  BY <1>1, <1>2 DEF Sane
<1>7. CASE NeedsBegin
  <2>1. ~conn[c].open /\ conn[c].up /\ conn[c].work = {} /\ engine.inTxn
    BY <1>1, <1>6, <1>7 DEF NeedsBegin, Outside, Unbegun
  <2>2. k = [Fresh EXCEPT !.open = TRUE] BY <1>7, <2>1 DEF Begun
  <2>3. k.open = TRUE /\ k.work = {} /\ k.up = TRUE /\ k.aborted = FALSE BY <2>2 DEF Fresh
  <2>4. k \in ConnRec BY <1>2, BegunRec
  <2>5. ImplicitlyCommitted(conn[c]) = {} BY <2>1 DEF ImplicitlyCommitted
  <2> HIDE DEF k
  <2> QED BY <1>2, <1>3, <1>4, <1>5, <2>1, <2>3, <2>4, <2>5 DEF k
<1>8. CASE ~NeedsBegin
  <2>1. k = conn[c] /\ ImplicitlyCommitted(conn[c]) = {} BY <1>8 DEF Begun, ImplicitlyCommitted
  <2>2. conn[c].up => (conn[c].open <=> engine.inTxn)
    BY <1>1, <1>2, <1>3, <1>8, Names DEF NeedsBegin, Inside, Outside, Unbegun
  <2>3. ~engine.inTxn => ~conn[c].open BY <1>1 DEF Outside, Unbegun
  <2> QED BY <1>2, <1>3, <1>4, <1>5, <1>6, <2>1, <2>2, <2>3, Zenon
<1> QED BY <1>7, <1>8, Zenon

\* A write is accepted: inside the transaction it joins the work of the
\* transaction's connection, outside one it is committed at once.
LEMMA WriteFollowed ==
  ASSUME Inv, Followed, CommitsExact, UNCHANGED client, Quiet', RunWrite
  PROVE  Followed' /\ CommitsExact'
<1> DEFINE c == engine.c
           k == Begun(conn[c])
           w == NextWrite
<1>1. /\ TypeOK /\ Phases /\ WriteRoom /\ Apart /\ Sane /\ Planned /\ Session /\ Work
      /\ engine.pc = "run" /\ k.up /\ ~k.aborted /\ engine' = Ready
      /\ UNCHANGED <<txn, cur, outcome, dirty, unsure>>
  BY DEF Inv, Followed, RunWrite
<1>2. /\ lease = NoConn /\ Holder = c /\ c \in Conns
      /\ engine.inTxn => cur # 0
      /\ ImplicitlyCommitted(conn[c]) = {}
      /\ k \in ConnRec /\ k.work = conn[c].work
      /\ ~k.open => k = conn[c] /\ k.work = {} /\ ~k.aborted
      /\ k.open <=> engine.inTxn
      /\ conn[c].up
      /\ \A d \in Conns \ {c} : ~conn[d].open /\ conn[d].work = {} /\ ~conn[d].aborted
  BY <1>1, RunFacts, Zenon
<1>3. /\ conn' = [conn EXCEPT ![c] = IF k.open THEN [k EXCEPT !.work = @ \cup {w}] ELSE k]
      /\ durable' = durable \cup (IF k.open THEN {} ELSE {w})
      /\ asked' = [v \in DOMAIN asked \cup {w} |-> IF v = w THEN cur ELSE asked[v]]
      /\ PutBack(c)
  BY <1>2 DEF RunWrite
<1>4. w \notin DOMAIN asked BY <1>1, WriteFresh DEF RunWrite
<1> HIDE DEF w, k
<1>5. conn \in [Conns -> ConnRec] /\ cur \in Txns \cup {0} /\ 0 \notin Txns /\ c # NoConn /\ idle \subseteq Conns
  BY <1>1, <1>2, Types, Names, Zenon
<1>6. /\ DOMAIN asked' = DOMAIN asked \cup {w} /\ asked'[w] = cur
      /\ \A v \in DOMAIN asked : asked'[v] = asked[v] /\ v # w
  BY <1>3, <1>4
<1>7. w \notin durable BY <1>1, <1>4 DEF Work
<1>8. engine'.pc = "ready" /\ ~Unbegun' /\ Slot' /\ Planned' /\ Outside' 
  BY <1>1, EngineFields DEF Unbegun, Slot, Planned, Outside
<1>9. \A t \in Txns : outcome'[t] = "none" => t \notin dirty' /\ \A v \in DOMAIN asked' : asked'[v] # t
  <2> SUFFICES ASSUME NEW t \in Txns, outcome[t] = "none"
               PROVE  t \notin dirty /\ \A v \in DOMAIN asked' : asked'[v] # t
    BY <1>1
  <2>1. t \notin dirty /\ t # cur /\ \A v \in DOMAIN asked : asked[v] # t BY <1>1 DEF Session
  <2> QED BY <1>6, <2>1
<1>10. CASE engine.inTxn
  <2>1. lease' = c /\ idle' = idle /\ durable' = durable BY <1>2, <1>3, <1>10, Zenon DEF PutBack, Store
  <2>2. Holder' = c BY <1>5, <2>1 DEF Holder
  <2>3. \A d \in Conns \ {c} : conn'[d] = conn[d] BY <1>3, <1>5
  <2>4. conn'[c].open = TRUE /\ conn'[c].work = conn[c].work \cup {w} /\ conn'[c].up = TRUE
    BY <1>1, <1>2, <1>3, <1>5, <1>10 DEF ConnRec
  <2>5. Sane' BY <1>1, <1>2, <2>2, <2>3, <2>4, Zenon DEF Sane, Faults
  <2>6. Inside' BY <1>1, <1>2, <1>10, <2>2, <2>4, Zenon DEF Inside
  <2>7. Session' BY <1>1, <1>5, <1>9, <2>2 DEF Session, Frontend
  <2>8. \A d \in Conns : \A v \in conn'[d].work : v \in DOMAIN asked' /\ asked'[v] = cur /\ v \notin durable
    <3>1. \A d \in Conns : \A v \in conn[d].work :
            v \in DOMAIN asked' /\ asked'[v] = cur /\ v \notin durable
      BY <1>1, <1>6, Zenon DEF Work
    <3>2. w \in DOMAIN asked' /\ asked'[w] = cur BY <1>6, Zenon
    <3>3. \A d \in Conns : conn'[d].work \subseteq conn[d].work \cup {w}
      BY <2>3, <2>4, Zenon
    <3> QED BY <1>7, <3>1, <3>2, <3>3, Zenon
  <2>9. durable' \subseteq DOMAIN asked' BY <1>1, <1>6, <2>1 DEF Work
  <2>10. ASSUME NEW v \in DOMAIN asked', asked'[v] = cur, cur # 0
         PROVE  /\ cur \notin dirty => v \in conn'[c].work
                /\ cur \notin unsure => v \notin durable
    <3>1. CASE v = w BY <1>7, <2>4, <3>1
    <3>2. CASE v # w
      <4>1. v \in DOMAIN asked /\ asked[v] = cur BY <1>6, <2>10, <3>2
      <4> QED BY <1>1, <1>2, <2>4, <2>10, <4>1 DEF Work
    <3> QED BY <3>1, <3>2
  <2>11. Work' BY <1>1, <1>5, <2>1, <2>2, <2>8, <2>9, <2>10, Zenon DEF Work
  <2>12. PoolClean' BY <1>1, <1>5, <2>1, <2>3 DEF CommitsExact, PoolClean, Apart
  <2>13. outcome[cur] = "open" BY <1>1, <1>2, <1>5, <1>10 DEF Session
  <2>14. NoLostCommit' BY <1>1, <1>2, <1>6, <1>10, <2>1, <2>13, Zenon DEF CommitsExact, NoLostCommit
  <2>15. NoPhantomWrite' BY <1>1, <1>6, <1>7, <2>1 DEF CommitsExact, NoPhantomWrite
  <2> QED BY <1>8, <2>5, <2>6, <2>7, <2>11, <2>12, <2>14, <2>15 DEF Followed, CommitsExact
<1>11. CASE ~engine.inTxn
  <2>1. /\ lease' = NoConn /\ idle' = idle \cup {c} /\ durable' = durable \cup {w} /\ conn' = conn
        /\ cur = 0 \/ cur \in unsure
    BY <1>1, <1>2, <1>3, <1>5, <1>11 DEF PutBack, Planned
  <2>2. Holder' = NoConn BY <1>8, <2>1 DEF Holder
  <2>3. \A d \in Conns : ~conn[d].open /\ conn[d].work = {} /\ ~conn[d].aborted BY <1>2, <1>11
  <2>4. Sane' BY <1>1, <2>1, <2>3 DEF Sane, Faults
  <2>5. Inside' BY <2>2 DEF Inside
  <2>6. Session' BY <1>1, <1>5, <1>9, <2>1 DEF Session, Frontend
  <2>7. Work' BY <1>1, <1>6, <2>1, <2>3 DEF Work, Session
  <2>8. PoolClean' BY <1>2, <1>5, <2>1, <2>3 DEF PoolClean
  <2>9. NoLostCommit'
    BY <1>1, <1>6, <2>1 DEF CommitsExact, NoLostCommit, Session
  <2>10. NoPhantomWrite' BY <1>1, <1>6, <2>1 DEF CommitsExact, NoPhantomWrite
  <2> QED BY <1>8, <2>4, <2>5, <2>6, <2>7, <2>8, <2>9, <2>10 DEF Followed, CommitsExact
<1> QED BY <1>10, <1>11

\* What is left when the connection of a statement outside a transaction, or
\* of a finished transaction, was let go: no connection is inside one.
LEMMA NothingHeld ==
  ASSUME TypeOK, Sane, Work, cur' = 0 \/ cur' \in unsure', unsure' \subseteq dirty', durable' \subseteq DOMAIN asked',
         \A c \in Conns : ~conn'[c].open /\ conn'[c].work = {} /\ ~conn'[c].aborted
                          /\ (~conn'[c].up => "break" \in Faults'),
         lease' = NoConn, engine'.pc = "ready" \/ (engine'.pc = "relay" /\ ~stream'[engine'.s].inTxn),
         idle' \subseteq Conns
  PROVE  Sane' /\ Slot' /\ Inside' /\ Outside' /\ Planned' /\ Work' /\ PoolClean' /\ Holder' = NoConn
<1>1. Holder' = NoConn /\ ~Unbegun' BY DEF Holder, Unbegun
<1>2. Sane' BY DEF Sane
<1>3. Slot' /\ Inside' /\ Outside' /\ Planned' BY <1>1 DEF Slot, Inside, Outside, Planned
<1>4. Work' BY DEF Work
<1>5. PoolClean' BY DEF PoolClean
<1> QED BY <1>1, <1>2, <1>3, <1>4, <1>5

\* A query is accepted: its producer owns the connection from here on.
LEMMA StreamFollowed ==
  ASSUME Inv, Followed, CommitsExact, UNCHANGED client, Quiet', RunStream
  PROVE  Followed' /\ CommitsExact'
<1> DEFINE c == engine.c
           k == Begun(conn[c])
<1>1. /\ TypeOK /\ Apart /\ Sane /\ Planned /\ Session /\ Work
      /\ engine.pc = "run" /\ engine.kind = "read"
      /\ UNCHANGED <<txn, cur, lease, idle, asked, outcome, dirty, unsure>>
  BY DEF Inv, Followed, RunStream, Quiet
<1>2. /\ lease = NoConn /\ Holder = c /\ c \in Conns /\ conn[c].up
      /\ engine.inTxn => cur # 0
      /\ ImplicitlyCommitted(conn[c]) = {}
      /\ k \in ConnRec /\ k.work = conn[c].work /\ k.up
      /\ ~k.open => k = conn[c] /\ k.work = {} /\ ~k.aborted
      /\ k.open <=> engine.inTxn
      /\ \A d \in Conns \ {c} : ~conn[d].open /\ conn[d].work = {} /\ ~conn[d].aborted
  BY <1>1, RunFacts DEF RunStream
<1>3. conn' = [conn EXCEPT ![c] = k] /\ durable' = durable BY <1>2 DEF RunStream
<1>4. conn \in [Conns -> ConnRec] /\ stream \in [Streams -> StreamRec] /\ c # NoConn /\ idle \subseteq Conns
  BY <1>1, <1>2, Types, Names, Zenon
<1> HIDE DEF k
<1>5. PICK s \in Streams : /\ engine' = [Ready EXCEPT !.pc = "relay", !.s = s]
                           /\ stream'[s].tx = TRUE /\ stream'[s].inTxn = engine.inTxn /\ stream'[s].c = c
  <2>1. PICK s \in First({x \in Streams : stream[x] = Dead}), n \in Sizes,
             holder \in IF engine.kind = "read" THEN {"writer"} ELSE {"cursor", "hold"} :
          /\ stream' = [stream EXCEPT ![s] =
                       [tx |-> TRUE, rx |-> holder, c |-> engine.c,
                        inTxn |-> engine.inTxn, left |-> n, chan |-> 0,
                        pre |-> 0, due |-> n, cut |-> FALSE]]
          /\ engine' = IF engine.kind = "read" THEN [Ready EXCEPT !.pc = "relay", !.s = s]
                                               ELSE Ready
    BY Zenon DEF RunStream
  <2>2. s \in Streams BY <2>1 DEF First
  <2>3. stream'[s] = [tx |-> TRUE, rx |-> holder, c |-> engine.c, inTxn |-> engine.inTxn, left |-> n,
                      chan |-> 0, pre |-> 0, due |-> n, cut |-> FALSE]
    BY <1>4, <2>1, <2>2
  <2>4. stream'[s].tx = TRUE /\ stream'[s].inTxn = engine.inTxn /\ stream'[s].c = c BY <2>3
  <2>5. engine' = [Ready EXCEPT !.pc = "relay", !.s = s] BY <1>1, <2>1
  <2> QED BY <2>2, <2>4, <2>5, Zenon
<1>6. engine'.pc = "relay" /\ engine'.s = s BY <1>5 DEF Ready
<1>7. NoLostCommit' /\ NoPhantomWrite' BY <1>1, <1>3 DEF CommitsExact, NoLostCommit, NoPhantomWrite
<1>8. CASE engine.inTxn
  <2>1. Holder' = c /\ ~Unbegun' BY <1>1, <1>2, <1>5, <1>6, <1>8, Zenon DEF Holder, Unbegun
  <2>2. \A d \in Conns : conn'[d] = IF d = c THEN k ELSE conn[d] BY <1>3, <1>4
  <2>3. Sane' BY <1>1, <1>2, <1>8, <2>1, <2>2, Zenon DEF Sane, Faults
  <2>4. Slot' /\ Outside' /\ Planned' BY <1>1, <1>2, <1>6, <2>1, Zenon DEF Slot, Outside, Planned
  <2>5. Inside' BY <1>1, <1>2, <1>8, <2>1, <2>2, Zenon DEF Inside
  <2>6. Session' BY <1>1, <1>4, <2>1 DEF Session, Frontend
  <2>7. Work' BY <1>1, <1>2, <1>3, <1>4, <2>1, <2>2, Zenon DEF Work
  <2>8. PoolClean' BY <1>1, <1>4, <2>2 DEF CommitsExact, PoolClean, Apart
  <2> QED BY <1>7, <2>3, <2>4, <2>5, <2>6, <2>7, <2>8 DEF Followed, CommitsExact
<1>9. CASE ~engine.inTxn
  <2>1. conn' = conn BY <1>2, <1>3, <1>4, <1>9
  <2>2. cur = 0 \/ cur \in unsure BY <1>1, <1>9 DEF Planned
  <2>3. \A d \in Conns : ~conn[d].open /\ conn[d].work = {} /\ ~conn[d].aborted /\ (~conn[d].up => "break" \in Faults)
    BY <1>1, <1>2, <1>9, Zenon DEF Sane
  <2>4. unsure \subseteq dirty /\ durable \subseteq DOMAIN asked BY <1>1 DEF Session, Work
  <2>5. Sane' /\ Slot' /\ Inside' /\ Outside' /\ Planned' /\ Work' /\ PoolClean' /\ Holder' = NoConn
    BY <1>1, <1>2, <1>3, <1>4, <1>5, <1>6, <1>9, <2>1, <2>2, <2>3, <2>4, NothingHeld DEF Faults
  <2>6. Session' BY <1>1, <2>2, <2>5 DEF Session, Frontend
  <2> QED BY <1>7, <2>5, <2>6 DEF Followed, CommitsExact
<1> QED BY <1>8, <1>9

\* The backend rejects the statement, or the connection breaks under it: the
\* client is sent an error, and a connection that works stays in the slot.
LEMMA RejectFollowed ==
  ASSUME Inv, Followed, CommitsExact, Careful(client), UNCHANGED client, Quiet', RunReject \/ RunBreak
  PROVE  Followed' /\ CommitsExact'
<1> DEFINE c == engine.c
           k == Begun(conn[c])
<1>1. /\ TypeOK /\ Apart /\ Sane /\ Planned /\ Session /\ Work
      /\ engine.pc = "run" /\ engine.kind # "declare"
  BY DEF Inv, Followed, RunReject, RunBreak, Quiet
<1>2. /\ lease = NoConn /\ Holder = c /\ c \in Conns
      /\ engine.inTxn => cur # 0
      /\ ImplicitlyCommitted(conn[c]) = {}
      /\ k \in ConnRec /\ k.work = conn[c].work /\ (k.up <=> conn[c].up)
      /\ ~k.open => k = conn[c] /\ k.work = {} /\ ~k.aborted
      /\ k.up => (k.open <=> engine.inTxn)
      /\ ~engine.inTxn => ~k.open
      /\ \A d \in Conns \ {c} : ~conn[d].open /\ conn[d].work = {} /\ ~conn[d].aborted
  BY <1>1, RunFacts, Zenon
<1>3. /\ Errored /\ engine' = Ready /\ durable' = durable
      /\ UNCHANGED <<cur, stream, asked, outcome, unsure>>
  BY <1>1, <1>2 DEF RunReject, RunBreak
<1>4. conn \in [Conns -> ConnRec] /\ cur \in Txns \cup {0} /\ c # NoConn /\ idle \subseteq Conns
  BY <1>1, <1>2, Types, Names, Zenon
<1>5. /\ engine'.pc = "ready" /\ ~Unbegun' /\ Slot' /\ Planned' /\ Outside' /\ (lease' # NoConn => Holder' = lease')
      /\ dirty \subseteq dirty' /\ unsure' \subseteq dirty'
  BY <1>1, <1>3, EngineFields DEF Unbegun, Slot, Planned, Outside, Holder, Errored, Session
<1>6. CASE RunReject
  <2>1. /\ conn[c].up /\ PutBack(c)
        /\ conn' = [conn EXCEPT ![c] = IF Backend = "PostgreSql" /\ k.open
                                       THEN [k EXCEPT !.aborted = TRUE, !.work = {}] ELSE k]
    BY <1>1, <1>6 DEF RunReject
  <2> HIDE DEF k
  <2>2. CASE engine.inTxn
    <3>1. lease' = c /\ idle' = idle /\ Holder' = c BY <1>2, <1>4, <1>5, <2>1, <2>2, Zenon DEF PutBack, Store
    <3>2. Session' /\ NoLostCommit' /\ NoPhantomWrite' /\ cur \in dirty'
      BY <1>1, <1>2, <1>3, <1>4, <2>2, <3>1, ErroredSession, Zenon
    <3>3. \A d \in Conns \ {c} : conn'[d] = conn[d] BY <1>4, <2>1
    <3>4. conn'[c].open = TRUE /\ conn'[c].up = TRUE /\ conn'[c].work \subseteq conn[c].work
      BY <1>2, <1>4, <2>1, <2>2 DEF ConnRec
    <3>5. Sane' BY <1>1, <1>2, <3>1, <3>3, <3>4, Zenon DEF Sane, Faults
    <3>6. Inside' BY <1>2, <1>3, <2>2, <3>1, <3>4, Zenon DEF Inside
    <3>7. Work' BY <1>1, <1>2, <1>3, <3>2, <3>3, <3>4, Zenon DEF Work
    <3>8. PoolClean' BY <1>1, <1>4, <3>1, <3>3, Zenon DEF CommitsExact, PoolClean, Apart
    <3> QED BY <1>5, <3>2, <3>5, <3>6, <3>7, <3>8 DEF Followed, CommitsExact
  <2>3. CASE ~engine.inTxn
    <3>1. lease' = NoConn /\ idle' = idle \cup {c} /\ conn' = conn BY <1>2, <1>4, <2>1, <2>3 DEF PutBack
    <3>2. cur = 0 \/ cur \in unsure BY <1>1, <2>3 DEF Planned
    <3>3. \A d \in Conns : ~conn[d].open /\ conn[d].work = {} /\ ~conn[d].aborted /\ (~conn[d].up => "break" \in Faults)
      BY <1>1, <1>2, <2>3, Zenon DEF Sane
    <3>4. durable \subseteq DOMAIN asked /\ idle' \subseteq Conns BY <1>1, <1>2, <1>4, <3>1, Zenon DEF Work
    <3>5. Sane' /\ Inside' /\ Work' /\ PoolClean' /\ Holder' = NoConn
      BY <1>1, <1>3, <1>5, <3>1, <3>2, <3>3, <3>4, NothingHeld DEF Faults
    <3>6. txn' = "Failed" => cur # 0 BY <1>1, <1>3 DEF Errored, Session
    <3>7. Session' /\ NoLostCommit' /\ NoPhantomWrite'
      BY <1>1, <1>3, <3>2, <3>6, ErroredSession
    <3> QED BY <1>5, <3>5, <3>7 DEF Followed, CommitsExact
  <2> QED BY <2>2, <2>3
<1>7. CASE RunBreak
  <2>1. /\ conn' = [conn EXCEPT ![c] = Down]
        /\ (idle' = idle \cup {c} /\ UNCHANGED lease) \/ PutBack(c)
        /\ "break" \in Faults
    BY <1>1, <1>2, <1>7, Zenon DEF RunBreak, Sane
  <2>2. /\ lease' = NoConn \/ (lease' = c /\ engine.inTxn)
        /\ idle' \subseteq idle \cup {c}
    BY <1>2, <2>1, Zenon DEF PutBack, Store
  <2>3. txn' # "Failed"
    <3>1. Frontend # "PostgreSql" BY <2>1 DEF Careful, Frontend, Faults
    <3> QED BY <1>1, <1>3, <3>1 DEF Session, Errored
  <2>4. Session' /\ NoLostCommit' /\ NoPhantomWrite' /\ (cur # 0 => cur \in dirty')
    BY <1>1, <1>3, <2>3, ErroredSession
  <2>5. Down.open = FALSE /\ Down.up = FALSE /\ Down.work = {} /\ Down.aborted = FALSE BY DEF Down, Fresh
  <2>6. \A d \in Conns : conn'[d] = IF d = c THEN Down ELSE conn[d] BY <1>4, <2>1
  <2>7. \A d \in Conns : ~conn'[d].open /\ conn'[d].work = {} /\ ~conn'[d].aborted BY <1>2, <2>5, <2>6, Zenon
  <2>8. Sane' BY <2>1, <2>7 DEF Sane, Faults
  <2>9. Holder' = NoConn \/ (Holder' = c /\ engine.inTxn) BY <1>5, <2>2 DEF Holder
  <2>10. Inside' BY <1>2, <1>3, <2>5, <2>6, <2>9, Zenon DEF Inside
  <2>11. Work' BY <1>1, <1>3, <2>4, <2>7, Zenon DEF Work
  <2>12. PoolClean' BY <1>2, <1>4, <2>2, <2>7, Zenon DEF PoolClean
  <2> QED BY <1>5, <2>4, <2>8, <2>10, <2>11, <2>12 DEF Followed, CommitsExact
<1> QED BY <1>6, <1>7

\* COMMIT or ROLLBACK is answered as it was asked: the work of the holder is
\* all that the client wrote in the transaction.
LEMMA ConcludedFollowed ==
  ASSUME Inv, Followed, CommitsExact, UNCHANGED client, Quiet', FinishNone \/ FinishOk
  PROVE  Followed' /\ CommitsExact'
<1> DEFINE c == engine.c
           gained == IF c # NoConn /\ engine.kind = "commit" THEN conn[c].work ELSE {}
<1>1. /\ TypeOK /\ Phases /\ Quiet /\ Sane /\ Slot /\ Session /\ Work
      /\ engine.pc = "finish" /\ Concluded
  BY DEF Inv, Followed, FinishNone, FinishOk
<1>2. UNCHANGED <<lease, asked, dirty, unsure>> BY DEF FinishNone, FinishOk
<1>3. lease = NoConn /\ Holder = c BY <1>1 DEF Slot, Holder
<1>4. /\ conn \in [Conns -> ConnRec] /\ cur \in Txns \cup {0} /\ 0 \notin Txns /\ NoConn \notin Conns
      /\ c \in Conns \cup {NoConn} /\ idle \subseteq Conns /\ engine.kind \in {"commit", "rollback"}
      /\ outcome \in [Txns -> {"none", "open", "committed", "rolledback"}]
      /\ \A w \in DOMAIN asked : asked[w] \in Txns \cup {0}
  BY <1>1, Types, Names DEF Phases
<1>5. /\ \A d \in Conns : conn'[d] = IF d = c THEN Fresh ELSE conn[d]
      /\ idle' \subseteq Conns
      /\ durable' = durable \cup gained
      /\ c # NoConn => conn[c].up
  <2>1. CASE FinishNone BY <1>4, <2>1 DEF FinishNone
  <2>2. CASE FinishOk BY <1>4, <2>2 DEF FinishOk
  <2> QED BY <2>1, <2>2, Zenon
<1>6. txn' = "Idle" /\ cur' = 0 /\ engine' = Ready BY <1>1 DEF Concluded
<1>7. Fresh.open = FALSE /\ Fresh.up = TRUE /\ Fresh.work = {} /\ Fresh.aborted = FALSE BY DEF Fresh
<1>8. \A d \in Conns : /\ ~conn'[d].open /\ conn'[d].work = {} /\ ~conn'[d].aborted
                       /\ ~conn'[d].up => "break" \in Faults'
  BY <1>1, <1>3, <1>5, <1>7 DEF Sane, Faults
<1>9. \A w \in gained : w \in DOMAIN asked /\ asked[w] = cur BY <1>1, <1>4 DEF Work
<1> HIDE DEF gained
<1>10. durable' \subseteq DOMAIN asked' /\ unsure' \subseteq dirty' BY <1>1, <1>2, <1>5, <1>9, Zenon DEF Work, Session
<1>11. Sane' /\ Slot' /\ Inside' /\ Outside' /\ Planned' /\ Work' /\ PoolClean'
  BY <1>1, <1>2, <1>3, <1>5, <1>6, <1>8, <1>10, EngineFields, NothingHeld, Zenon
<1>12. \A t \in Txns : outcome'[t] = IF t # cur THEN outcome[t]
                                     ELSE IF engine.kind = "commit" THEN "committed" ELSE "rolledback"
  BY <1>1, <1>4 DEF Concluded
<1>13. Session' BY <1>1, <1>2, <1>4, <1>6, <1>10, <1>12 DEF Session
<1>14. ASSUME NEW w \in DOMAIN asked, asked[w] = 0 \/ (outcome'[asked[w]] = "committed" /\ asked[w] \notin dirty)
       PROVE  w \in durable'
  <2>1. CASE asked[w] = 0 \/ asked[w] # cur
    <3>1. w \in durable BY <1>4, <1>12, <1>14, <2>1 DEF CommitsExact, NoLostCommit
    <3> QED BY <1>5, <3>1
  <2>2. CASE asked[w] # 0 /\ asked[w] = cur
    <3>1. c # NoConn /\ w \in conn[c].work BY <1>1, <1>3, <1>5, <1>14, <2>2, Zenon DEF Work
    <3>2. engine.kind = "commit" BY <1>4, <1>12, <1>14, <2>2
    <3> QED BY <1>5, <3>1, <3>2 DEF gained
  <2> QED BY <2>1, <2>2
<1>15. NoLostCommit' BY <1>2, <1>14 DEF NoLostCommit
<1>16. ASSUME NEW w \in DOMAIN asked \cap durable', asked[w] # 0
       PROVE  outcome'[asked[w]] # "rolledback" \/ asked[w] \in unsure
  <2>1. CASE asked[w] # cur
    <3>1. w \in durable BY <1>5, <1>9, <1>16, <2>1
    <3> QED BY <1>4, <1>12, <1>16, <2>1, <3>1 DEF CommitsExact, NoPhantomWrite
  <2>2. CASE asked[w] = cur /\ engine.kind = "commit" BY <1>4, <1>12, <1>16, <2>2
  <2>3. CASE asked[w] = cur /\ engine.kind # "commit"
    <3>1. w \in durable BY <1>5, <1>16, <2>3 DEF gained
    <3> QED BY <1>1, <1>16, <2>3, <3>1 DEF Work
  <2> QED BY <2>1, <2>2, <2>3
<1>17. NoPhantomWrite' BY <1>2, <1>16 DEF NoPhantomWrite
<1> QED BY <1>11, <1>13, <1>15, <1>17 DEF Followed, CommitsExact

\* COMMIT is answered by an error: the client cannot tell whether its writes
\* were committed, and knows that it cannot.
LEMMA FinishFailsFollowed ==
  ASSUME Inv, Followed, CommitsExact, UNCHANGED client, Quiet', FinishFails
  PROVE  Followed' /\ CommitsExact'
<1> DEFINE c == engine.c
<1>1. /\ TypeOK /\ Phases /\ Quiet /\ Sane /\ Slot /\ Inside /\ Session /\ Work
      /\ engine.pc = "finish" /\ c # NoConn /\ Errored /\ engine' = Ready
      /\ unsure' = unsure \cup ({cur} \ {0}) /\ idle' = idle \cup {c}
      /\ UNCHANGED <<cur, lease, asked, outcome>>
  BY DEF Inv, Followed, FinishFails
<1>2. lease = NoConn /\ Holder = c BY <1>1 DEF Slot, Holder
<1>3. conn \in [Conns -> ConnRec] /\ cur \in Txns \cup {0} /\ 0 \notin Txns /\ c \in Conns /\ idle' \subseteq Conns
  BY <1>1, Types, Names
<1>4. cur # 0 BY <1>1, <1>2 DEF Inside, Unbegun
<1>5. cur \in dirty' /\ cur \in unsure' /\ dirty' = dirty \cup {cur} /\ unsure' = unsure \cup {cur}
  BY <1>1, <1>4 DEF Errored
<1>6. durable \subseteq durable' /\ durable' \subseteq durable \cup conn[c].work
  BY DEF FinishFails
<1>7. /\ Fresh.open = FALSE /\ Fresh.up = TRUE /\ Fresh.work = {} /\ Fresh.aborted = FALSE
      /\ Down.open = FALSE /\ Down.up = FALSE /\ Down.work = {} /\ Down.aborted = FALSE
  BY DEF Fresh, Down
<1>8. /\ \A d \in Conns \ {c} : conn'[d] = conn[d]
      /\ conn'[c] = Fresh \/ (conn'[c] = Down /\ "break" \in Faults)
  BY <1>1, <1>3 DEF FinishFails, Sane
<1>9. \A d \in Conns : /\ ~conn'[d].open /\ conn'[d].work = {} /\ ~conn'[d].aborted
                       /\ ~conn'[d].up => "break" \in Faults'
  BY <1>1, <1>2, <1>7, <1>8 DEF Sane, Faults
<1>10. \A w \in conn[c].work : w \in DOMAIN asked /\ asked[w] = cur BY <1>1, <1>3, Zenon DEF Work
<1>11. durable' \subseteq DOMAIN asked' /\ unsure' \subseteq dirty' BY <1>1, <1>5, <1>6, <1>10 DEF Work, Session
<1>12. Sane' /\ Slot' /\ Inside' /\ Outside' /\ Planned' /\ Work' /\ PoolClean'
  BY <1>1, <1>2, <1>3, <1>5, <1>9, <1>11, EngineFields, NothingHeld, Zenon
<1>13. txn' = txn \/ (txn = "Active" /\ txn' = "Failed" /\ Frontend = "PostgreSql") BY <1>1 DEF Errored
<1>14. Session' BY <1>1, <1>3, <1>5, <1>11, <1>13 DEF Session, Frontend
<1>15. NoLostCommit' BY <1>1, <1>5, <1>6 DEF CommitsExact, NoLostCommit
<1>16. NoPhantomWrite' BY <1>1, <1>5, <1>6, <1>10 DEF CommitsExact, NoPhantomWrite
<1> QED BY <1>12, <1>14, <1>15, <1>16 DEF Followed, CommitsExact

\* The session ends: the pool is empty, and what was told stays told.
LEMMA QuitExact ==
  ASSUME CommitsExact, Quit
  PROVE  CommitsExact' /\ engine'.pc = "closed"
<1>1. idle' = {} /\ engine' = Closed /\ UNCHANGED <<asked, durable, outcome, dirty, unsure>>
  BY Zenon DEF Quit, CloseAll, history
<1>2. NoLostCommit' /\ NoPhantomWrite' BY <1>1 DEF CommitsExact, NoLostCommit, NoPhantomWrite
<1> QED BY <1>1, <1>2, EngineFields DEF CommitsExact, PoolClean

\* After the end only producers run, and their connections are closed.
LEMMA ClosedExact ==
  ASSUME Inv, CommitsExact, engine.pc = "closed", Next
  PROVE  CommitsExact' /\ engine'.pc = "closed"
<1>1. idle = {} BY DEF Inv, Phases
<1>2. ~Continue
  BY DEF Continue, take_or_acquire_lease, AcquireFails, RunWrite, RunStream, RunDescribe, RunReject,
    RunRejectBegin, RunBreak, RelayWindow, RelayEnd, HoldPortal, check_session_health, FetchWindow, FetchEnd,
    FinishNone, FinishOk, FinishFails
<1>3. ~Command
  BY DEF Command, Begin, Statement, TakeToFinish, ResumePortal, Declare, Fetch, CloseCursor, CursorError, Quit
<1>4. PICK s \in Streams : Producer(s) BY <1>2, <1>3 DEF Next
<1>5. UNCHANGED <<engine, idle, asked, durable, outcome, dirty, unsure>>
  BY <1>4 DEF Producer, Produce, Drain, BreakStream, Finish, Returned, history
<1>6. NoLostCommit' /\ NoPhantomWrite' BY <1>5 DEF CommitsExact, NoLostCommit, NoPhantomWrite
<1> QED BY <1>1, <1>5, <1>6, Zenon DEF CommitsExact, PoolClean

\* Every step of a careful client's session keeps the backend's transactions
\* in step with the client's.
LEMMA DeepStep ==
  ASSUME Inv, Inv', Deep, Careful(client), Next
  PROVE  Deep'
<1>1. UNCHANGED client /\ CommitsExact BY DEF Next, Deep
<1>2. CASE engine.pc = "closed" BY <1>1, <1>2, ClosedExact DEF Deep
<1>3. CASE Quit BY <1>1, <1>3, QuitExact DEF Deep
<1>4. CASE engine.pc # "closed" /\ ~Quit
  <2>1. Followed /\ Quiet BY <1>4 DEF Deep, Followed
  <2>2. engine'.pc # "closed"
    <3>1. CASE AcquireFails \/ RunReject \/ RunBreak
      <4>1. engine.kind # "declare" BY <2>1, <3>1 DEF AcquireFails, RunReject, RunBreak, Quiet
      <4>2. engine' = Ready BY <3>1, <4>1 DEF AcquireFails, RunReject, RunBreak
      <4> QED BY <4>2, EngineFields
    <3>2. CASE Begin \/ (\E s \in Streams : Producer(s)) \/ RelayWindow
      <4>1. engine' = engine BY <3>2, Zenon DEF Begin, Producer, Produce, Drain, BreakStream, Finish, RelayWindow
      <4> QED BY <1>4, <4>1
    <3>3. CASE RunWrite \/ RelayEnd \/ FinishNone \/ FinishOk \/ FinishFails
      <4>1. engine' = Ready BY <3>3 DEF RunWrite, RelayEnd, FinishNone, FinishOk, FinishFails, Concluded
      <4> QED BY <4>1, EngineFields
    <3>4. CASE (\E kind \in {"write", "read"} : Statement(kind)) \/ \E kind \in {"commit", "rollback"} : TakeToFinish(kind)
      <4>1. engine'.pc \in {"take", "finish"} BY <3>4, Zenon DEF Statement, TakeToFinish, Ready
      <4> QED BY <4>1
    <3>5. CASE take_or_acquire_lease
      <4>1. engine'.pc = "run" BY <3>5, Zenon DEF take_or_acquire_lease, Inv, Phases, EngineRec
      <4> QED BY <4>1
    <3>6. CASE RunStream
      <4>1. PICK s \in First({x \in Streams : stream[x] = Dead}) :
              engine' = IF engine.kind = "read" THEN [Ready EXCEPT !.pc = "relay", !.s = s] ELSE Ready
        BY <3>6, Zenon DEF RunStream
      <4>2. CASE engine.kind = "read"
        <5>1. engine'.pc = "relay" BY <4>1, <4>2 DEF Ready
        <5> QED BY <5>1
      <4>3. CASE engine.kind # "read" BY <4>1, <4>3, EngineFields
      <4> QED BY <4>2, <4>3
    <3> QED BY <1>4, <2>1, <3>1, <3>2, <3>3, <3>4, <3>5, <3>6, CarefulNext, Zenon
  <2>3. Quiet' BY <2>1, <2>2, QuietStep
  <2>4. Followed' /\ CommitsExact'
    <3>1. CASE Begin BY <1>1, <2>1, <2>3, <3>1, BeginFollowed
    <3>2. CASE (\E kind \in {"write", "read"} : Statement(kind)) \/ \E kind \in {"commit", "rollback"} : TakeToFinish(kind)
      BY <1>1, <2>1, <2>3, <3>2, CommandFollowed, Zenon
    <3>3. CASE take_or_acquire_lease BY <1>1, <2>1, <2>3, <3>3, TakeFollowed
    <3>4. CASE AcquireFails BY <1>1, <2>1, <2>3, <3>4, AcquireFailsFollowed
    <3>5. CASE RunWrite BY <1>1, <2>1, <2>3, <3>5, WriteFollowed
    <3>6. CASE RunStream BY <1>1, <2>1, <2>3, <3>6, StreamFollowed
    <3>7. CASE RunReject \/ RunBreak BY <1>1, <2>1, <2>3, <3>7, RejectFollowed
    <3>8. CASE RelayWindow \/ RelayEnd BY <1>1, <2>1, <2>3, <3>8, RelayFollowed
    <3>9. CASE FinishNone \/ FinishOk BY <1>1, <2>1, <2>3, <3>9, ConcludedFollowed
    <3>10. CASE FinishFails BY <1>1, <2>1, <2>3, <3>10, FinishFailsFollowed
    <3>11. ASSUME NEW s \in Streams, Producer(s) PROVE Followed' /\ CommitsExact'
      BY <1>1, <2>1, <2>3, <3>11, ProducerFollowed, BreakFollowed DEF Producer
    <3> QED BY <1>4, <2>1, <3>1, <3>2, <3>3, <3>4, <3>5, <3>6, <3>7, <3>8, <3>9, <3>10, <3>11, CarefulNext, Zenon
  <2> QED BY <2>4 DEF Deep
<1> QED BY <1>2, <1>3, <1>4

\* A session starts outside any transaction.
LEMMA InitDeep == Init => Deep
<1> SUFFICES ASSUME Init PROVE Deep OBVIOUS
<1>1. /\ txn = "Idle" /\ cur = 0 /\ lease = NoConn /\ idle = {} /\ engine.pc = "ready" /\ unsure = {} /\ dirty = {}
      /\ durable = {} /\ DOMAIN asked = {} /\ \A t \in Txns : outcome[t] = "none"
  BY EngineFields DEF Init
<1>2. \A s \in Streams : ~stream[s].tx /\ stream[s].rx = "gone" BY DEF Init, Dead
<1>3. \A c \in Conns : ~conn[c].open /\ conn[c].work = {} /\ ~conn[c].aborted /\ conn[c].up BY DEF Init, Fresh
<1>4. Holder = NoConn /\ ~Unbegun BY <1>1 DEF Holder, Unbegun
<1>5. Quiet /\ Sane /\ Slot BY <1>1, <1>2, <1>3 DEF Quiet, Sane, Slot
<1>6. Inside /\ Outside /\ Planned BY <1>1, <1>4 DEF Inside, Outside, Planned
<1>7. Session /\ Work BY <1>1, <1>3, Names DEF Session, Work
<1>8. CommitsExact BY <1>1 DEF CommitsExact, NoLostCommit, NoPhantomWrite, PoolClean
<1> QED BY <1>5, <1>6, <1>7, <1>8 DEF Deep, Followed

\* What a careful client was told of its transactions is what the backend did,
\* for every number of connections, transactions and writes: after COMMIT was
\* acknowledged no write is lost, after ROLLBACK none stays, and no connection
\* returns to the pool inside a transaction.
THEOREM CommitsAlwaysExact == Spec => [](Careful(client) => CommitsExact)
<1> DEFINE Kept == Careful(client) => Deep
<1>1. Init => Kept BY InitDeep
<1>2. Inv /\ Inv' /\ Kept /\ [Next]_vars => Kept'
  <2> SUFFICES ASSUME Inv, Inv', Kept, [Next]_vars, Careful(client)' PROVE Deep' OBVIOUS
  <2>1. client' = client BY DEF Next, vars
  <2>2. Careful(client) /\ Deep BY <2>1
  <2>3. CASE Next BY <2>2, <2>3, DeepStep
  <2>4. CASE UNCHANGED vars
    <3>1. Holder' = Holder /\ (Unbegun' <=> Unbegun) BY <2>4 DEF vars, Holder, Unbegun
    <3>2. CommitsExact' = CommitsExact
      BY <2>4 DEF vars, history, CommitsExact, NoLostCommit, NoPhantomWrite, PoolClean
    <3>3. (Quiet' <=> Quiet) /\ (Slot' <=> Slot) /\ (Planned' <=> Planned)
      BY <2>4, Zenon DEF vars, history, Quiet, Slot, Planned
    <3>4. (Sane' <=> Sane) /\ (Inside' <=> Inside) /\ (Outside' <=> Outside)
      BY <2>4, <3>1, Zenon DEF vars, Sane, Inside, Outside, Faults
    <3>5. (Session' <=> Session) /\ (Work' <=> Work)
      BY <2>4, <3>1, Zenon DEF vars, history, Session, Work, Frontend
    <3> QED BY <2>2, <2>4, <3>2, <3>3, <3>4, <3>5 DEF Deep, Followed, vars
  <2> QED BY <2>3, <2>4
<1>3. Kept => (Careful(client) => CommitsExact) BY DEF Deep
<1> QED BY <1>1, <1>2, <1>3, InvHolds, PTL DEF Spec

=============================================================================
