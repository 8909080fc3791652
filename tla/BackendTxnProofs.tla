-------------------------- MODULE BackendTxnProofs --------------------------
(* Proofs about BackendTxn for every kind of client, every number of         *)
(* connections, streams, transactions and writes, every capacity of the      *)
(* channel and every size of a result.                                       *)
EXTENDS BackendTxn, TLAPS

ConnRec == [open : BOOLEAN, work : SUBSET Writes, up : BOOLEAN, aborted : BOOLEAN]
StreamRec ==
  [tx : BOOLEAN, rx : {"gone", "writer", "portal", "cursor", "hold"},
   c : Conns \cup {NoConn}, inTxn : BOOLEAN, left : Nat,
   chan : 0 .. Capacity, pre : 0 .. 1, due : Nat, cut : BOOLEAN]
EngineRec ==
  [pc : {"ready", "take", "run", "relay", "health", "fetch", "finish", "closed"},
   kind : {"none", "write", "read", "describe", "declare", "commit", "rollback"},
   c : Conns \cup {NoConn}, inTxn : BOOLEAN, need : BOOLEAN, s : Streams \cup {NoStream}]

-----------------------------------------------------------------------------
(* Connections and streams, whatever the client does                       *)

(* What the engine holds at each point of a command.                         *)
Phases ==
  /\ engine \in EngineRec
  /\ engine.pc \in {"ready", "take", "relay", "fetch", "closed"} => engine.c = NoConn
  /\ engine.pc \in {"run", "health"} => engine.c \in Conns
  /\ engine.pc \in {"take", "run"} => engine.kind \in {"write", "read", "describe", "declare"}
  /\ engine.pc = "finish" => engine.kind \in {"commit", "rollback"}
  /\ engine.pc \in {"relay", "fetch", "health"} => engine.s \in Streams
  /\ engine.pc = "relay" => stream[engine.s].rx = "writer"
  /\ engine.pc \in {"fetch", "health"} => stream[engine.s].rx \in {"cursor", "hold"}
  /\ engine.pc = "closed" => lease = NoConn /\ idle = {} /\ \A s \in Streams : stream[s].rx = "gone"

(* A command that may write has a write left to ask for.                     *)
WriteRoom ==
  engine.pc \in {"take", "run"} /\ engine.kind = "write" => DOMAIN asked # Writes

(* No connection is in two places.                                           *)
Apart ==
  /\ lease \notin idle /\ engine.c \notin idle
  /\ lease # NoConn => lease # engine.c
  /\ \A s \in Streams :
       IF stream[s].tx THEN stream[s].c \in Conns \ idle /\ stream[s].c \notin {lease, engine.c}
                       ELSE stream[s].c = NoConn
  /\ \A s, t \in Streams : stream[s].tx /\ stream[t].tx /\ s # t => stream[s].c # stream[t].c

(* A window the client waits for is in the channel, polled ahead or still    *)
(* with the backend, unless the connection broke.                            *)
Whole(r) ==
  /\ r.rx # "gone" => /\ r.due >= r.pre + r.chan + r.left
                      /\ r.due > r.pre + r.chan + r.left => r.cut
  /\ r.rx # "gone" /\ ~r.tx => r.left = 0
Windows ==
  \A s \in Streams : Whole(stream[s]) /\ (stream[s].tx /\ stream[s].cut => ~conn[stream[s].c].up)

Inv == TypeOK /\ Phases /\ WriteRoom /\ Apart /\ Windows /\ CompleteResults

\* 0 names no connection, stream, transaction or write.
LEMMA Names ==
  /\ NoConn \notin Conns /\ NoStream \notin Streams /\ 0 \notin Txns /\ 0 \notin Writes
  /\ Conns \subseteq Nat /\ Streams \subseteq Nat
BY BoundsAssumption DEF NoConn, NoStream, Conns, Streams, Txns, Writes

\* The records a step writes are records of their kind.
LEMMA Records ==
  /\ Fresh \in ConnRec /\ Down \in ConnRec /\ Dead \in StreamRec
  /\ Ready \in EngineRec /\ Closed \in EngineRec
<1>1. Fresh \in ConnRec /\ Down \in ConnRec BY Zenon DEF Fresh, Down, ConnRec
<1>2. Dead \in StreamRec
  <2>1. 0 \in 0 .. Capacity /\ 0 \in 0 .. 1 BY BoundsAssumption
  <2> QED BY <2>1 DEF Dead, StreamRec
<1>3. Ready \in EngineRec BY DEF Ready, EngineRec
<1>4. Closed \in EngineRec BY Zenon DEF Ready, Closed, EngineRec
<1> QED BY <1>1, <1>2, <1>3, <1>4

\* A dropped receiver leaves the producer, its connection and what the
\* backend still sends as they were.
LEMMA DroppedRec ==
  ASSUME NEW r \in StreamRec
  PROVE  /\ Dropped(r) \in StreamRec /\ Dropped(r).rx = "gone" /\ Dropped(r).tx = r.tx
         /\ Dropped(r).c = IF r.tx THEN r.c ELSE NoConn
         /\ r.tx => Dropped(r).inTxn = r.inTxn
         /\ ~Dropped(r).cut
<1>1. 0 \in 0 .. Capacity /\ 0 \in 0 .. 1 BY BoundsAssumption
<1>2. CASE r.tx
  <2>1. Dropped(r) = [tx |-> TRUE, rx |-> "gone", c |-> r.c, inTxn |-> r.inTxn, left |-> r.left,
                      chan |-> 0, pre |-> 0, due |-> 0, cut |-> FALSE]
    BY <1>2, Zenon DEF Dropped, StreamRec
  <2>2. r.c \in Conns \cup {NoConn} /\ r.inTxn \in BOOLEAN /\ r.left \in Nat /\ r.tx = TRUE
    BY <1>2 DEF StreamRec
  <2>3. Dropped(r) \in StreamRec BY <1>1, <2>1, <2>2 DEF StreamRec
  <2>4. /\ Dropped(r).rx = "gone" /\ Dropped(r).tx = TRUE /\ Dropped(r).c = r.c
        /\ Dropped(r).inTxn = r.inTxn /\ Dropped(r).cut = FALSE
    BY <2>1
  <2> QED BY <1>2, <2>2, <2>3, <2>4, Zenon
<1>3. CASE ~r.tx
  <2>1. Dropped(r) = Dead BY <1>3 DEF Dropped
  <2>2. r.tx = FALSE BY <1>3 DEF StreamRec
  <2>3. Dead.rx = "gone" /\ Dead.tx = FALSE /\ Dead.c = NoConn /\ Dead.cut = FALSE BY DEF Dead
  <2> QED BY <1>3, <2>1, <2>2, <2>3, Records, Zenon
<1> QED BY <1>2, <1>3

\* A window taken from a stream that has one is a window the client was due.
LEMMA PolledRec ==
  ASSUME NEW r \in StreamRec, HasWindow(r), Whole(r), r.rx # "gone"
  PROVE  /\ Polled(r) \in StreamRec /\ Whole(Polled(r))
         /\ Polled(r).tx = r.tx /\ Polled(r).rx = r.rx /\ Polled(r).c = r.c
         /\ Polled(r).cut = r.cut /\ Polled(r).inTxn = r.inTxn
<1>1. r.pre \in Nat /\ r.chan \in Nat /\ r.left \in Nat /\ r.due \in Nat /\ r.pre <= 1 /\ r.chan <= Capacity
  BY BoundsAssumption DEF StreamRec
<1>2. r.due >= r.pre + r.chan + r.left /\ r.pre + r.chan > 0 BY DEF Whole, HasWindow
<1>3. CASE r.pre > 0
  <2>1. Polled(r) = [r EXCEPT !.pre = 0, !.due = r.due - 1] BY <1>3 DEF Polled
  <2>2. r.due - 1 \in Nat /\ 0 \in 0 .. 1 BY <1>1, <1>2
  <2>3. Polled(r) \in StreamRec BY <2>1, <2>2, Zenon DEF StreamRec
  <2>4. Whole(Polled(r)) BY <1>1, <1>2, <1>3, <2>1 DEF Whole, StreamRec
  <2> QED BY <2>1, <2>3, <2>4 DEF StreamRec
<1>4. CASE ~(r.pre > 0)
  <2>1. Polled(r) = [r EXCEPT !.chan = r.chan - 1, !.due = r.due - 1] BY <1>4 DEF Polled
  <2>2. r.due - 1 \in Nat /\ r.chan - 1 \in 0 .. Capacity BY <1>1, <1>2, <1>4, BoundsAssumption
  <2>3. Polled(r) \in StreamRec BY <2>1, <2>2, Zenon DEF StreamRec
  <2>4. Whole(Polled(r)) BY <1>1, <1>2, <1>4, <2>1 DEF Whole, StreamRec
  <2> QED BY <2>1, <2>3, <2>4 DEF StreamRec
<1> QED BY <1>3, <1>4

\* The window polled ahead is kept with the portal.
LEMMA PolledAheadRec ==
  ASSUME NEW r \in StreamRec, HasWindow(r), Whole(r), r.rx # "gone"
  PROVE  LET q == [PolledAhead(r) EXCEPT !.rx = "portal"] IN
         /\ q \in StreamRec /\ Whole(q)
         /\ q.tx = r.tx /\ q.rx = "portal" /\ q.c = r.c
         /\ q.cut = r.cut /\ q.inTxn = r.inTxn
<1> DEFINE q == [PolledAhead(r) EXCEPT !.rx = "portal"]
<1>1. r.pre \in Nat /\ r.chan \in Nat /\ r.left \in Nat /\ r.due \in Nat /\ r.pre <= 1 /\ r.chan <= Capacity
  BY BoundsAssumption DEF StreamRec
<1>2. r.pre + r.chan > 0 BY DEF HasWindow
<1>3. CASE r.pre > 0
  <2>1. q = [r EXCEPT !.rx = "portal"] BY <1>3 DEF PolledAhead
  <2>2. q \in StreamRec BY <2>1 DEF StreamRec
  <2>3. Whole(q) BY <2>1 DEF Whole, StreamRec
  <2> QED BY <2>1, <2>2, <2>3 DEF StreamRec
<1>4. CASE ~(r.pre > 0)
  <2>1. q = [r EXCEPT !.rx = "portal", !.chan = r.chan - 1, !.pre = 1]
    BY <1>4, Zenon DEF PolledAhead, StreamRec
  <2>2. r.chan - 1 \in 0 .. Capacity /\ 1 \in 0 .. 1 BY <1>1, <1>2, <1>4, BoundsAssumption
  <2>3. q \in StreamRec BY <2>1, <2>2, Zenon DEF StreamRec
  <2>4. /\ q.tx = r.tx /\ q.rx = "portal" /\ q.c = r.c /\ q.cut = r.cut /\ q.inTxn = r.inTxn
        /\ q.left = r.left /\ q.chan = r.chan - 1 /\ q.pre = 1 /\ q.due = r.due
    BY <2>1, Zenon DEF StreamRec
  <2>5. q.pre + q.chan + q.left = r.pre + r.chan + r.left BY <1>1, <1>2, <1>4, <2>4
  <2>6. Whole(q) BY <2>4, <2>5 DEF Whole
  <2> QED BY <2>3, <2>4, <2>6
<1> QED BY <1>3, <1>4

\* BEGIN leaves a connection record.
LEMMA BegunRec ==
  ASSUME NEW k \in ConnRec
  PROVE  /\ Begun(k) \in ConnRec /\ ImplicitlyCommitted(k) \subseteq Writes
         /\ Begun(k).up \/ ~k.up
BY Zenon DEF Begun, ConnRec, Fresh, ImplicitlyCommitted

LEMMA InitInv == Init => Inv
<1> SUFFICES ASSUME Init PROVE Inv OBVIOUS
<1>1. TypeOK
  BY ClientsAssumption, BoundsAssumption, Names, Records
  DEF Init, TypeOK, Ready, StreamRec, ConnRec
<1>2. Phases BY Records, Names DEF Init, Phases, Ready
<1>3. WriteRoom BY DEF Init, WriteRoom, Ready
<1>4. Apart /\ Windows BY Names DEF Init, Apart, Windows, Whole, Dead, Ready
<1> QED BY <1>1, <1>2, <1>3, <1>4 DEF Inv, CompleteResults, Init

-----------------------------------------------------------------------------
(* Types                                                                   *)

\* TypeOK, with the records named.
LEMMA Types ==
  TypeOK <=>
    /\ txn \in {"Idle", "Active", "Failed"} /\ cur \in Txns \cup {0}
    /\ lease \in Conns \cup {NoConn} /\ idle \subseteq Conns
    /\ conn \in [Conns -> ConnRec] /\ stream \in [Streams -> StreamRec]
    /\ engine.pc \in {"ready", "take", "run", "relay", "health", "fetch", "finish", "closed"}
    /\ engine.c \in Conns \cup {NoConn} /\ engine.s \in Streams \cup {NoStream}
    /\ DOMAIN asked \subseteq Writes /\ \A w \in DOMAIN asked : asked[w] \in Txns \cup {0}
    /\ durable \subseteq Writes /\ dirty \subseteq Txns /\ unsure \subseteq Txns
    /\ outcome \in [Txns -> {"none", "open", "committed", "rolledback"}]
    /\ short \subseteq {"lost", "cut"}
BY DEF TypeOK, ConnRec, StreamRec

\* Dropping the receivers of some holders changes no producer.
LEMMA WithoutRec ==
  ASSUME TypeOK, NEW h
  PROVE  /\ Without(h) \in [Streams -> StreamRec]
         /\ \A s \in Streams :
              IF stream[s].rx \in h
              THEN Without(h)[s] = Dropped(stream[s]) ELSE Without(h)[s] = stream[s]
<1>1. \A s \in Streams : stream[s] \in StreamRec BY Types
<1> QED BY <1>1, DroppedRec DEF Without

\* An engine that is not ready has a command; the records of the next phase.
LEMMA EngineTypes ==
  ASSUME Phases, [Next]_vars, TypeOK
  PROVE  engine' \in EngineRec
<1> USE Names, Records
<1>1. engine \in EngineRec BY DEF Phases
<1>2. ASSUME engine' = engine \/ engine' = Ready \/ engine' = Closed PROVE engine' \in EngineRec
  BY <1>1, <1>2
<1>3. CASE \E kind \in {"write", "read", "describe"} : Statement(kind)
  <2>1. PICK kind \in {"write", "read", "describe"} : Statement(kind) BY <1>3
  <2> DEFINE a == txn = "Active" \/ lease # NoConn
             b == lease = NoConn /\ kind # "describe"
  <2>2. a \in BOOLEAN /\ b \in BOOLEAN OBVIOUS
  <2>3. engine' = [Ready EXCEPT !.pc = "take", !.kind = kind, !.inTxn = a, !.need = b]
    BY <2>1 DEF Statement
  <2> HIDE DEF a, b
  <2>4. engine' = [pc |-> "take", kind |-> kind, c |-> NoConn, inTxn |-> a, need |-> b, s |-> NoStream]
    BY <2>3, Zenon DEF Ready
  <2> QED BY <2>2, <2>4 DEF EngineRec
<1>4. CASE Declare BY <1>4, Zenon DEF Declare, EngineRec, Ready
<1>5. CASE take_or_acquire_lease
  <2>1. \E c \in Conns \cup {NoConn} : engine' = [engine EXCEPT !.pc = "run", !.c = c]
    BY <1>5, Types, Zenon DEF take_or_acquire_lease
  <2>2. PICK c \in Conns \cup {NoConn} : engine' = [engine EXCEPT !.pc = "run", !.c = c] BY <2>1, Zenon
  <2>3. engine' = [pc |-> "run", kind |-> engine.kind, c |-> c, inTxn |-> engine.inTxn,
                   need |-> engine.need, s |-> engine.s]
    BY <1>1, <2>2, Zenon DEF EngineRec
  <2>4. /\ engine.kind \in {"none", "write", "read", "describe", "declare", "commit", "rollback"}
        /\ engine.inTxn \in BOOLEAN /\ engine.need \in BOOLEAN /\ engine.s \in Streams \cup {NoStream}
    BY <1>1 DEF EngineRec
  <2> QED BY <2>3, <2>4 DEF EngineRec
<1>a. ASSUME NEW s \in Streams \cup {NoStream}
      PROVE  /\ [Ready EXCEPT !.pc = "relay", !.s = s] \in EngineRec
             /\ [Ready EXCEPT !.pc = "fetch", !.s = s] \in EngineRec
  BY Zenon DEF EngineRec, Ready
<1>6. CASE RunStream
  <2>1. PICK s \in Streams : engine' = [Ready EXCEPT !.pc = "relay", !.s = s] \/ engine' = Ready
    BY <1>6, Zenon DEF RunStream, First
  <2>2. CASE engine' = [Ready EXCEPT !.pc = "relay", !.s = s] BY <1>a, <2>2, Zenon
  <2> QED BY <1>2, <2>1, <2>2, Zenon
<1>7. CASE ResumePortal BY <1>7, Zenon DEF ResumePortal, EngineRec, Ready
<1>8. CASE Fetch
  <2>1. lease \in Conns \cup {NoConn} BY Types
  <2>2. PICK s \in Streams : \/ engine' = [Ready EXCEPT !.pc = "health", !.c = lease, !.s = s]
                             \/ engine' = [Ready EXCEPT !.pc = "fetch", !.s = s]
    BY <1>8, Zenon DEF Fetch
  <2>3. CASE engine' = [Ready EXCEPT !.pc = "health", !.c = lease, !.s = s]
    <3>1. engine' = [pc |-> "health", kind |-> "none", c |-> lease, inTxn |-> FALSE,
                     need |-> FALSE, s |-> s]
      BY <2>3, Zenon DEF Ready
    <3> QED BY <2>1, <3>1 DEF EngineRec
  <2>4. CASE engine' = [Ready EXCEPT !.pc = "fetch", !.s = s] BY <1>a, <2>4, Zenon
  <2> QED BY <2>2, <2>3, <2>4
<1>9. CASE check_session_health
  <2>1. engine.s \in Streams \cup {NoStream} BY Types
  <2>2. engine' = [Ready EXCEPT !.pc = "fetch", !.s = engine.s] \/ engine' = Ready
    BY <1>9 DEF check_session_health
  <2>3. CASE engine' = [Ready EXCEPT !.pc = "fetch", !.s = engine.s] BY <1>a, <2>1, <2>3, Zenon
  <2> QED BY <1>2, <2>2, <2>3, Zenon
<1>10. CASE \E kind \in {"commit", "rollback"} : TakeToFinish(kind)
  <2>1. lease \in Conns \cup {NoConn} BY Types
  <2>2. PICK kind \in {"commit", "rollback"} :
          engine' = [Ready EXCEPT !.pc = "finish", !.kind = kind, !.c = lease]
    BY <1>10, Zenon DEF TakeToFinish
  <2>3. engine' = [pc |-> "finish", kind |-> kind, c |-> lease, inTxn |-> FALSE,
                   need |-> FALSE, s |-> NoStream]
    BY <2>2, Zenon DEF Ready
  <2> QED BY <2>1, <2>3 DEF EngineRec
<1>11. CASE Begin \/ CursorError \/ CloseCursor \/ Quit \/ AcquireFails \/ RunWrite \/ RunDescribe
            \/ RunReject \/ RunRejectBegin \/ RunBreak
  BY <1>2, <1>11, Zenon DEF Begin, CursorError, CloseCursor, Quit, AcquireFails, RunWrite, RunDescribe,
    RunReject, RunRejectBegin, RunBreak, CloseAll
<1>12. CASE RelayWindow \/ RelayEnd \/ HoldPortal \/ FetchWindow \/ FetchEnd
            \/ FinishNone \/ FinishOk \/ FinishFails
  BY <1>2, <1>12 DEF RelayWindow, RelayEnd, HoldPortal, FetchWindow, FetchEnd, FinishNone,
    FinishOk, FinishFails, Concluded
<1>13. CASE \E s \in Streams : Producer(s)
  BY <1>2, <1>13 DEF Producer, Produce, Drain, BreakStream, Finish
<1>14. CASE UNCHANGED vars BY <1>2, <1>14 DEF vars
<1> QED BY <1>3, <1>4, <1>5, <1>6, <1>7, <1>8, <1>9, <1>10, <1>11, <1>12, <1>13, <1>14
  DEF Next, Continue, Command

\* The queue and the slot hold connections.
LEMMA PoolTypes ==
  ASSUME Phases, Apart, [Next]_vars, TypeOK
  PROVE  lease' \in Conns \cup {NoConn} /\ idle' \subseteq Conns
<1>1. lease \in Conns \cup {NoConn} /\ idle \subseteq Conns /\ engine.c \in Conns \cup {NoConn}
  BY Types
<1>2. \A s \in Streams : stream[s].c \in Conns \cup {NoConn} BY Types DEF StreamRec
<1>3. ASSUME UNCHANGED <<lease, idle>> PROVE lease' \in Conns \cup {NoConn} /\ idle' \subseteq Conns
  BY <1>1, <1>3
<1>4. ASSUME NEW c \in Conns,
             \/ Store(c)
             \/ idle' = idle \cup {c} /\ UNCHANGED lease
             \/ idle' = idle \ {c} /\ UNCHANGED lease
      PROVE  lease' \in Conns \cup {NoConn} /\ idle' \subseteq Conns
  BY <1>1, <1>4 DEF Store
<1>5. CASE RunWrite \/ RunDescribe \/ RunReject \/ RunRejectBegin \/ RunBreak
  <2>1. engine.c \in Conns
    BY <1>5 DEF Phases, RunWrite, RunDescribe, RunReject, RunRejectBegin, RunBreak
  <2>2. \/ lease' = NoConn /\ idle' = {}
        \/ PutBack(engine.c)
        \/ idle' = idle \cup {engine.c} /\ UNCHANGED lease
    BY <1>5 DEF RunWrite, RunDescribe, RunReject, RunRejectBegin, RunBreak, CloseAll
  <2> QED BY <1>4, <2>1, <2>2 DEF PutBack
<1>6. CASE take_or_acquire_lease
  BY <1>1, <1>4, <1>6, Zenon DEF take_or_acquire_lease, Acquire
<1>7. CASE AcquireFails \/ Quit
  BY <1>3, <1>7 DEF AcquireFails, Quit, CloseAll
<1>8. CASE Fetch \/ \E kind \in {"commit", "rollback"} : TakeToFinish(kind)
  BY <1>1, <1>8, Zenon DEF Fetch, TakeToFinish
<1>9. CASE check_session_health
  <2>1. engine.c \in Conns BY <1>9 DEF Phases, check_session_health
  <2> QED BY <1>4, <1>9, <2>1 DEF check_session_health
<1>10. CASE FinishOk \/ FinishFails
  BY <1>1, <1>10 DEF FinishOk, FinishFails
<1>11. CASE Begin \/ CursorError \/ CloseCursor \/ ResumePortal \/ Declare
            \/ \E kind \in {"write", "read", "describe"} : Statement(kind)
  BY <1>3, <1>11, Zenon DEF Begin, CursorError, CloseCursor, ResumePortal, Declare, Statement
<1>12. CASE RunStream \/ RelayWindow \/ RelayEnd \/ HoldPortal \/ FetchWindow \/ FetchEnd \/ FinishNone
  BY <1>3, <1>12, Zenon DEF RunStream, RelayWindow, RelayEnd, HoldPortal, FetchWindow, FetchEnd, FinishNone
<1>13. ASSUME NEW s \in Streams, Produce(s) \/ Drain(s) \/ BreakStream(s)
       PROVE  lease' \in Conns \cup {NoConn} /\ idle' \subseteq Conns
  BY <1>3, <1>13 DEF Produce, Drain, BreakStream
<1>14. ASSUME NEW s \in Streams, Finish(s)
       PROVE  lease' \in Conns \cup {NoConn} /\ idle' \subseteq Conns
  <2>1. stream[s].c \in Conns BY <1>14 DEF Apart, Finish
  <2> QED BY <1>3, <1>4, <1>14, <2>1 DEF Finish, Returned
<1>15. CASE UNCHANGED vars BY <1>3, <1>15 DEF vars
<1> QED BY <1>5, <1>6, <1>7, <1>8, <1>9, <1>10, <1>11, <1>12, <1>13, <1>14, <1>15
  DEF Next, Continue, Command, Producer

\* The write an accepted command asks for is a new one.
LEMMA WriteFresh ==
  ASSUME WriteRoom, TypeOK, engine.pc = "run", engine.kind = "write"
  PROVE  NextWrite \in Writes /\ NextWrite \notin DOMAIN asked
<1>1. \E w \in Writes : w \notin DOMAIN asked BY Zenon DEF WriteRoom, TypeOK
<1> QED BY <1>1 DEF NextWrite

\* The backend's side of a connection.
LEMMA ConnTypes ==
  ASSUME Phases, WriteRoom, [Next]_vars, TypeOK
  PROVE  conn' \in [Conns -> ConnRec]
<1>1. conn \in [Conns -> ConnRec] /\ \A c \in Conns : conn[c] \in ConnRec BY Types
<1>2. ASSUME NEW c, NEW k \in ConnRec, conn' = [conn EXCEPT ![c] = k] PROVE conn' \in [Conns -> ConnRec]
  BY <1>1, <1>2, Zenon
<1>3. ASSUME UNCHANGED conn PROVE conn' \in [Conns -> ConnRec] BY <1>1, <1>3
<1>4. ASSUME CloseAll PROVE conn' \in [Conns -> ConnRec] BY <1>1, <1>4, Records DEF CloseAll
<1>5. ASSUME engine.pc = "run" PROVE engine.c \in Conns /\ Begun(conn[engine.c]) \in ConnRec
  BY <1>1, <1>5, BegunRec DEF Phases
<1>6. CASE RunWrite
  <2> DEFINE k == Begun(conn[engine.c])
             w == NextWrite
  <2>1. engine.c \in Conns /\ k \in ConnRec BY <1>5, <1>6 DEF RunWrite
  <2>2. w \in Writes BY <1>6, WriteFresh DEF RunWrite
  <2>3. conn' = [conn EXCEPT ![engine.c] = IF k.open THEN [k EXCEPT !.work = @ \cup {w}] ELSE k]
    BY <1>6 DEF RunWrite
  <2> HIDE DEF k, w
  <2>4. [k EXCEPT !.work = @ \cup {w}] \in ConnRec BY <2>1, <2>2 DEF ConnRec
  <2> QED BY <1>2, <2>1, <2>3, <2>4, Zenon
<1>7. CASE RunStream
  <2>1. conn' = [conn EXCEPT ![engine.c] = Begun(conn[engine.c])] BY <1>1, <1>7 DEF RunStream
  <2> QED BY <1>2, <1>5, <1>7, <2>1, Zenon DEF RunStream
<1>8. CASE RunReject
  <2> DEFINE k == Begun(conn[engine.c])
  <2>1. k \in ConnRec BY <1>5, <1>8 DEF RunReject
  <2>2. \/ CloseAll
        \/ conn' = [conn EXCEPT ![engine.c] = k]
        \/ conn' = [conn EXCEPT ![engine.c] = [k EXCEPT !.aborted = TRUE, !.work = {}]]
    BY <1>8 DEF RunReject
  <2> HIDE DEF k
  <2>3. [k EXCEPT !.aborted = TRUE, !.work = {}] \in ConnRec BY <2>1, Zenon DEF ConnRec
  <2> QED BY <1>2, <1>4, <2>1, <2>2, <2>3, Zenon
<1>9. CASE take_or_acquire_lease
  <2>1. \/ UNCHANGED conn
        \/ \E c \in Conns : \/ conn' = [conn EXCEPT ![c] = conn[c]]
                            \/ conn' = [conn EXCEPT ![c] = Fresh]
    BY <1>1, <1>9, Zenon DEF take_or_acquire_lease, Acquire
  <2> QED BY <1>1, <1>2, <1>3, <2>1, Records
<1>10. CASE RunBreak \/ AcquireFails \/ Quit
  BY <1>2, <1>3, <1>4, <1>10, Records, Zenon DEF RunBreak, AcquireFails, Quit
<1>11. CASE check_session_health
  <2>1. \/ UNCHANGED conn
        \/ conn' = [conn EXCEPT ![engine.c] = conn[engine.c]]
        \/ conn' = [conn EXCEPT ![engine.c] = Down]
    BY <1>1, <1>11 DEF check_session_health
  <2> QED BY <1>1, <1>2, <1>3, <2>1, Records
<1>12. CASE FinishOk \/ FinishFails
  BY <1>2, <1>12, Records, Zenon DEF FinishOk, FinishFails
<1>13. CASE Begin \/ CursorError \/ CloseCursor \/ ResumePortal \/ Declare \/ Fetch
            \/ (\E kind \in {"write", "read", "describe"} : Statement(kind))
            \/ (\E kind \in {"commit", "rollback"} : TakeToFinish(kind))
  BY <1>3, <1>13, Zenon DEF Begin, CursorError, CloseCursor, ResumePortal, Declare, Fetch, Statement,
    TakeToFinish
<1>14. CASE RunDescribe \/ RunRejectBegin \/ RelayWindow \/ RelayEnd \/ HoldPortal \/ FetchWindow
            \/ FetchEnd \/ FinishNone
  BY <1>3, <1>14, Zenon DEF RunDescribe, RunRejectBegin, RelayWindow, RelayEnd, HoldPortal, FetchWindow,
    FetchEnd, FinishNone
<1>15. ASSUME NEW s \in Streams, Producer(s) PROVE conn' \in [Conns -> ConnRec]
  BY <1>2, <1>3, <1>15, Records, Zenon DEF Producer, Produce, Drain, BreakStream, Finish, Returned
<1>16. CASE UNCHANGED vars BY <1>3, <1>16 DEF vars
<1> QED BY <1>6, <1>7, <1>8, <1>9, <1>10, <1>11, <1>12, <1>13, <1>14, <1>15, <1>16
  DEF Next, Continue, Command

\* The producers and their channels.
LEMMA StreamTypes ==
  ASSUME Phases, Windows, [Next]_vars, TypeOK
  PROVE  stream' \in [Streams -> StreamRec]
<1>1. stream \in [Streams -> StreamRec] /\ \A s \in Streams : stream[s] \in StreamRec BY Types
<1>2. ASSUME NEW s, NEW r \in StreamRec, stream' = [stream EXCEPT ![s] = r]
      PROVE  stream' \in [Streams -> StreamRec]
  BY <1>1, <1>2, Zenon
<1>3. ASSUME UNCHANGED stream PROVE stream' \in [Streams -> StreamRec] BY <1>1, <1>3
<1>4. ASSUME CloseAll PROVE stream' \in [Streams -> StreamRec] BY <1>1, <1>4, DroppedRec DEF CloseAll
<1>5. CASE Begin \/ CloseCursor \/ FinishNone \/ FinishOk \/ FinishFails
            \/ (\E kind \in {"write", "read", "describe"} : Statement(kind))
            \/ (\E kind \in {"commit", "rollback"} : TakeToFinish(kind))
  <2>1. \E h : stream' = Without(h)
    BY <1>5, Zenon DEF Begin, CloseCursor, FinishNone, FinishOk, FinishFails, Concluded, Statement, TakeToFinish
  <2> QED BY <2>1, WithoutRec
<1>6. CASE RunStream
  <2>1. PICK s \in Streams, n \in Sizes, holder \in {"writer", "cursor", "hold"} :
          stream' = [stream EXCEPT ![s] =
                       [tx |-> TRUE, rx |-> holder, c |-> engine.c,
                        inTxn |-> engine.inTxn, left |-> n, chan |-> 0,
                        pre |-> 0, due |-> n, cut |-> FALSE]]
    <3>1. \A S : First(S) \subseteq S BY DEF First
    <3>2. (IF engine.kind = "read" THEN {"writer"} ELSE {"cursor", "hold"})
            \subseteq {"writer", "cursor", "hold"}
      OBVIOUS
    <3>3. PICK s \in First({x \in Streams : stream[x] = Dead}), n \in Sizes,
               holder \in IF engine.kind = "read" THEN {"writer"} ELSE {"cursor", "hold"} :
            stream' = [stream EXCEPT ![s] =
                         [tx |-> TRUE, rx |-> holder, c |-> engine.c,
                          inTxn |-> engine.inTxn, left |-> n, chan |-> 0,
                          pre |-> 0, due |-> n, cut |-> FALSE]]
      BY <1>6, Zenon DEF RunStream
    <3>4. s \in Streams BY <3>1, <3>3
    <3>5. holder \in {"writer", "cursor", "hold"} BY <3>2, <3>3
    <3> QED BY <3>3, <3>4, <3>5, Zenon
  <2>2. /\ engine.c \in Conns \cup {NoConn} /\ engine.inTxn \in BOOLEAN /\ n \in Nat
        /\ 0 \in 0 .. Capacity /\ 0 \in 0 .. 1
    BY BoundsAssumption DEF Phases, EngineRec
  <2>3. [tx |-> TRUE, rx |-> holder, c |-> engine.c, inTxn |-> engine.inTxn, left |-> n,
         chan |-> 0, pre |-> 0, due |-> n, cut |-> FALSE] \in StreamRec
    BY <2>2 DEF StreamRec
  <2> QED BY <1>2, <2>1, <2>3, Zenon
<1>7. CASE RelayWindow \/ FetchWindow
  <2>1. /\ engine.s \in Streams /\ stream[engine.s].rx # "gone" /\ HasWindow(stream[engine.s])
        /\ stream' = [stream EXCEPT ![engine.s] = Polled(stream[engine.s])]
    BY <1>1, <1>7 DEF RelayWindow, FetchWindow, Phases
  <2>2. Polled(stream[engine.s]) \in StreamRec BY <1>1, <2>1, PolledRec DEF Windows
  <2> QED BY <1>2, <2>1, <2>2, Zenon
<1>8. CASE HoldPortal
  <2>1. /\ engine.s \in Streams /\ stream[engine.s].rx # "gone" /\ HasWindow(stream[engine.s])
        /\ stream' = [stream EXCEPT ![engine.s] = [PolledAhead(stream[engine.s]) EXCEPT !.rx = "portal"]]
    BY <1>1, <1>8 DEF HoldPortal, Phases
  <2>2. [PolledAhead(stream[engine.s]) EXCEPT !.rx = "portal"] \in StreamRec
    BY <1>1, <2>1, PolledAheadRec DEF Windows
  <2> QED BY <1>2, <2>1, <2>2, Zenon
<1>9. CASE ResumePortal
  <2>1. PICK s \in Streams : stream' = [stream EXCEPT ![s].rx = "writer"] BY <1>9, Zenon DEF ResumePortal
  <2>2. [stream[s] EXCEPT !.rx = "writer"] \in StreamRec BY <1>1 DEF StreamRec
  <2>3. stream' = [stream EXCEPT ![s] = [stream[s] EXCEPT !.rx = "writer"]] BY <1>1, <2>1
  <2> QED BY <1>2, <2>2, <2>3, Zenon
<1>10. CASE check_session_health
  <2>1. UNCHANGED stream \/ stream' = [stream EXCEPT ![engine.s] = Dropped(stream[engine.s])]
    BY <1>10 DEF check_session_health
  <2>2. engine.s \in Streams BY <1>10 DEF check_session_health, Phases
  <2> QED BY <1>1, <1>2, <1>3, <2>1, <2>2, DroppedRec
<1>11. CASE AcquireFails \/ RunReject \/ RunBreak \/ Quit
  BY <1>3, <1>4, <1>11 DEF AcquireFails, RunReject, RunBreak, Quit
<1>12. CASE RelayEnd BY <1>2, <1>12, Records, Zenon DEF RelayEnd
<1>13. CASE CursorError \/ Declare \/ Fetch \/ take_or_acquire_lease \/ RunWrite \/ RunDescribe
            \/ RunRejectBegin \/ FetchEnd
  BY <1>3, <1>13, Zenon DEF CursorError, Declare, Fetch, take_or_acquire_lease, RunWrite, RunDescribe,
    RunRejectBegin, FetchEnd
<1>14. ASSUME NEW s \in Streams, Produce(s) PROVE stream' \in [Streams -> StreamRec]
  <2> DEFINE r == [stream[s] EXCEPT !.left = stream[s].left - 1, !.chan = stream[s].chan + 1]
  <2>1. stream' = [stream EXCEPT ![s] = r] BY <1>1, <1>14 DEF Produce, StreamRec
  <2>2. stream[s].left - 1 \in Nat /\ stream[s].chan + 1 \in 0 .. Capacity
    BY <1>1, <1>14, BoundsAssumption DEF Produce, StreamRec
  <2>3. r \in StreamRec BY <1>1, <2>2, Zenon DEF StreamRec
  <2> QED BY <1>2, <2>1, <2>3, Zenon
<1>15. ASSUME NEW s \in Streams, Drain(s) PROVE stream' \in [Streams -> StreamRec]
  <2>1. stream' = [stream EXCEPT ![s] = [stream[s] EXCEPT !.left = 0]] BY <1>1, <1>15 DEF Drain
  <2>2. [stream[s] EXCEPT !.left = 0] \in StreamRec BY <1>1 DEF StreamRec
  <2> QED BY <1>2, <2>1, <2>2, Zenon
<1>16. ASSUME NEW s \in Streams, BreakStream(s) PROVE stream' \in [Streams -> StreamRec]
  <2> DEFINE b == stream[s].left > 0
  <2>1. b \in BOOLEAN OBVIOUS
  <2>2. stream' = [stream EXCEPT ![s] = [stream[s] EXCEPT !.left = 0, !.cut = b]]
    BY <1>1, <1>16, Zenon DEF BreakStream, StreamRec
  <2> HIDE DEF b
  <2>3. [stream[s] EXCEPT !.left = 0, !.cut = b] \in StreamRec BY <1>1, <2>1, Zenon DEF StreamRec
  <2> QED BY <1>2, <2>2, <2>3, Zenon
<1>17. ASSUME NEW s \in Streams, Finish(s) PROVE stream' \in [Streams -> StreamRec]
  <2>1. \/ stream' = [stream EXCEPT ![s] = Dead]
        \/ stream' = [stream EXCEPT ![s] = [stream[s] EXCEPT !.tx = FALSE, !.c = NoConn]]
    BY <1>1, <1>17, Zenon DEF Finish
  <2>2. [stream[s] EXCEPT !.tx = FALSE, !.c = NoConn] \in StreamRec BY <1>1, Zenon DEF StreamRec
  <2> QED BY <1>2, <2>1, <2>2, Records
<1>18. CASE UNCHANGED vars BY <1>3, <1>18 DEF vars
<1> QED BY <1>5, <1>6, <1>7, <1>8, <1>9, <1>10, <1>11, <1>12, <1>13, <1>14, <1>15, <1>16, <1>17, <1>18
  DEF Next, Continue, Command, Producer

\* The histories and the state of the client's transaction.
LEMMA HistoryTypes ==
  ASSUME Phases, WriteRoom, [Next]_vars, TypeOK
  PROVE  /\ txn' \in {"Idle", "Active", "Failed"} /\ cur' \in Txns \cup {0}
         /\ DOMAIN asked' \subseteq Writes /\ \A w \in DOMAIN asked' : asked'[w] \in Txns \cup {0}
         /\ durable' \subseteq Writes /\ dirty' \subseteq Txns /\ unsure' \subseteq Txns
         /\ outcome' \in [Txns -> {"none", "open", "committed", "rolledback"}]
         /\ short' \subseteq {"lost", "cut"}
<1>1. /\ txn \in {"Idle", "Active", "Failed"} /\ cur \in Txns \cup {0}
      /\ DOMAIN asked \subseteq Writes /\ \A w \in DOMAIN asked : asked[w] \in Txns \cup {0}
      /\ durable \subseteq Writes /\ dirty \subseteq Txns /\ unsure \subseteq Txns
      /\ outcome \in [Txns -> {"none", "open", "committed", "rolledback"}]
      /\ short \subseteq {"lost", "cut"}
  BY Types
<1>2. \A c \in Conns : conn[c] \in ConnRec /\ conn[c].work \subseteq Writes BY Types DEF ConnRec
<1>3. ASSUME engine.pc = "run" PROVE ImplicitlyCommitted(conn[engine.c]) \subseteq Writes
  BY <1>2, <1>3, BegunRec DEF Phases
<1>4. \A r : Missing(r) \subseteq {"lost", "cut"} BY DEF Missing
<1>5. ASSUME Errored PROVE txn' \in {"Idle", "Active", "Failed"} /\ dirty' \subseteq Txns
  BY <1>1, <1>5 DEF Errored
<1>6. CASE RunWrite
  <2> DEFINE w == NextWrite
  <2>1. w \in Writes BY <1>6, WriteFresh DEF RunWrite
  <2>2. /\ asked' = [v \in DOMAIN asked \cup {w} |-> IF v = w THEN cur ELSE asked[v]]
        /\ durable' \subseteq durable \cup ImplicitlyCommitted(conn[engine.c]) \cup {w}
        /\ UNCHANGED <<txn, cur, outcome, dirty, unsure, short>>
    BY <1>6 DEF RunWrite
  <2>3. ImplicitlyCommitted(conn[engine.c]) \subseteq Writes BY <1>3, <1>6 DEF RunWrite
  <2> HIDE DEF w
  <2>4. DOMAIN asked' = DOMAIN asked \cup {w} BY <2>2
  <2>5. \A v \in DOMAIN asked' : asked'[v] \in Txns \cup {0} BY <1>1, <2>2
  <2> QED BY <1>1, <2>1, <2>2, <2>3, <2>4, <2>5
<1>7. CASE RunStream \/ RunReject
  <2>1. /\ durable' = durable \cup ImplicitlyCommitted(conn[engine.c])
        /\ UNCHANGED <<cur, asked, outcome, unsure, short>>
        /\ UNCHANGED <<txn, dirty>> \/ Errored
    BY <1>7, Zenon DEF RunStream, RunReject, CloseAll
  <2>2. ImplicitlyCommitted(conn[engine.c]) \subseteq Writes BY <1>3, <1>7, Zenon DEF RunStream, RunReject
  <2> QED BY <1>1, <1>5, <2>1, <2>2
<1>8. CASE AcquireFails \/ RunRejectBegin \/ RunBreak \/ CursorError
  <2>1. /\ UNCHANGED <<cur, asked, durable, outcome, unsure, short>>
        /\ txn' \in {txn, "Failed"} /\ dirty' \subseteq dirty \cup ({cur} \ {0})
    BY <1>8 DEF AcquireFails, RunRejectBegin, RunBreak, CursorError, CloseAll, Errored
  <2> QED BY <1>1, <2>1
<1>9. CASE Begin
  <2>1. \/ UNCHANGED <<cur, outcome>>
        \/ \E t \in Txns : cur' = t /\ outcome' = [outcome EXCEPT ![t] = "open"]
    BY <1>9 DEF Begin
  <2>2. txn' = "Active" /\ UNCHANGED <<asked, durable, dirty, unsure, short>> BY <1>9 DEF Begin
  <2> QED BY <1>1, <2>1, <2>2
<1>10. CASE RelayEnd \/ FetchEnd
  <2>1. /\ UNCHANGED <<txn, cur, asked, durable, outcome, dirty, unsure>>
        /\ short' = short \cup Missing(stream[engine.s])
    BY <1>10 DEF RelayEnd, FetchEnd
  <2> QED BY <1>1, <1>4, <2>1, Zenon
<1>11. CASE check_session_health
  <2>1. /\ UNCHANGED <<cur, asked, durable, outcome, unsure, short>>
        /\ txn' \in {txn, "Failed"} /\ dirty' \subseteq dirty \cup ({cur} \ {0})
    BY <1>11 DEF check_session_health
  <2> QED BY <1>1, <2>1
<1>12. CASE FinishNone \/ FinishOk
  <2>1. /\ UNCHANGED <<asked, dirty, unsure, short>> /\ txn' = "Idle" /\ cur' = 0
        /\ \/ outcome' = outcome
           \/ outcome' = [outcome EXCEPT ![cur] = "committed"]
           \/ outcome' = [outcome EXCEPT ![cur] = "rolledback"]
        /\ durable' = durable \/ (engine.c # NoConn /\ durable' = durable \cup conn[engine.c].work)
    BY <1>12 DEF FinishNone, FinishOk, Concluded
  <2>2. engine.c # NoConn => conn[engine.c].work \subseteq Writes BY <1>2, Types
  <2> QED BY <1>1, <2>1, <2>2
<1>13. CASE FinishFails
  <2>1. /\ UNCHANGED <<cur, asked, outcome, short>>
        /\ Errored /\ unsure' = unsure \cup ({cur} \ {0})
        /\ durable' = durable \/ durable' = durable \cup conn[engine.c].work
    BY <1>13 DEF FinishFails
  <2>2. conn[engine.c].work \subseteq Writes BY <1>2, <1>13, Types DEF FinishFails
  <2> QED BY <1>1, <1>5, <2>1, <2>2
<1>14. CASE \/ CloseCursor \/ ResumePortal \/ Declare \/ Fetch \/ Quit \/ take_or_acquire_lease
            \/ RunDescribe \/ RelayWindow \/ HoldPortal \/ FetchWindow
            \/ \E kind \in {"write", "read", "describe"} : Statement(kind)
            \/ \E kind \in {"commit", "rollback"} : TakeToFinish(kind)
            \/ \E s \in Streams : Producer(s)
            \/ UNCHANGED vars
  <2>1. UNCHANGED <<txn, cur, asked, durable, outcome, dirty, unsure, short>>
    BY <1>14, Zenon DEF CloseCursor, ResumePortal, Declare, Fetch, Quit, CloseAll, take_or_acquire_lease,
      RunDescribe, RelayWindow, HoldPortal, FetchWindow, Statement, TakeToFinish, Producer, Produce, Drain,
      BreakStream, Finish, vars, history
  <2> QED BY <1>1, <2>1
<1> QED BY <1>6, <1>7, <1>8, <1>9, <1>10, <1>11, <1>12, <1>13, <1>14 DEF Next, Continue, Command

\* A step keeps the types.
LEMMA TypeStep == Inv /\ [Next]_vars => TypeOK'
<1> SUFFICES ASSUME Inv, [Next]_vars PROVE TypeOK' OBVIOUS
<1>1. TypeOK /\ Phases /\ WriteRoom /\ Apart /\ Windows BY DEF Inv
<1>2. engine' \in EngineRec BY <1>1, EngineTypes
<1>3. lease' \in Conns \cup {NoConn} /\ idle' \subseteq Conns BY <1>1, PoolTypes
<1>4. conn' \in [Conns -> ConnRec] BY <1>1, ConnTypes
<1>5. stream' \in [Streams -> StreamRec] BY <1>1, StreamTypes
<1>6. /\ engine'.pc \in {"ready", "take", "run", "relay", "health", "fetch", "finish", "closed"}
      /\ engine'.c \in Conns \cup {NoConn} /\ engine'.s \in Streams \cup {NoStream}
  BY <1>2 DEF EngineRec
<1> QED BY <1>1, <1>3, <1>4, <1>5, <1>6, HistoryTypes DEF TypeOK, ConnRec, StreamRec

-----------------------------------------------------------------------------
(* The engine's phases                                                     *)

\* The fields of the records that a command begins or ends with.
LEMMA EngineFields ==
  /\ Ready.pc = "ready" /\ Ready.c = NoConn /\ Ready.kind = "none"
  /\ Closed.pc = "closed" /\ Closed.c = NoConn
BY DEF Ready, Closed

\* A producer keeps the receiver's holder while there is one.
LEMMA ReceiverKept ==
  ASSUME TypeOK, NEW s \in Streams, Producer(s)
  PROVE  \A x \in Streams : stream'[x].rx = stream[x].rx
<1>1. stream \in [Streams -> StreamRec] /\ stream[s] \in StreamRec BY Types
<1>2. Dead.rx = "gone" BY DEF Dead
<1>3. CASE Produce(s)
  <2>1. stream' = [stream EXCEPT ![s] = [stream[s] EXCEPT !.left = stream[s].left - 1, !.chan = stream[s].chan + 1]]
    BY <1>1, <1>3 DEF Produce, StreamRec
  <2> QED BY <1>1, <2>1 DEF StreamRec
<1>4. CASE Drain(s)
  <2>1. stream' = [stream EXCEPT ![s] = [stream[s] EXCEPT !.left = 0]]
    BY <1>1, <1>4 DEF Drain, StreamRec
  <2> QED BY <1>1, <2>1 DEF StreamRec
<1>5. CASE BreakStream(s)
  <2>1. stream' = [stream EXCEPT ![s] = [stream[s] EXCEPT !.left = 0, !.cut = (stream[s].left > 0)]]
    BY <1>1, <1>5, Zenon DEF BreakStream, StreamRec
  <2> QED BY <1>1, <2>1 DEF StreamRec
<1>6. CASE Finish(s)
  <2>1. stream' = [stream EXCEPT ![s] = IF stream[s].rx = "gone" THEN Dead
                                           ELSE [stream[s] EXCEPT !.tx = FALSE, !.c = NoConn]]
    BY <1>1, <1>6 DEF Finish
  <2> QED BY <1>1, <1>2, <2>1 DEF StreamRec
<1> QED BY <1>3, <1>4, <1>5, <1>6 DEF Producer

\* A step keeps the phases.
LEMMA PhasesStep == Inv /\ [Next]_vars => Phases'
<1> SUFFICES ASSUME Inv, [Next]_vars PROVE Phases' OBVIOUS
<1>1. TypeOK /\ Phases /\ WriteRoom /\ Apart /\ Windows BY DEF Inv
<1>2. engine' \in EngineRec BY <1>1, EngineTypes
<1>3. stream \in [Streams -> StreamRec] /\ \A s \in Streams : stream[s] \in StreamRec BY <1>1, Types
<1>4. ASSUME engine' = Ready PROVE Phases' BY <1>2, <1>4, EngineFields DEF Phases
<1>5. ASSUME CloseAll PROVE Phases'
  <2>1. \A s \in Streams : stream'[s].rx = "gone" BY <1>3, <1>5, DroppedRec DEF CloseAll
  <2> QED BY <1>2, <1>5, <2>1, EngineFields DEF Phases, CloseAll
<1>6. CASE Begin \/ CloseCursor \/ CursorError
  BY <1>1, <1>6 DEF Begin, CloseCursor, CursorError, Phases
<1>7. CASE \E kind \in {"write", "read", "describe"} : Statement(kind)
  BY <1>2, <1>7 DEF Statement, Phases, Ready
<1>8. CASE \E kind \in {"commit", "rollback"} : TakeToFinish(kind)
  BY <1>2, <1>8 DEF TakeToFinish, Phases, Ready
<1>9. CASE Declare BY <1>2, <1>9 DEF Declare, Phases, Ready
<1>10. CASE ResumePortal
  <2>1. PICK s \in Streams : /\ stream' = [stream EXCEPT ![s].rx = "writer"]
                             /\ engine' = [Ready EXCEPT !.pc = "relay", !.s = s]
    BY <1>10, Zenon DEF ResumePortal
  <2>2. stream'[s].rx = "writer" BY <1>3, <2>1 DEF StreamRec
  <2>3. engine'.pc = "relay" /\ engine'.c = NoConn /\ engine'.s = s BY <2>1 DEF Ready
  <2> QED BY <1>2, <2>2, <2>3 DEF Phases
<1>11. CASE Fetch
  <2>1. PICK s \in Streams :
          /\ stream[s].rx \in {"cursor", "hold"} /\ stream' = stream
          /\ \/ engine' = [Ready EXCEPT !.pc = "health", !.c = lease, !.s = s] /\ lease # NoConn
             \/ engine' = [Ready EXCEPT !.pc = "fetch", !.s = s]
    BY <1>11, Zenon DEF Fetch
  <2>2. engine'.s = s /\ \/ engine'.pc = "health" /\ engine'.c = lease /\ lease # NoConn
                         \/ engine'.pc = "fetch" /\ engine'.c = NoConn
    BY <2>1, Zenon DEF Ready
  <2>3. lease \in Conns \cup {NoConn} BY <1>1, Types
  <2> QED BY <1>2, <2>1, <2>2, <2>3 DEF Phases
<1>12. CASE take_or_acquire_lease
  <2>1. PICK c \in Conns : engine' = [engine EXCEPT !.pc = "run", !.c = c]
    BY <1>1, <1>12, Types, Zenon DEF take_or_acquire_lease
  <2>2. engine'.pc = "run" /\ engine'.c = c /\ engine'.kind = engine.kind
    BY <1>1, <2>1 DEF Phases, EngineRec
  <2>3. engine.kind \in {"write", "read", "describe", "declare"}
    BY <1>1, <1>12, Zenon DEF Phases, take_or_acquire_lease
  <2> QED BY <1>2, <2>2, <2>3 DEF Phases
<1>13. CASE RunStream
  <2>1. engine' = Ready \/ (/\ engine.kind = "read"
                            /\ \E s \in Streams : /\ engine' = [Ready EXCEPT !.pc = "relay", !.s = s]
                                                  /\ stream'[s].rx = "writer")
    <3>1. PICK s \in First({x \in Streams : stream[x] = Dead}), n \in Sizes,
               holder \in IF engine.kind = "read" THEN {"writer"} ELSE {"cursor", "hold"} :
            /\ stream' = [stream EXCEPT ![s] =
                         [tx |-> TRUE, rx |-> holder, c |-> engine.c,
                          inTxn |-> engine.inTxn, left |-> n, chan |-> 0,
                          pre |-> 0, due |-> n, cut |-> FALSE]]
            /\ engine' = IF engine.kind = "read" THEN [Ready EXCEPT !.pc = "relay", !.s = s]
                                                 ELSE Ready
      BY <1>13, Zenon DEF RunStream
    <3>2. s \in Streams BY <3>1 DEF First
    <3>3. stream'[s].rx = holder BY <1>3, <3>1, <3>2
    <3> QED BY <3>1, <3>2, <3>3, Zenon
  <2>2. CASE engine' # Ready
    <3>1. PICK s \in Streams : /\ engine' = [Ready EXCEPT !.pc = "relay", !.s = s]
                               /\ stream'[s].rx = "writer"
      BY <2>1, <2>2, Zenon
    <3>2. engine'.pc = "relay" /\ engine'.c = NoConn /\ engine'.s = s BY <3>1 DEF Ready
    <3> QED BY <1>2, <3>1, <3>2 DEF Phases
  <2> QED BY <1>4, <2>2
<1>14. CASE RelayWindow \/ FetchWindow
  <2>1. /\ engine.s \in Streams /\ stream[engine.s].rx # "gone" /\ HasWindow(stream[engine.s])
        /\ stream' = [stream EXCEPT ![engine.s] = Polled(stream[engine.s])]
        /\ engine' = engine \/ engine' = Ready
        /\ engine.pc \in {"relay", "fetch"}
    BY <1>1, <1>3, <1>14 DEF RelayWindow, FetchWindow, Phases
  <2>2. Polled(stream[engine.s]).rx = stream[engine.s].rx BY <1>1, <1>3, <2>1, PolledRec DEF Windows
  <2>3. stream'[engine.s].rx = stream[engine.s].rx BY <1>3, <2>1, <2>2
  <2>4. CASE engine' = engine BY <1>1, <2>1, <2>3, <2>4 DEF Phases
  <2> QED BY <1>4, <2>1, <2>4
<1>15. CASE check_session_health
  <2>1. CASE engine' = [Ready EXCEPT !.pc = "fetch", !.s = engine.s] /\ stream' = stream
    <3>1. engine'.pc = "fetch" /\ engine'.c = NoConn /\ engine'.s = engine.s BY <2>1 DEF Ready
    <3>2. engine.s \in Streams /\ stream[engine.s].rx \in {"cursor", "hold"}
      BY <1>1, <1>15 DEF Phases, check_session_health
    <3> QED BY <1>2, <2>1, <3>1, <3>2 DEF Phases
  <2> QED BY <1>4, <1>15, <2>1 DEF check_session_health
<1>16. CASE AcquireFails \/ RunReject \/ RunBreak \/ Quit
  BY <1>4, <1>5, <1>16 DEF AcquireFails, RunReject, RunBreak, Quit
<1>17. CASE RunWrite \/ RunDescribe \/ RunRejectBegin \/ RelayEnd \/ HoldPortal \/ FetchEnd
            \/ FinishNone \/ FinishOk \/ FinishFails
  BY <1>4, <1>17, Zenon DEF RunWrite, RunDescribe, RunRejectBegin, RelayEnd, HoldPortal, FetchEnd,
    FinishNone, FinishOk, FinishFails, Concluded
<1>18. ASSUME NEW s \in Streams, Producer(s) PROVE Phases'
  <2>1. \A x \in Streams : stream'[x].rx = stream[x].rx BY <1>1, <1>18, ReceiverKept
  <2>2. engine' = engine BY <1>18 DEF Producer, Produce, Drain, BreakStream, Finish
  <2>3. engine.pc = "closed" => UNCHANGED <<lease, idle>>
    BY <1>18 DEF Producer, Produce, Drain, BreakStream, Finish, Returned
  <2> QED BY <1>1, <2>1, <2>2, <2>3 DEF Phases
<1>19. CASE UNCHANGED vars BY <1>1, <1>19 DEF Phases, vars
<1> QED BY <1>6, <1>7, <1>8, <1>9, <1>10, <1>11, <1>12, <1>13, <1>14, <1>15, <1>16, <1>17, <1>18, <1>19
  DEF Next, Continue, Command

\* A command starts to write only while a write is left.
LEMMA WriteRoomStep == Inv /\ [Next]_vars => WriteRoom'
<1> SUFFICES ASSUME Inv, [Next]_vars PROVE WriteRoom' OBVIOUS
<1>1. TypeOK /\ Phases /\ WriteRoom BY DEF Inv
<1>4. ASSUME UNCHANGED asked,
             \/ ~(engine'.pc \in {"take", "run"} /\ engine'.kind = "write")
             \/ engine'.kind = engine.kind /\ engine.pc \in {"take", "run"}
             \/ engine' = engine
      PROVE  WriteRoom'
  BY <1>1, <1>4 DEF WriteRoom
<1>5. CASE RunWrite
  <2>1. engine'.pc = "ready" BY <1>5, EngineFields DEF RunWrite
  <2> QED BY <2>1 DEF WriteRoom
<1>6. CASE \E kind \in {"write", "read", "describe"} : Statement(kind)
  <2>1. PICK kind \in {"write", "read", "describe"} : Statement(kind) BY <1>6
  <2>2. UNCHANGED asked /\ engine'.kind = kind /\ (kind = "write" => DOMAIN asked # Writes)
    BY <2>1 DEF Statement, history, Ready
  <2> QED BY <2>2 DEF WriteRoom
<1>7. CASE take_or_acquire_lease
  <2>1. engine.pc = "take" /\ engine'.kind = engine.kind /\ UNCHANGED asked
    BY <1>1, <1>7, Zenon DEF take_or_acquire_lease, history, Phases, EngineRec
  <2> QED BY <1>4, <2>1
<1>8. CASE Declare \/ ResumePortal \/ Fetch \/ RunStream \/ check_session_health \/ FetchWindow
           \/ \E kind \in {"commit", "rollback"} : TakeToFinish(kind)
  <2>1. UNCHANGED asked
    BY <1>8, Zenon DEF Declare, ResumePortal, Fetch, RunStream, check_session_health, FetchWindow, TakeToFinish, history
  <2>2. engine'.kind # "write" \/ engine' = engine
    BY <1>8, EngineFields, Zenon
    DEF Declare, ResumePortal, Fetch, RunStream, check_session_health, FetchWindow, TakeToFinish, Ready
  <2> QED BY <1>4, <2>1, <2>2
<1>9. CASE AcquireFails \/ RunReject \/ RunBreak \/ Quit \/ RunDescribe \/ RunRejectBegin \/ RelayEnd
           \/ HoldPortal \/ FetchEnd \/ FinishNone \/ FinishOk \/ FinishFails
  <2>1. UNCHANGED asked /\ (engine' = Ready \/ engine' = Closed)
    BY <1>9, Zenon DEF AcquireFails, RunReject, RunBreak, Quit, CloseAll, RunDescribe, RunRejectBegin,
      RelayEnd, HoldPortal, FetchEnd, FinishNone, FinishOk, FinishFails, Concluded, history
  <2> QED BY <1>4, <2>1, EngineFields
<1>10. CASE Begin \/ CloseCursor \/ CursorError \/ RelayWindow \/ (\E s \in Streams : Producer(s))
            \/ UNCHANGED vars
  <2>1. UNCHANGED asked /\ engine' = engine
    BY <1>10, Zenon DEF Begin, CloseCursor, CursorError, RelayWindow, Producer, Produce, Drain, BreakStream,
      Finish, vars, history
  <2> QED BY <1>4, <2>1
<1> QED BY <1>5, <1>6, <1>7, <1>8, <1>9, <1>10 DEF Next, Continue, Command

-----------------------------------------------------------------------------
(* One owner                                                               *)

(* The steps that neither start nor end a producer.                          *)
Steady ==
  \/ take_or_acquire_lease \/ AcquireFails
  \/ RunWrite \/ RunDescribe \/ RunReject \/ RunRejectBegin \/ RunBreak
  \/ RelayWindow \/ RelayEnd \/ HoldPortal
  \/ check_session_health \/ FetchWindow \/ FetchEnd
  \/ FinishNone \/ FinishOk \/ FinishFails
  \/ Command
  \/ \E s \in Streams : Produce(s) \/ Drain(s) \/ BreakStream(s)
  \/ UNCHANGED vars

\* They leave what the producers own alone.
LEMMA ProducersKept ==
  ASSUME Inv, Steady
  PROVE  \A s \in Streams : /\ stream'[s].tx = stream[s].tx /\ stream'[s].c = stream[s].c
                            /\ stream[s].tx => stream'[s].inTxn = stream[s].inTxn
<1> DEFINE P(r, q) == r.tx = q.tx /\ r.c = q.c /\ (q.tx => r.inTxn = q.inTxn)
           Goal == \A s \in Streams : P(stream'[s], stream[s])
<1> SUFFICES Goal OBVIOUS
<1>1. TypeOK /\ Phases /\ Apart /\ Windows BY DEF Inv
<1>2. stream \in [Streams -> StreamRec] /\ \A s \in Streams : stream[s] \in StreamRec BY <1>1, Types
<1>3. \A s \in Streams : P(Dropped(stream[s]), stream[s])
  <2>1. \A s \in Streams : ~stream[s].tx => stream[s].c = NoConn BY <1>1 DEF Apart
  <2> QED BY <1>2, <2>1, DroppedRec
<1>4. ASSUME UNCHANGED stream PROVE Goal BY <1>4
<1>5. ASSUME NEW h, stream' = Without(h) PROVE Goal BY <1>1, <1>3, <1>5, WithoutRec
<1>6. ASSUME CloseAll PROVE Goal BY <1>3, <1>6 DEF CloseAll
<1>7. ASSUME NEW s \in Streams, NEW r, stream' = [stream EXCEPT ![s] = r], P(r, stream[s]) PROVE Goal
  BY <1>2, <1>7
<1>8. CASE Begin \/ CloseCursor \/ FinishNone \/ FinishOk \/ FinishFails
           \/ (\E kind \in {"write", "read", "describe"} : Statement(kind))
           \/ (\E kind \in {"commit", "rollback"} : TakeToFinish(kind))
  <2>1. \E h : stream' = Without(h)
    BY <1>8, Zenon DEF Begin, CloseCursor, FinishNone, FinishOk, FinishFails, Concluded, Statement, TakeToFinish
  <2> QED BY <1>5, <2>1
<1>9. CASE RelayWindow \/ FetchWindow
  <2>1. /\ engine.s \in Streams /\ stream[engine.s].rx # "gone" /\ HasWindow(stream[engine.s])
        /\ stream' = [stream EXCEPT ![engine.s] = Polled(stream[engine.s])]
    BY <1>1, <1>9, Zenon DEF RelayWindow, FetchWindow, Phases
  <2>2. P(Polled(stream[engine.s]), stream[engine.s]) BY <1>1, <1>2, <2>1, PolledRec, Zenon DEF Windows
  <2> HIDE DEF P, Goal
  <2> QED BY <1>7, <2>1, <2>2, Zenon
<1>10. CASE HoldPortal
  <2> DEFINE q == [PolledAhead(stream[engine.s]) EXCEPT !.rx = "portal"]
  <2>1. /\ engine.s \in Streams /\ stream[engine.s].rx # "gone" /\ HasWindow(stream[engine.s])
        /\ stream' = [stream EXCEPT ![engine.s] = q]
    BY <1>1, <1>10 DEF HoldPortal, Phases
  <2>2. P(q, stream[engine.s]) BY <1>1, <1>2, <2>1, PolledAheadRec DEF Windows
  <2> HIDE DEF P, Goal, q
  <2> QED BY <1>7, <2>1, <2>2, Zenon
<1>11. CASE ResumePortal
  <2>1. PICK s \in Streams : stream' = [stream EXCEPT ![s].rx = "writer"] BY <1>11, Zenon DEF ResumePortal
  <2> QED BY <1>2, <2>1 DEF StreamRec
<1>12. CASE check_session_health
  <2>1. UNCHANGED stream \/ stream' = [stream EXCEPT ![engine.s] = Dropped(stream[engine.s])]
    BY <1>12 DEF check_session_health
  <2>2. engine.s \in Streams BY <1>1, <1>12 DEF check_session_health, Phases
  <2> HIDE DEF P, Goal
  <2> QED BY <1>3, <1>4, <1>7, <2>1, <2>2
<1>13. CASE AcquireFails \/ RunReject \/ RunBreak \/ Quit
  BY <1>4, <1>6, <1>13 DEF AcquireFails, RunReject, RunBreak, Quit
<1>14. CASE RelayEnd
  <2>1. engine.s \in Streams /\ ~stream[engine.s].tx /\ stream' = [stream EXCEPT ![engine.s] = Dead]
    BY <1>1, <1>14 DEF RelayEnd, Phases, Ended
  <2>2. stream[engine.s].c = NoConn /\ stream[engine.s].tx = FALSE BY <1>1, <1>2, <2>1 DEF Apart, StreamRec
  <2>3. Dead.c = NoConn /\ Dead.tx = FALSE BY DEF Dead
  <2>4. P(Dead, stream[engine.s]) BY <2>2, <2>3, Zenon
  <2> HIDE DEF P, Goal
  <2> QED BY <1>7, <2>1, <2>4, Zenon
<1>15. CASE CursorError \/ Declare \/ Fetch \/ take_or_acquire_lease \/ RunWrite \/ RunDescribe
            \/ RunRejectBegin \/ FetchEnd \/ UNCHANGED vars
  <2>1. UNCHANGED stream
    BY <1>15, Zenon DEF CursorError, Declare, Fetch, take_or_acquire_lease, RunWrite, RunDescribe,
      RunRejectBegin, FetchEnd, vars
  <2> QED BY <1>4, <2>1
<1>16. ASSUME NEW s \in Streams, Produce(s) \/ Drain(s) \/ BreakStream(s) PROVE Goal
  <2>1. \/ stream' = [stream EXCEPT ![s] = [stream[s] EXCEPT !.left = stream[s].left - 1, !.chan = stream[s].chan + 1]]
        \/ stream' = [stream EXCEPT ![s] = [stream[s] EXCEPT !.left = 0]]
        \/ stream' = [stream EXCEPT ![s] = [stream[s] EXCEPT !.left = 0, !.cut = (stream[s].left > 0)]]
    BY <1>2, <1>16 DEF Produce, Drain, BreakStream, StreamRec
  <2>2. /\ P([stream[s] EXCEPT !.left = stream[s].left - 1, !.chan = stream[s].chan + 1], stream[s])
        /\ P([stream[s] EXCEPT !.left = 0], stream[s])
        /\ P([stream[s] EXCEPT !.left = 0, !.cut = (stream[s].left > 0)], stream[s])
    BY <1>2 DEF StreamRec
  <2> HIDE DEF P, Goal
  <2> QED BY <1>7, <2>1, <2>2
<1> QED BY <1>8, <1>9, <1>10, <1>11, <1>12, <1>13, <1>14, <1>15, <1>16, Zenon DEF Steady, Command

\* A step gives no connection a second owner.
LEMMA ApartStep == Inv /\ [Next]_vars => Apart'
<1> SUFFICES ASSUME Inv, [Next]_vars PROVE Apart' OBVIOUS
<1>1. TypeOK /\ Phases /\ Apart BY DEF Inv
<1>2. stream \in [Streams -> StreamRec] BY <1>1, Types
<1>3. /\ lease \in Conns \cup {NoConn} /\ idle \subseteq Conns /\ NoConn \notin Conns
      /\ engine.c \in Conns \cup {NoConn}
  BY <1>1, Types, Names
<1> DEFINE Same == \A s \in Streams : stream'[s].tx = stream[s].tx /\ stream'[s].c = stream[s].c
<1>4. ASSUME Steady PROVE Same BY <1>4, ProducersKept
<1>5. ASSUME Same, engine'.c = engine.c, UNCHANGED <<lease, idle>> PROVE Apart'
  BY <1>1, <1>5 DEF Apart
<1>6. ASSUME Same, lease' = NoConn, idle' = {}, engine'.c = NoConn PROVE Apart'
  BY <1>1, <1>3, <1>6, Zenon DEF Apart
<1>7. ASSUME Same, engine.c \in Conns, engine'.c = NoConn,
             Store(engine.c) \/ (idle' = idle \cup {engine.c} /\ UNCHANGED lease)
      PROVE  Apart'
  BY <1>1, <1>3, <1>7 DEF Apart, Store
<1>8. ASSUME Same, lease \in Conns, engine.c = NoConn, engine'.c = lease, lease' = NoConn, UNCHANGED idle
      PROVE  Apart'
  BY <1>1, <1>3, <1>8 DEF Apart
<1>9. CASE RunWrite \/ RunDescribe \/ RunReject \/ RunRejectBegin \/ RunBreak
  <2>1. Same BY <1>4, <1>9 DEF Steady
  <2>2. engine.c \in Conns
    BY <1>1, <1>9 DEF Phases, RunWrite, RunDescribe, RunReject, RunRejectBegin, RunBreak
  <2>3. \/ CloseAll
        \/ /\ engine'.c = NoConn
           /\ PutBack(engine.c) \/ (idle' = idle \cup {engine.c} /\ UNCHANGED lease)
    BY <1>9, EngineFields DEF RunWrite, RunDescribe, RunReject, RunRejectBegin, RunBreak
  <2> HIDE DEF Same
  <2> QED BY <1>6, <1>7, <2>1, <2>2, <2>3, EngineFields DEF PutBack, CloseAll
<1>10. CASE AcquireFails \/ Quit
  <2>1. Same BY <1>4, <1>10 DEF Steady, Command
  <2>2. CloseAll \/ (engine' = Ready /\ engine.pc = "take" /\ UNCHANGED <<lease, idle>>)
    BY <1>10 DEF AcquireFails, Quit
  <2>3. engine.pc = "take" => engine.c = NoConn BY <1>1 DEF Phases
  <2> HIDE DEF Same
  <2> QED BY <1>5, <1>6, <2>1, <2>2, <2>3, EngineFields DEF CloseAll
<1>11. CASE Begin \/ CloseCursor \/ CursorError \/ RelayWindow \/ UNCHANGED vars
            \/ \E s \in Streams : Produce(s) \/ Drain(s) \/ BreakStream(s)
  <2>1. Same BY <1>4, <1>11 DEF Steady, Command
  <2>2. engine' = engine /\ UNCHANGED <<lease, idle>>
    BY <1>11, Zenon DEF Begin, CloseCursor, CursorError, RelayWindow, Produce, Drain, BreakStream, vars
  <2> HIDE DEF Same
  <2> QED BY <1>5, <2>1, <2>2
<1>12. CASE RelayEnd \/ HoldPortal \/ FetchWindow \/ FetchEnd \/ FinishNone \/ Declare \/ ResumePortal
            \/ \E kind \in {"write", "read", "describe"} : Statement(kind)
  <2>1. Same BY <1>4, <1>12 DEF Steady, Command
  <2>2. engine.c = NoConn
    BY <1>1, <1>12, Zenon DEF RelayEnd, HoldPortal, FetchWindow, FetchEnd, FinishNone, Declare, ResumePortal,
      Statement, Phases
  <2>3. engine'.c = NoConn
    BY <1>12, <2>2, EngineFields, Zenon
    DEF RelayEnd, HoldPortal, FetchWindow, FetchEnd, FinishNone, Concluded, Declare, ResumePortal,
      Statement, Ready
  <2>4. UNCHANGED <<lease, idle>>
    BY <1>12, Zenon DEF RelayEnd, HoldPortal, FetchWindow, FetchEnd, FinishNone, Declare, ResumePortal, Statement
  <2> HIDE DEF Same
  <2> QED BY <1>5, <2>1, <2>2, <2>3, <2>4
<1>13. CASE Fetch \/ \E kind \in {"commit", "rollback"} : TakeToFinish(kind)
  <2>1. Same BY <1>4, <1>13 DEF Steady, Command
  <2>2. engine.c = NoConn BY <1>1, <1>13, Zenon DEF Fetch, TakeToFinish, Phases
  <2>3. /\ UNCHANGED idle
        /\ \/ engine'.c = NoConn /\ UNCHANGED lease
           \/ engine'.c = lease /\ lease' = NoConn
    BY <1>13, Zenon DEF Fetch, TakeToFinish, Ready
  <2> HIDE DEF Same
  <2> QED BY <1>3, <1>5, <1>8, <2>1, <2>2, <2>3
<1>14. CASE take_or_acquire_lease
  <2>1. Same BY <1>4, <1>14 DEF Steady
  <2>2. engine.c = NoConn BY <1>1, <1>14, Zenon DEF take_or_acquire_lease, Phases
  <2>3. CASE lease \in Conns /\ engine' = [engine EXCEPT !.pc = "run", !.c = lease] /\ lease' = NoConn /\ UNCHANGED idle
    <3>1. engine'.c = lease BY <1>1, <2>3 DEF Phases, EngineRec
    <3> HIDE DEF Same
    <3> QED BY <1>8, <2>1, <2>2, <2>3, <3>1
  <2>4. ASSUME NEW c \in Conns, Acquire(c), engine' = [engine EXCEPT !.pc = "run", !.c = c], UNCHANGED lease
        PROVE  Apart'
    <3>1. engine'.c = c BY <1>1, <2>4 DEF Phases, EngineRec
    <3>2. c \in idle \/ c \notin Used BY <2>4 DEF Acquire, First
    <3>3. c # lease /\ \A s \in Streams : stream[s].tx => stream[s].c # c
      BY <1>1, <2>4, <3>2 DEF Used, Apart
    <3>4. idle' = idle \ {c} BY <2>4 DEF Acquire
    <3> QED BY <1>1, <2>1, <2>4, <3>1, <3>3, <3>4 DEF Apart
  <2> QED BY <1>3, <1>14, <2>3, <2>4, Zenon DEF take_or_acquire_lease
<1>15. CASE check_session_health
  <2>1. Same BY <1>4, <1>15 DEF Steady
  <2>2. engine.c \in Conns BY <1>1, <1>15 DEF check_session_health, Phases
  <2>3. engine'.c = NoConn BY <1>15, EngineFields, Zenon DEF check_session_health, Ready
  <2>4. Store(engine.c) \/ (idle' = idle \cup {engine.c} /\ UNCHANGED lease)
    BY <1>15 DEF check_session_health
  <2> HIDE DEF Same
  <2> QED BY <1>7, <2>1, <2>2, <2>3, <2>4
<1>16. CASE FinishOk \/ FinishFails
  <2>1. Same BY <1>4, <1>16 DEF Steady
  <2>2. engine.c \in Conns /\ idle' = idle \cup {engine.c} /\ UNCHANGED lease
    BY <1>3, <1>16 DEF FinishOk, FinishFails
  <2>3. engine'.c = NoConn BY <1>16, EngineFields DEF FinishOk, FinishFails, Concluded
  <2> HIDE DEF Same
  <2> QED BY <1>7, <2>1, <2>2, <2>3
<1>17. CASE RunStream
  <2>1. PICK s \in Streams : \E r : /\ stream[s] = Dead /\ stream' = [stream EXCEPT ![s] = r]
                                    /\ r.tx = TRUE /\ r.c = engine.c
    <3>1. PICK s \in First({x \in Streams : stream[x] = Dead}), n \in Sizes,
               holder \in IF engine.kind = "read" THEN {"writer"} ELSE {"cursor", "hold"} :
            stream' = [stream EXCEPT ![s] =
                         [tx |-> TRUE, rx |-> holder, c |-> engine.c,
                          inTxn |-> engine.inTxn, left |-> n, chan |-> 0,
                          pre |-> 0, due |-> n, cut |-> FALSE]]
      BY <1>17, Zenon DEF RunStream
    <3> DEFINE r == [tx |-> TRUE, rx |-> holder, c |-> engine.c,
                     inTxn |-> engine.inTxn, left |-> n, chan |-> 0,
                     pre |-> 0, due |-> n, cut |-> FALSE]
    <3>2. s \in Streams /\ stream[s] = Dead BY <3>1 DEF First
    <3>3. stream' = [stream EXCEPT ![s] = r] /\ r.tx = TRUE /\ r.c = engine.c BY <3>1
    <3> HIDE DEF r
    <3> QED BY <3>2, <3>3, Zenon
  <2>2. engine.c \in Conns /\ UNCHANGED <<lease, idle>> BY <1>1, <1>17 DEF RunStream, Phases
  <2>3. engine'.c = NoConn BY <1>17, EngineFields DEF RunStream, Ready
  <2>4. stream'[s].tx /\ stream'[s].c = engine.c BY <1>2, <2>1
  <2>5. \A t \in Streams \ {s} : stream'[t] = stream[t] BY <1>2, <2>1
  <2>6. \A t \in Streams : stream[t].tx => stream[t].c \in Conns /\ stream[t].c # engine.c
    BY <1>1 DEF Apart
  <2> QED BY <1>1, <1>3, <2>2, <2>3, <2>4, <2>5, <2>6 DEF Apart
<1>18. ASSUME NEW s \in Streams, Finish(s) PROVE Apart'
  <2>1. stream[s].tx /\ stream[s].c \in Conns BY <1>1, <1>18 DEF Apart, Finish
  <2>2. engine' = engine BY <1>18 DEF Finish
  <2>3. \A t \in Streams \ {s} : stream'[t] = stream[t] BY <1>2, <1>18 DEF Finish
  <2>4. ~stream'[s].tx /\ stream'[s].c = NoConn BY <1>2, <1>18 DEF Finish, Dead, StreamRec
  <2>5. \/ UNCHANGED <<lease, idle>>
        \/ Store(stream[s].c)
        \/ idle' = idle \cup {stream[s].c} /\ UNCHANGED lease
    BY <1>18 DEF Finish, Returned
  <2> QED BY <1>1, <1>3, <2>1, <2>2, <2>3, <2>4, <2>5 DEF Apart, Store
<1> QED BY <1>9, <1>10, <1>11, <1>12, <1>13, <1>14, <1>15, <1>16, <1>17, <1>18
  DEF Next, Continue, Command, Producer

\* Apart leaves every connection at most one owner.
LEMMA ApartOneOwner == Apart => OneOwner
<1> SUFFICES ASSUME Apart, NEW c \in Conns
             PROVE  \A o, p \in {<<"idle", x>> : x \in {c} \cap idle}
                      \cup {<<"lease", x>> : x \in {c} \cap {lease}}
                      \cup {<<"engine", x>> : x \in {c} \cap {engine.c}}
                      \cup {<<"producer", s>> : s \in {x \in Streams : stream[x].tx /\ stream[x].c = c}} : o = p
  BY DEF OneOwner
<1> DEFINE I == {<<"idle", x>> : x \in {c} \cap idle}
           L == {<<"lease", x>> : x \in {c} \cap {lease}}
           E == {<<"engine", x>> : x \in {c} \cap {engine.c}}
           P == {<<"producer", s>> : s \in {x \in Streams : stream[x].tx /\ stream[x].c = c}}
<1>1. c # NoConn BY Names
<1>2. /\ c \in idle => c # lease /\ c # engine.c /\ \A s \in Streams : stream[s].tx => stream[s].c # c
      /\ c = lease => c # engine.c /\ \A s \in Streams : stream[s].tx => stream[s].c # c
      /\ c = engine.c => \A s \in Streams : stream[s].tx => stream[s].c # c
      /\ \A s, t \in Streams : stream[s].tx /\ stream[t].tx /\ stream[s].c = c /\ stream[t].c = c => s = t
  BY <1>1 DEF Apart
<1>3. \E o : I \cup L \cup E \cup P \subseteq {o}
  <2>1. CASE c \in idle
    <3>1. I \cup L \cup E \cup P \subseteq {<<"idle", c>>} BY <1>2, <2>1
    <3> QED BY <3>1
  <2>2. CASE c = lease
    <3>1. I \cup L \cup E \cup P \subseteq {<<"lease", c>>} BY <1>2, <2>2
    <3> QED BY <3>1
  <2>3. CASE c = engine.c
    <3>1. I \cup L \cup E \cup P \subseteq {<<"engine", c>>} BY <1>2, <2>3
    <3> QED BY <3>1
  <2>4. CASE c \notin idle /\ c # lease /\ c # engine.c
    <3>1. I = {} /\ L = {} /\ E = {} BY <2>4
    <3>2. CASE P = {} BY <3>1, <3>2
    <3>3. CASE P # {}
      <4>1. PICK s \in Streams : stream[s].tx /\ stream[s].c = c BY <3>3
      <4>2. P \subseteq {<<"producer", s>>} BY <1>2, <4>1
      <4> HIDE DEF P
      <4> QED BY <3>1, <4>2
    <3> QED BY <3>2, <3>3
  <2> QED BY <2>1, <2>2, <2>3, <2>4, Zenon
<1> HIDE DEF I, L, E, P
<1>4. PICK o : I \cup L \cup E \cup P \subseteq {o} BY <1>3
<1>5. \A x, y \in I \cup L \cup E \cup P : x = y BY <1>4
<1> QED BY <1>5, Zenon DEF I, L, E, P

-----------------------------------------------------------------------------
(* Complete results                                                        *)

\* A connection that broke under its producer stays broken while the producer
\* has it: no step of the engine or of the pool touches it.
LEMMA DownStays ==
  ASSUME Inv, [Next]_vars, NEW s \in Streams, stream[s].tx, stream'[s].tx, ~conn[stream[s].c].up
  PROVE  ~conn'[stream[s].c].up
<1> DEFINE d == stream[s].c
<1>1. TypeOK /\ Phases /\ Apart BY DEF Inv
<1>2. conn \in [Conns -> ConnRec] /\ stream \in [Streams -> StreamRec] BY <1>1, Types
<1>3. d \in Conns /\ d \notin idle /\ d # engine.c /\ d \in Used BY <1>1 DEF Apart, Used
<1>4. ASSUME UNCHANGED conn PROVE ~conn'[d].up BY <1>4
<1>5. ASSUME NEW k, conn' = [conn EXCEPT ![engine.c] = k] PROVE ~conn'[d].up BY <1>2, <1>3, <1>5
<1>6. ASSUME CloseAll PROVE ~conn'[d].up BY <1>3, <1>6 DEF CloseAll
<1>7. CASE RunWrite \/ RunStream \/ RunReject \/ RunBreak \/ FinishOk \/ FinishFails \/ check_session_health
           \/ AcquireFails \/ Quit
  <2>1. CloseAll \/ UNCHANGED conn \/ (\E k : conn' = [conn EXCEPT ![engine.c] = k])
    BY <1>7, Zenon DEF RunWrite, RunStream, RunReject, RunBreak, FinishOk, FinishFails,
      check_session_health, AcquireFails, Quit
  <2> QED BY <1>4, <1>5, <1>6, <2>1
<1>8. CASE take_or_acquire_lease
  <2>1. ASSUME NEW c \in Conns, Acquire(c) PROVE ~conn'[d].up
    <3>1. c \in idle \/ c \notin Used BY <2>1 DEF Acquire, First
    <3> QED BY <1>2, <1>3, <2>1, <3>1 DEF Acquire
  <2> QED BY <1>4, <1>8, <2>1, Zenon DEF take_or_acquire_lease
<1>9. ASSUME NEW t \in Streams, Producer(t) PROVE ~conn'[d].up
  <2>1. CASE Produce(t) \/ Drain(t) BY <1>4, <2>1 DEF Produce, Drain
  <2>2. CASE BreakStream(t) BY <1>2, <1>3, <2>2 DEF BreakStream, Down, Fresh
  <2>3. CASE Finish(t)
    <3>1. t # s BY <1>2, <2>3 DEF Finish, Dead, StreamRec
    <3>2. stream[t].c # d BY <1>1, <2>3, <3>1 DEF Apart, Finish
    <3>3. UNCHANGED conn \/ conn' = [conn EXCEPT ![stream[t].c] = Fresh] BY <2>3 DEF Finish, Returned
    <3> QED BY <1>2, <1>3, <1>4, <3>2, <3>3
  <2> QED BY <1>9, <2>1, <2>2, <2>3 DEF Producer
<1>10. CASE Begin \/ CursorError \/ CloseCursor \/ ResumePortal \/ Declare \/ Fetch
            \/ (\E kind \in {"write", "read", "describe"} : Statement(kind))
            \/ (\E kind \in {"commit", "rollback"} : TakeToFinish(kind))
  BY <1>4, <1>10, Zenon DEF Begin, CursorError, CloseCursor, ResumePortal, Declare, Fetch, Statement,
    TakeToFinish
<1>11. CASE RunDescribe \/ RunRejectBegin \/ RelayWindow \/ RelayEnd \/ HoldPortal \/ FetchWindow
            \/ FetchEnd \/ FinishNone \/ UNCHANGED vars
  BY <1>4, <1>11, Zenon DEF RunDescribe, RunRejectBegin, RelayWindow, RelayEnd, HoldPortal, FetchWindow,
    FetchEnd, FinishNone, vars
<1> QED BY <1>7, <1>8, <1>9, <1>10, <1>11 DEF Next, Continue, Command

\* A step loses no window.
LEMMA WindowsStep == Inv /\ [Next]_vars => Windows'
<1> SUFFICES ASSUME Inv, [Next]_vars PROVE Windows' OBVIOUS
<1> DEFINE Sound(s) == Whole(stream'[s]) /\ (stream'[s].tx /\ stream'[s].cut => ~conn'[stream'[s].c].up)
           Goal == \A s \in Streams : Sound(s)
<1> SUFFICES Goal BY DEF Windows
<1>1. TypeOK /\ Phases /\ Apart /\ Windows BY DEF Inv
<1>2. stream \in [Streams -> StreamRec] /\ \A s \in Streams : stream[s] \in StreamRec BY <1>1, Types
<1>3. ASSUME NEW s \in Streams, stream'[s] = stream[s] PROVE Sound(s)
  BY <1>1, <1>3, DownStays DEF Windows
<1>4. ASSUME NEW s \in Streams, stream'[s] = Dropped(stream[s]) PROVE Sound(s)
  <2>1. stream'[s].rx = "gone" /\ ~stream'[s].cut BY <1>2, <1>4, DroppedRec
  <2> QED BY <2>1 DEF Whole
<1>5. ASSUME NEW s \in Streams, stream'[s] = Dead PROVE Sound(s) BY <1>5 DEF Dead, Whole
<1>6. ASSUME NEW s \in Streams, Whole(stream'[s]), stream'[s].tx = stream[s].tx, stream'[s].c = stream[s].c,
             stream'[s].cut = stream[s].cut
      PROVE  Sound(s)
  BY <1>1, <1>6, DownStays DEF Windows
<1>7. ASSUME NEW s \in Streams, NEW r, stream' = [stream EXCEPT ![s] = r], Sound(s) PROVE Goal
  <2>1. \A t \in Streams \ {s} : stream'[t] = stream[t] BY <1>2, <1>7
  <2> HIDE DEF Sound
  <2> QED BY <1>3, <1>7, <2>1
<1>8. CASE Begin \/ CloseCursor \/ FinishNone \/ FinishOk \/ FinishFails
           \/ (\E kind \in {"write", "read", "describe"} : Statement(kind))
           \/ (\E kind \in {"commit", "rollback"} : TakeToFinish(kind))
  <2>1. PICK h : stream' = Without(h)
    BY <1>8, Zenon DEF Begin, CloseCursor, FinishNone, FinishOk, FinishFails, Concluded, Statement, TakeToFinish
  <2>2. \A s \in Streams : stream'[s] = Dropped(stream[s]) \/ stream'[s] = stream[s]
    BY <1>1, <2>1, WithoutRec
  <2> HIDE DEF Sound
  <2> QED BY <1>3, <1>4, <2>2
<1>9. CASE AcquireFails \/ RunReject \/ RunBreak \/ Quit
  <2>1. UNCHANGED stream \/ \A s \in Streams : stream'[s] = Dropped(stream[s])
    BY <1>9 DEF AcquireFails, RunReject, RunBreak, Quit, CloseAll
  <2> HIDE DEF Sound
  <2> QED BY <1>3, <1>4, <2>1
<1>10. CASE RelayWindow \/ FetchWindow
  <2>1. /\ engine.s \in Streams /\ stream[engine.s].rx # "gone" /\ HasWindow(stream[engine.s])
        /\ stream' = [stream EXCEPT ![engine.s] = Polled(stream[engine.s])]
    BY <1>1, <1>10 DEF RelayWindow, FetchWindow, Phases
  <2>2. stream'[engine.s] = Polled(stream[engine.s]) BY <1>2, <2>1
  <2>3. Sound(engine.s) BY <1>1, <1>2, <1>6, <2>1, <2>2, PolledRec, Zenon DEF Windows
  <2> HIDE DEF Sound, Goal
  <2> QED BY <1>7, <2>1, <2>3, Zenon
<1>11. CASE HoldPortal
  <2> DEFINE q == [PolledAhead(stream[engine.s]) EXCEPT !.rx = "portal"]
  <2>1. /\ engine.s \in Streams /\ stream[engine.s].rx # "gone" /\ HasWindow(stream[engine.s])
        /\ stream' = [stream EXCEPT ![engine.s] = q]
    BY <1>1, <1>11 DEF HoldPortal, Phases
  <2>2. /\ Whole(q) /\ q.tx = stream[engine.s].tx /\ q.c = stream[engine.s].c
        /\ q.cut = stream[engine.s].cut
    BY <1>1, <1>2, <2>1, PolledAheadRec DEF Windows
  <2>3. stream'[engine.s] = q BY <1>2, <2>1
  <2> HIDE DEF q
  <2>4. Sound(engine.s) BY <1>6, <2>1, <2>2, <2>3, Zenon
  <2> HIDE DEF Sound, Goal
  <2> QED BY <1>7, <2>1, <2>4, Zenon
<1>12. CASE ResumePortal
  <2>1. PICK s \in Streams : stream[s].rx = "portal" /\ stream' = [stream EXCEPT ![s].rx = "writer"]
    BY <1>12, Zenon DEF ResumePortal
  <2>2. stream' = [stream EXCEPT ![s] = [stream[s] EXCEPT !.rx = "writer"]] BY <1>2, <2>1
  <2>3. stream'[s] = [stream[s] EXCEPT !.rx = "writer"] BY <1>2, <2>2
  <2>4. /\ Whole(stream'[s]) /\ stream'[s].tx = stream[s].tx /\ stream'[s].c = stream[s].c
        /\ stream'[s].cut = stream[s].cut
    BY <1>1, <1>2, <2>1, <2>3 DEF Whole, Windows, StreamRec
  <2>5. Sound(s) BY <1>6, <2>4
  <2> HIDE DEF Sound, Goal
  <2> QED BY <1>7, <2>2, <2>5, Zenon
<1>13. CASE check_session_health
  <2>1. UNCHANGED stream \/ stream' = [stream EXCEPT ![engine.s] = Dropped(stream[engine.s])]
    BY <1>13 DEF check_session_health
  <2>2. \A s \in Streams : stream'[s] = Dropped(stream[s]) \/ stream'[s] = stream[s] BY <1>2, <2>1
  <2> HIDE DEF Sound
  <2> QED BY <1>3, <1>4, <2>2
<1>14. CASE RelayEnd
  <2>1. \A s \in Streams : stream'[s] = Dead \/ stream'[s] = stream[s] BY <1>2, <1>14 DEF RelayEnd
  <2> HIDE DEF Sound
  <2> QED BY <1>3, <1>5, <2>1
<1>15. CASE CursorError \/ Declare \/ Fetch \/ take_or_acquire_lease \/ RunWrite \/ RunDescribe
            \/ RunRejectBegin \/ FetchEnd \/ UNCHANGED vars
  <2>1. UNCHANGED stream
    BY <1>15, Zenon DEF CursorError, Declare, Fetch, take_or_acquire_lease, RunWrite, RunDescribe,
      RunRejectBegin, FetchEnd, vars
  <2> HIDE DEF Sound
  <2> QED BY <1>3, <2>1
<1>16. CASE RunStream
  <2>1. PICK s \in Streams, n \in Sizes : \E r :
          /\ stream' = [stream EXCEPT ![s] = r]
          /\ r.left = n /\ r.chan = 0 /\ r.pre = 0 /\ r.due = n /\ r.cut = FALSE /\ r.tx = TRUE
    <3>1. PICK s \in First({x \in Streams : stream[x] = Dead}), n \in Sizes,
               holder \in IF engine.kind = "read" THEN {"writer"} ELSE {"cursor", "hold"} :
            stream' = [stream EXCEPT ![s] =
                         [tx |-> TRUE, rx |-> holder, c |-> engine.c,
                          inTxn |-> engine.inTxn, left |-> n, chan |-> 0,
                          pre |-> 0, due |-> n, cut |-> FALSE]]
      BY <1>16, Zenon DEF RunStream
    <3> DEFINE r == [tx |-> TRUE, rx |-> holder, c |-> engine.c,
                     inTxn |-> engine.inTxn, left |-> n, chan |-> 0,
                     pre |-> 0, due |-> n, cut |-> FALSE]
    <3>2. s \in Streams BY <3>1 DEF First
    <3>3. /\ stream' = [stream EXCEPT ![s] = r]
          /\ r.left = n /\ r.chan = 0 /\ r.pre = 0 /\ r.due = n /\ r.cut = FALSE /\ r.tx = TRUE
      BY <3>1
    <3> HIDE DEF r
    <3> QED BY <3>1, <3>2, <3>3, Zenon
  <2>2. PICK r : /\ stream' = [stream EXCEPT ![s] = r]
                 /\ r.left = n /\ r.chan = 0 /\ r.pre = 0 /\ r.due = n /\ r.cut = FALSE /\ r.tx = TRUE
    BY <2>1, Zenon
  <2>3. stream'[s] = r /\ n \in Nat BY <1>2, <2>2, BoundsAssumption
  <2>4. Sound(s) BY <2>2, <2>3 DEF Whole
  <2> HIDE DEF Sound, Goal
  <2> QED BY <1>7, <2>2, <2>4, Zenon
<1>17. ASSUME NEW s \in Streams, Produce(s) PROVE Goal
  <2> DEFINE r == [stream[s] EXCEPT !.left = stream[s].left - 1, !.chan = stream[s].chan + 1]
  <2>1. stream' = [stream EXCEPT ![s] = r] BY <1>2, <1>17 DEF Produce, StreamRec
  <2>2. stream'[s] = r BY <1>2, <2>1
  <2>3. /\ r.tx = stream[s].tx /\ r.c = stream[s].c /\ r.cut = stream[s].cut /\ r.rx = stream[s].rx
        /\ r.due = stream[s].due /\ r.pre = stream[s].pre
        /\ r.left = stream[s].left - 1 /\ r.chan = stream[s].chan + 1
    BY <1>2 DEF StreamRec
  <2>4. r.pre + r.chan + r.left = stream[s].pre + stream[s].chan + stream[s].left
    BY <1>2, <2>3, BoundsAssumption DEF StreamRec
  <2>5. stream[s].tx BY <1>17 DEF Produce
  <2> HIDE DEF r
  <2>6. Whole(r) BY <1>1, <2>3, <2>4, <2>5, Zenon DEF Whole, Windows
  <2>7. Sound(s) BY <1>6, <2>2, <2>3, <2>6, Zenon
  <2> HIDE DEF Sound, Goal
  <2> QED BY <1>7, <2>1, <2>7, Zenon
<1>18. ASSUME NEW s \in Streams, Drain(s) PROVE Goal
  <2>1. stream' = [stream EXCEPT ![s] = [stream[s] EXCEPT !.left = 0]] BY <1>2, <1>18 DEF Drain
  <2>2. stream'[s] = [stream[s] EXCEPT !.left = 0] BY <1>2, <2>1
  <2>3. stream'[s].rx = "gone" /\ stream'[s].tx = stream[s].tx /\ stream'[s].c = stream[s].c
        /\ stream'[s].cut = stream[s].cut
    BY <1>2, <1>18, <2>2, Zenon DEF Drain, StreamRec
  <2>4. Sound(s) BY <1>6, <2>3, Zenon DEF Whole
  <2> HIDE DEF Sound, Goal
  <2> QED BY <1>7, <2>1, <2>4, Zenon
<1>19. ASSUME NEW s \in Streams, BreakStream(s) PROVE Goal
  <2> DEFINE b == stream[s].left > 0
             r == [stream[s] EXCEPT !.left = 0, !.cut = b]
  <2>1. stream' = [stream EXCEPT ![s] = r] BY <1>2, <1>19, Zenon DEF BreakStream, StreamRec
  <2>2. stream'[s] = r BY <1>2, <2>1
  <2>3. /\ r.tx = stream[s].tx /\ r.c = stream[s].c /\ r.cut = b /\ r.rx = stream[s].rx
        /\ r.due = stream[s].due /\ r.pre = stream[s].pre /\ r.left = 0 /\ r.chan = stream[s].chan
    BY <1>2 DEF StreamRec
  <2>4. /\ stream[s].left \in Nat /\ stream[s].pre \in Nat /\ stream[s].chan \in Nat /\ stream[s].due \in Nat
        /\ stream[s].tx /\ conn[stream[s].c].up
    BY <1>2, <1>19, BoundsAssumption DEF StreamRec, BreakStream
  <2>5. ~stream[s].cut BY <1>1, <2>4 DEF Windows
  <2>6. Whole(r)
    <3>1. stream[s].rx # "gone" => stream[s].due = stream[s].pre + stream[s].chan + stream[s].left
      BY <1>1, <2>4, <2>5 DEF Windows, Whole
    <3>2. stream[s].rx # "gone" => stream[s].due >= stream[s].pre + stream[s].chan + 0 BY <2>4, <3>1
    <3>3. stream[s].rx # "gone" /\ stream[s].due > stream[s].pre + stream[s].chan + 0 => b
      BY <2>4, <3>1
    <3> HIDE DEF r, b
    <3> QED BY <2>3, <2>4, <3>2, <3>3 DEF Whole
  <2>7. ~conn'[stream[s].c].up
    <3>1. conn \in [Conns -> ConnRec] /\ stream[s].c \in Conns BY <1>1, <2>4, Types DEF Apart
    <3> QED BY <1>19, <3>1 DEF BreakStream, Down, Fresh
  <2> HIDE DEF r
  <2>8. Sound(s) BY <2>2, <2>3, <2>6, <2>7, Zenon
  <2> HIDE DEF Sound, Goal
  <2> QED BY <1>7, <2>1, <2>8, Zenon
<1>20. ASSUME NEW s \in Streams, Finish(s) PROVE Goal
  <2>1. stream' = [stream EXCEPT ![s] = IF stream[s].rx = "gone" THEN Dead
                                           ELSE [stream[s] EXCEPT !.tx = FALSE, !.c = NoConn]]
    BY <1>2, <1>20 DEF Finish
  <2>2. stream'[s] = Dead \/ stream'[s] = [stream[s] EXCEPT !.tx = FALSE, !.c = NoConn] BY <1>2, <2>1
  <2>3. ASSUME stream'[s] = [stream[s] EXCEPT !.tx = FALSE, !.c = NoConn] PROVE Sound(s)
    <3>1. /\ stream'[s].tx = FALSE /\ stream'[s].cut = stream[s].cut /\ stream'[s].rx = stream[s].rx
          /\ stream'[s].due = stream[s].due /\ stream'[s].pre = stream[s].pre
          /\ stream'[s].left = stream[s].left /\ stream'[s].chan = stream[s].chan
      BY <1>2, <2>3 DEF StreamRec
    <3>2. stream[s].left = 0 BY <1>20 DEF Finish
    <3>3. Whole(stream[s]) BY <1>1 DEF Windows
    <3> QED BY <3>1, <3>2, <3>3 DEF Whole
  <2>4. Sound(s) BY <1>5, <2>2, <2>3
  <2> HIDE DEF Sound, Goal
  <2> QED BY <1>7, <2>1, <2>4, Zenon
<1> QED BY <1>8, <1>9, <1>10, <1>11, <1>12, <1>13, <1>14, <1>15, <1>16, <1>17, <1>18, <1>19, <1>20, Zenon
  DEF Next, Continue, Command, Producer

\* A result that ends has all its rows, unless its connection broke.
LEMMA CompleteStep == Inv /\ [Next]_vars => CompleteResults'
<1> SUFFICES ASSUME Inv, [Next]_vars PROVE CompleteResults' OBVIOUS
<1>1. TypeOK /\ Phases /\ Windows /\ "lost" \notin short BY DEF Inv, CompleteResults
<1>2. ASSUME UNCHANGED short PROVE CompleteResults' BY <1>1, <1>2 DEF CompleteResults
<1>3. CASE RelayEnd \/ FetchEnd
  <2> DEFINE r == stream[engine.s]
  <2>1. /\ engine.s \in Streams /\ r.rx # "gone" /\ Ended(r) /\ short' = short \cup Missing(r)
    BY <1>1, <1>3 DEF RelayEnd, FetchEnd, Phases
  <2>2. r \in StreamRec /\ Whole(r) BY <1>1, <2>1, Types DEF Windows
  <2>3. ~r.tx /\ ~(r.pre + r.chan > 0) BY <2>1 DEF Ended, HasWindow
  <2> HIDE DEF r
  <2>4. r.left = 0 /\ (r.due > r.pre + r.chan + r.left => r.cut) BY <2>1, <2>2, <2>3 DEF Whole
  <2>5. r.pre \in Nat /\ r.chan \in Nat /\ r.due \in Nat BY <2>2, BoundsAssumption DEF StreamRec
  <2>6. r.pre + r.chan + r.left = 0 BY <2>3, <2>4, <2>5
  <2>7. r.due > 0 => r.cut BY <2>4, <2>6
  <2>8. "lost" \notin Missing(r)
    <3>1. CASE r.cut BY <3>1 DEF Missing
    <3>2. CASE ~r.cut
      <4>1. 1 .. r.due = {} BY <2>5, <2>7, <3>2
      <4> QED BY <4>1 DEF Missing
    <3> QED BY <3>1, <3>2
  <2> QED BY <1>1, <2>1, <2>8 DEF CompleteResults
<1>4. CASE \/ take_or_acquire_lease \/ AcquireFails
           \/ RunWrite \/ RunStream \/ RunDescribe \/ RunReject \/ RunRejectBegin \/ RunBreak
           \/ RelayWindow \/ HoldPortal \/ check_session_health \/ FetchWindow
           \/ FinishNone \/ FinishOk \/ FinishFails
  BY <1>2, <1>4, Zenon DEF take_or_acquire_lease, AcquireFails, RunWrite, RunStream, RunDescribe, RunReject,
    RunRejectBegin, RunBreak, RelayWindow, HoldPortal, check_session_health, FetchWindow, FinishNone, FinishOk,
    FinishFails, history
<1>5. CASE Command \/ (\E s \in Streams : Producer(s)) \/ UNCHANGED vars
  BY <1>2, <1>5, Zenon DEF Command, Begin, Statement, TakeToFinish, ResumePortal, Declare, Fetch, CloseCursor,
    CursorError, Quit, Producer, Produce, Drain, BreakStream, Finish, vars, history
<1> QED BY <1>3, <1>4, <1>5 DEF Next, Continue

\* The invariant is inductive, whatever the client holds open and whatever
\* fails at its backend.
LEMMA InvHolds == Spec => []Inv
<1>1. Inv /\ [Next]_vars => Inv'
  BY TypeStep, PhasesStep, WriteRoomStep, ApartStep, WindowsStep, CompleteStep DEF Inv
<1> QED BY <1>1, InitInv, PTL DEF Spec

\* A connection has one user, whatever the client holds open and whatever fails
\* at its backend: the queue of the pool, the slot txn_lease, the engine's
\* current command or one producer.
THEOREM ConnectionsAlwaysKept == Spec => []ConnectionsKept
<1>1. Inv => ConnectionsKept BY ApartOneOwner DEF Inv, ConnectionsKept
<1> QED BY <1>1, InvHolds, PTL

\* A result reported complete has every row the backend sent, for every
\* capacity of the channel and every interleaving of the producer, the writer
\* of the response, suspended portals and cursors.
THEOREM ResultsAlwaysComplete == Spec => []CompleteResults
<1>1. Inv => CompleteResults BY DEF Inv
<1> QED BY <1>1, InvHolds, PTL

=============================================================================
