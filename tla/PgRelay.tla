------------------------------- MODULE PgRelay -------------------------------
(***************************************************************************)
(* The sockets of one passthrough client: PostgreSqlBackendConnector of     *)
(* backend/postgresql.rs with the frame relay of backend/pg_tcp_relay.rs.   *)
(* A connector belongs to one client session, so its commands come one      *)
(* after the other; what they leave in the idle pool, in the slot of the    *)
(* transaction and in the slot of an open unit is what the next ones start  *)
(* from.  Frames of an answer are relayed one at a time, and a server may   *)
(* close a socket at any moment.                                            *)
(*                                                                          *)
(* A statement is its number and a kind: a read is routed to the replica    *)
(* and a write to the primary, outside a transaction.  The reads and writes *)
(* of units have parameters, so that one whose frames cannot be sent is     *)
(* bound as text and then demoted to a connection of the pool, which a      *)
(* transaction keeps as its lease; words like BEGIN have none.  A client    *)
(* finishes a unit with Sync before it sends another simple query.  Logins  *)
(* and the age of idle sockets are in PgDial; what becomes of a pooled      *)
(* connection that is given back, and a Describe that takes the lease, are  *)
(* in BackendTxn.                                                           *)
(***************************************************************************)
EXTENDS Naturals, Sequences

LOCAL INSTANCE SequencesExt
LOCAL INSTANCE PgDial

CONSTANTS
    MaxSocks,   \* bound: sockets opened in a behaviour
    MaxAsked,   \* bound: commands of the client
    MaxLost,    \* bound: sockets the server closes
    MaxPerKey   \* DEFAULT_TCP_IDLE_MAX_PER_KEY

Socks == 1..MaxSocks
NoRelay == <<>>

VARIABLES
    sock,       \* the server's end: for each socket, its key, whether it is up, its
                \* transaction status, frames not read yet, writes not yet durable,
                \* and whether it ignores messages until Sync
    spare,      \* tcp_idle: the pool
    kept,       \* tcp_txn: <<>> or <<socket>>
    lease,      \* txn_lease: <<>> or the server's end of a pooled connection
    unit,       \* tcp_ext_hold: <<>> or <<socket>>
    relay,      \* <<>> or the answer being relayed
    asker,      \* SessionState: status, at (backend_endpoint), extended, error, hold
                \* (pg_ext_tcp_hold); the client: commands sent, transaction open,
                \* begun with an empty slot, its writes, those sent outside a
                \* transaction of the server; over: the session has ended
    past        \* durable writes; writes the client took back; sockets opened, closed

relayVars == <<sock, spare, kept, lease, unit, relay, asker, past>>

RelayInit ==
  /\ sock = [s \in Socks |-> [key |-> "p", up |-> FALSE, status |-> "I", out |-> <<>>, undone |-> {}, skips |-> FALSE]]
  /\ spare = <<>> /\ kept = <<>> /\ lease = <<>> /\ unit = <<>> /\ relay = NoRelay
  /\ asker = [status |-> "I", at |-> "p", extended |-> FALSE, error |-> FALSE, hold |-> FALSE, n |-> 0,
              open |-> FALSE, fresh |-> TRUE, writes |-> {}, loose |-> {}, over |-> FALSE]
  /\ past = [durable |-> {}, revoked |-> {}, socks |-> 0, lost |-> 0]

(***************************************************************************)
(* The server.  What a message does to a socket, and to what is durable:    *)
(* both are returned.  A write outside a transaction is durable at the end  *)
(* of its query or unit.                                                    *)
(***************************************************************************)
Tag(n, t) == [of |-> n, tag |-> t, status |-> "-"]
NewEnd(k) == [key |-> k, up |-> TRUE, status |-> "I", out |-> <<>>, undone |-> {}, skips |-> FALSE]

(* A statement as part of a query or a unit: its frames without the end.    *)
Ran(c, n, kind) ==
  CASE c.skips -> c
    [] ~c.skips /\ (kind = "bad" \/ (c.status = "E" /\ kind \notin {"commit", "rollback"})) ->
         [c EXCEPT !.out = Append(@, Tag(n, "E")), !.skips = TRUE, !.status = IF @ = "I" THEN "I" ELSE "E"]
    [] ~c.skips /\ kind = "begin" /\ c.status # "E" -> [c EXCEPT !.out = Append(@, Tag(n, "C")), !.status = "T"]
    [] ~c.skips /\ kind = "read" /\ c.status # "E" -> [c EXCEPT !.out = @ \o <<Tag(n, "D"), Tag(n, "C")>>]
    [] ~c.skips /\ kind = "write" /\ c.status # "E" -> [c EXCEPT !.out = Append(@, Tag(n, "C")), !.undone = @ \cup {n}]
    [] ~c.skips /\ kind \in {"commit", "rollback"} ->
         [c EXCEPT !.out = Append(@, Tag(n, "C")), !.status = "I",
                   !.undone = IF kind = "commit" /\ c.status # "E" THEN @ ELSE {}]

(* The end of a query or a unit.                                            *)
UnitEnded(c, n) ==
  [c EXCEPT !.out = Append(@, [of |-> n, tag |-> "Z", status |-> c.status]), !.skips = FALSE,
            !.undone = IF c.status = "I" THEN {} ELSE @]
Durable(c) == IF c.status = "I" /\ ~c.skips THEN c.undone ELSE {}

(* One query, and what the socket is afterwards; a closed socket takes the  *)
(* message and says nothing.                                                *)
Queried(c, n, kind) == IF c.up THEN UnitEnded(Ran(c, n, kind), n) ELSE c
MadeDurable(c, n, kind) == IF c.up THEN Durable(Ran(c, n, kind)) ELSE {}

(***************************************************************************)
(* Sockets for a command.  A choice is a socket, the server's end of it     *)
(* when the statement is sent, and what the pool is then.                   *)
(***************************************************************************)
in_txn == asker.status = "T" \/ lease # <<>> \/ kept # <<>>

(* The endpoint of a statement: the last one's in a transaction.            *)
KeyOf(kind) == IF asker.status = "T" THEN asker.at ELSE IF kind = "read" THEN "r" ELSE "p"

NewSock == past.socks + 1
CanDial == past.socks < MaxSocks

(* take_or_connect: the idle sockets of the key are tried in turn, with a   *)
(* query of their own, until one answers; else a new one.  Whether a socket *)
(* is up is all that the probe tells.                                       *)
Probed(key) ==
  LET q == Queue(spare, key)
      at == SelectInSeq(q, LAMBDA e : sock[e.s].up)
  IN IF at = 0 THEN [s |-> NewSock, new |-> TRUE, c |-> NewEnd(key), pool |-> WithQueue(spare, key, <<>>)]
     ELSE [s |-> q[at].s, new |-> FALSE, c |-> sock[q[at].s], pool |-> WithQueue(spare, key, SubSeq(q, at + 1, Len(q)))]

(* take_or_open_tcp_txn: the socket in the slot, else a new one on which    *)
(* BEGIN is sent and its answer read.                                       *)

TxnSock(key) ==
  IF kept # <<>> THEN [s |-> kept[1], new |-> FALSE, c |-> sock[kept[1]], pool |-> spare]
  ELSE [s |-> NewSock, new |-> TRUE, c |-> [NewEnd(key) EXCEPT !.status = "T"], pool |-> spare]

Choice(kind) == IF in_txn THEN TxnSock(KeyOf(kind)) ELSE Probed(KeyOf(kind))

(* A command takes the next number; what it writes in a transaction the     *)
(* client may take back.                                                    *)
ThisCmd == asker.n + 1
Awaits == relay = NoRelay /\ ~asker.over /\ asker.n < MaxAsked
Wrote(kind) == IF kind = "write" /\ asker.open /\ asker.status # "I" THEN {ThisCmd} ELSE {}

(* A failed transaction that has lost its socket, and one whose BEGIN found  *)
(* a socket in the slot, are not in a transaction of the server.             *)
Loosely == ~asker.fresh \/ (asker.status = "E" /\ ~in_txn)
FailedStatus == IF asker.status = "T" THEN "E" ELSE asker.status

(* A message cannot be sent: no new socket, or the server closed this one.  *)
CannotSend(choice) == choice.new \/ ~choice.c.up

(* The socket of a choice is out of its place and has been sent a message   *)
(* that leaves the server's end c; the answer is relayed from now on.       *)
SendOn(choice, c, made, to) ==
  /\ choice.new => CanDial
  /\ sock' = [sock EXCEPT ![choice.s] = c]
  /\ spare' = choice.pool
  /\ past' = [past EXCEPT !.durable = @ \cup made, !.socks = IF choice.new THEN NewSock ELSE @]
  /\ relay' = <<[s |-> choice.s, to |-> to, ready |-> "none", of |-> ThisCmd]>>

SendQuery(choice, kind, to) == SendOn(choice, Queried(choice.c, ThisCmd, kind), MadeDurable(choice.c, ThisCmd, kind), to)

(***************************************************************************)
(* Commands.                                                                *)
(***************************************************************************)
(* BEGIN is noted; the first statement that opens a socket sends it.        *)
RelayBegin ==
  /\ Awaits /\ ~asker.extended
  /\ asker' = [asker EXCEPT !.n = ThisCmd, !.status = "T", !.open = TRUE,
                            !.fresh = IF asker.open /\ asker.status = "T" THEN @ ELSE kept = <<>>]
  /\ UNCHANGED <<sock, spare, kept, lease, unit, relay, past>>

(* What the client makes of a statement: its transaction opens and ends     *)
(* with the words for it, whether decode_query_command knows them or not.   *)
Stated(kind) ==
  [asker EXCEPT !.n = ThisCmd, !.at = KeyOf(kind),
                !.open = (@ \/ kind = "begin") /\ kind \notin {"commit", "rollback"},
                !.fresh = IF kind = "begin" /\ ~asker.open THEN TRUE ELSE @,
                !.writes = IF kind \in {"commit", "rollback"} THEN {} ELSE @ \cup Wrote(kind),
                !.loose = IF Loosely THEN @ \cup Wrote(kind) ELSE @]

(* execute_simple_query_tcp_relay, execute_simple_query_tcp_relay_txn       *)
RelaySimple(kind) ==
  /\ Awaits /\ ~asker.extended
  /\ SendQuery(Choice(kind), kind, IF in_txn THEN "txn" ELSE "idle or txn")
  /\ kept' = <<>>
  /\ asker' = Stated(kind)
  /\ UNCHANGED <<lease, unit>>

(* The same when the query cannot be sent: the client is answered with an   *)
(* error, which fails a transaction.                                        *)
RelayRefused(kind) ==
  /\ Awaits /\ ~asker.extended /\ CannotSend(Choice(kind))
  /\ spare' = Choice(kind).pool
  /\ kept' = <<>>
  /\ asker' = [asker EXCEPT !.n = ThisCmd, !.at = KeyOf(kind), !.status = FailedStatus]
  /\ UNCHANGED <<sock, lease, unit, relay, past>>

(* execute_client_extended_frames_tcp_relay.  With a unit held, Execute     *)
(* alone is sent on its socket, where it runs the portal of the unit again: *)
(* a query has more rows, anything else has been run.                       *)
ClientExecutes == Awaits /\ (asker.extended => ~asker.error)
Executed(kind) == [Stated(kind) EXCEPT !.extended = TRUE]

RelayFrames(kind) ==
  LET choice == Choice(kind)
  IN /\ ClientExecutes /\ ~asker.hold
     /\ SendOn(choice, IF choice.c.up THEN Ran(choice.c, ThisCmd, kind) ELSE choice.c, {}, "hold")
     /\ kept' = IF in_txn THEN <<>> ELSE kept
     /\ asker' = [Executed(kind) EXCEPT !.hold = TRUE]
     /\ UNCHANGED <<lease, unit>>

Resumed == [s |-> unit[1], new |-> FALSE, c |-> sock[unit[1]], pool |-> spare]

RelayResume(kind) ==
  /\ ClientExecutes /\ asker.hold /\ unit # <<>>
  /\ SendOn(Resumed, IF Resumed.c.up THEN Ran(Resumed.c, ThisCmd, kind) ELSE Resumed.c, {}, "hold")
  /\ unit' = <<>>
  /\ asker' = [asker EXCEPT !.n = ThisCmd, !.at = KeyOf(kind), !.extended = TRUE]
  /\ UNCHANGED <<kept, lease>>

(* The frames cannot be sent, and neither socket is used again: a fresh one *)
(* is for execute_extended_text_bind_tcp_relay, which sends a unit up to    *)
(* Sync.                                                                    *)
FramesFail(kind) == IF asker.hold THEN unit # <<>> => CannotSend(Resumed) ELSE CannotSend(Choice(kind))
BoundSock(kind) ==
  IF ~in_txn THEN Probed(KeyOf(kind))
  ELSE IF asker.hold THEN TxnSock(KeyOf(kind))
  ELSE [s |-> NewSock, new |-> TRUE, c |-> [NewEnd(KeyOf(kind)) EXCEPT !.status = "T"], pool |-> spare]

RelayBound(kind) ==
  /\ ClientExecutes /\ FramesFail(kind)
  /\ SendQuery(BoundSock(kind), kind, IF in_txn THEN "txn" ELSE "idle")
  /\ kept' = <<>> /\ unit' = <<>>
  /\ asker' = Executed(kind)
  /\ UNCHANGED lease

(* A statement without parameters is sent again as a query and its answer   *)
(* collected (execute_simple_query_wire): the session does not look at its  *)
(* ReadyForQuery.  The socket of the slot was taken by the first try.       *)
InTxnStill == asker.status = "T" \/ lease # <<>> \/ (asker.hold /\ kept # <<>>)
SentAgain(kind) == IF InTxnStill THEN BoundSock(kind) ELSE Probed(KeyOf(kind))

RelayCollected(kind) ==
  LET choice == SentAgain(kind)
      c == [Queried(choice.c, ThisCmd, kind) EXCEPT !.out = <<>>]
      idle == ~InTxnStill /\ c.status = "I"
  IN /\ ClientExecutes /\ FramesFail(kind)
     /\ choice.c.up /\ (choice.new => CanDial)
     /\ sock' = [sock EXCEPT ![choice.s] = c]
     /\ past' = [past EXCEPT !.durable = @ \cup MadeDurable(choice.c, ThisCmd, kind),
                             !.socks = IF choice.new THEN NewSock ELSE @]
     /\ kept' = IF idle THEN <<>> ELSE <<choice.s>>
     /\ spare' = IF idle THEN put_at(choice.pool, c.key, [s |-> choice.s, since |-> 0], 0, 0, MaxPerKey)
                 ELSE choice.pool
     /\ unit' = <<>>
     /\ asker' = Executed(kind)
     /\ UNCHANGED <<lease, relay>>

(* One with parameters runs on a connection of the pool, in a transaction   *)
(* on the lease, where BEGIN comes first (execute_param_query_streaming).   *)
Demotes(kind) ==
  /\ ClientExecutes /\ FramesFail(kind) /\ CannotSend(BoundSock(kind))
  /\ spare' = IF in_txn THEN spare ELSE Probed(KeyOf(kind)).pool
  /\ kept' = <<>> /\ unit' = <<>>
  /\ UNCHANGED <<sock, relay>>
Erred(kind) == [Executed(kind) EXCEPT !.status = FailedStatus, !.error = TRUE]

RelayDemoted(kind) ==
  LET c == IF in_txn /\ lease # <<>> THEN lease[1]
           ELSE [NewEnd(KeyOf(kind)) EXCEPT !.status = IF in_txn THEN "T" ELSE "I"]
      d == Ran(c, ThisCmd, kind)
  IN /\ Demotes(kind) /\ c.up
     /\ lease' = IF in_txn THEN <<[d EXCEPT !.out = <<>>, !.skips = FALSE]>> ELSE lease
     /\ past' = IF in_txn THEN past ELSE [past EXCEPT !.durable = @ \cup d.undone]
     /\ asker' = IF d.skips THEN Erred(kind) ELSE Executed(kind)

(* No connection is to be had, or the one that is breaks: that of a         *)
(* transaction is stored all the same.                                      *)
RelayDemotedFails(kind) ==
  /\ Demotes(kind)
  /\ \/ UNCHANGED lease /\ (lease # <<>> => ~lease[1].up)
     \/ in_txn /\ lease' = <<[NewEnd("p") EXCEPT !.up = FALSE, !.status = "T"]>>
  /\ asker' = Erred(kind)
  /\ UNCHANGED past

(* An answer to a statement without parameters that cannot be sent again.   *)
RelayCollectFails(kind) ==
  /\ ClientExecutes /\ FramesFail(kind) /\ CannotSend(SentAgain(kind))
  /\ spare' = IF InTxnStill THEN spare ELSE Probed(KeyOf(kind)).pool
  /\ kept' = <<>> /\ unit' = <<>>
  /\ asker' = Erred(kind)
  /\ UNCHANGED <<sock, lease, relay, past>>

(* Sync of a unit that was not relayed is answered by the frontend.         *)
RelaySyncLocal ==
  /\ Awaits /\ asker.extended /\ ~asker.hold
  /\ asker' = [asker EXCEPT !.n = ThisCmd, !.at = KeyOf("sync"), !.extended = FALSE, !.error = FALSE]
  /\ UNCHANGED <<sock, spare, kept, lease, unit, relay, past>>

(* execute_pg_backend_sync: on the held socket, which goes to the slot of   *)
(* the transaction.                                                         *)
RelaySync ==
  /\ Awaits /\ asker.extended /\ asker.hold /\ unit # <<>>
  /\ LET c == Resumed.c
     IN SendOn(Resumed, IF c.up THEN UnitEnded(c, ThisCmd) ELSE c, IF c.up THEN Durable(c) ELSE {}, "txn")
  /\ unit' = <<>>
  /\ asker' = [asker EXCEPT !.n = ThisCmd, !.at = KeyOf("sync"), !.extended = FALSE, !.error = FALSE, !.hold = FALSE]
  /\ UNCHANGED <<kept, lease>>

(* With the held socket gone or closed, Sync is answered with an error.     *)
RelaySyncFails ==
  /\ Awaits /\ asker.extended /\ asker.hold
  /\ unit # <<>> => ~Resumed.c.up
  /\ asker' = [asker EXCEPT !.n = ThisCmd, !.at = KeyOf("sync"), !.status = FailedStatus, !.error = TRUE, !.hold = unit = <<>>]
  /\ unit' = <<>>
  /\ UNCHANGED <<sock, spare, kept, lease, relay, past>>

(* finish_transaction: on the socket in the slot, which is closed then, and *)
(* the lease goes back to the pool as it is; else on the lease.             *)
TakenBack(kind) == IF kind = "rollback" THEN past.revoked \cup asker.writes ELSE past.revoked
Finished == [asker EXCEPT !.n = ThisCmd, !.at = "p", !.status = "I", !.open = FALSE, !.writes = {}]

RelayFinish(kind) ==
  LET made == IF kept # <<>> THEN MadeDurable(sock[kept[1]], ThisCmd, kind)
              ELSE IF lease # <<>> THEN MadeDurable(lease[1], ThisCmd, kind) ELSE {}
  IN /\ Awaits /\ ~asker.extended
     /\ sock' = IF kept = <<>> THEN sock ELSE [sock EXCEPT ![kept[1]] = [NewEnd("p") EXCEPT !.up = FALSE]]
     /\ past' = [past EXCEPT !.durable = @ \cup made, !.revoked = TakenBack(kind)]
     /\ kept' = <<>> /\ lease' = <<>>
     /\ asker' = Finished
     /\ UNCHANGED <<spare, unit, relay>>

(* The same when the message cannot be sent: the session is out of the      *)
(* transaction already.                                                     *)
RelayFinishFails(kind) ==
  /\ Awaits /\ ~asker.extended
  /\ IF kept # <<>> THEN ~sock[kept[1]].up /\ UNCHANGED lease
     ELSE lease # <<>> /\ ~lease[1].up /\ lease' = <<>>
  /\ kept' = <<>>
  /\ asker' = Finished
  /\ past' = [past EXCEPT !.revoked = TakenBack(kind)]
  /\ UNCHANGED <<sock, spare, unit, relay>>

(***************************************************************************)
(* Relaying.                                                                *)
(***************************************************************************)
(* Whether an answer is at its end after a frame.                           *)
(* Mutant of AtEnd: a held page ends with its first row.                    *)
AtEnd_row(to, tag) == tag = "Z" \/ (to = "hold" /\ tag \in {"D", "C", "E"})
AtEnd(to, tag) == tag = "Z" \/ (to = "hold" /\ tag \in {"C", "E"})

(* finish_session: where the socket goes at the end of an answer, or when   *)
(* the answer is dropped; one is closed that is put nowhere.                *)

ReturnTo(r) ==
  CASE r.to = "txn" -> "txn"
    [] r.to = "hold" -> "hold"
    [] r.to = "idle" \/ (r.to = "idle or txn" /\ r.ready = "I") -> "idle"
    [] r.to = "idle or txn" /\ r.ready \in {"T", "E"} -> "txn"
    [] r.to = "idle or txn" /\ r.ready = "none" -> "nowhere"

finish_session(r) ==
  /\ kept' = IF ReturnTo(r) = "txn" THEN <<r.s>> ELSE kept
  /\ unit' = IF ReturnTo(r) = "hold" THEN <<r.s>> ELSE unit
  /\ spare' = IF ReturnTo(r) = "idle" THEN put_at(spare, sock[r.s].key, [s |-> r.s, since |-> 0], 0, 0, MaxPerKey) ELSE spare
  /\ relay' = NoRelay

(* One frame to the client.  The session follows ReadyForQuery; an error in *)
(* a unit fails the transaction, and the rest of the unit is ignored.       *)
RelayFrame ==
  /\ relay # NoRelay
  /\ LET r == relay[1]
         f == Head(sock[r.s].out)
         now == [r EXCEPT !.ready = IF f.tag = "Z" THEN f.status ELSE @]
         bad == f.tag = "E" /\ asker.extended
     IN /\ sock[r.s].out # <<>>
        /\ sock' = [sock EXCEPT ![r.s].out = Tail(@)]
        /\ IF AtEnd(r.to, f.tag) THEN finish_session(now)
           ELSE relay' = <<now>> /\ UNCHANGED <<kept, unit, spare>>
        /\ asker' = [asker EXCEPT !.status = IF f.tag = "Z" THEN f.status ELSE IF bad THEN FailedStatus ELSE @,
                                  !.error = @ \/ bad]
        /\ UNCHANGED <<lease, past>>

(* A closed socket: the answer ends as if it were complete, without         *)
(* ReadyForQuery.                                                           *)
RelayEof ==
  /\ relay # NoRelay /\ sock[relay[1].s].out = <<>> /\ ~sock[relay[1].s].up
  /\ finish_session(relay[1])
  /\ UNCHANGED <<sock, lease, asker, past>>

(* The session ends: Terminate, the client is gone, or an answer cannot be  *)
(* read or written.  Every socket of the connector is closed.               *)
RelayOver ==
  /\ ~asker.over
  /\ sock' = [s \in Socks |-> [NewEnd("p") EXCEPT !.up = FALSE]]
  /\ spare' = <<>> /\ kept' = <<>> /\ lease' = <<>> /\ unit' = <<>> /\ relay' = NoRelay
  /\ asker' = [asker EXCEPT !.over = TRUE]
  /\ past' = [past EXCEPT !.revoked = @ \cup asker.writes]

(* The server closes a socket: frames already sent can still be read.       *)
SocketLost(s) ==
  /\ past.lost < MaxLost /\ sock[s].up
  /\ sock' = [sock EXCEPT ![s].up = FALSE, ![s].undone = {}]
  /\ past' = [past EXCEPT !.lost = @ + 1]
  /\ UNCHANGED <<spare, kept, lease, unit, relay, asker>>

Kinds == {"read", "write", "bad", "begin", "commit", "rollback"}

RelayNext ==
  \/ RelayBegin
  \/ \E kind \in Kinds : RelaySimple(kind) \/ RelayRefused(kind) \/ RelayFrames(kind)
  \/ \E kind \in {"read", "write", "bad"} : RelayBound(kind) \/ RelayDemoted(kind) \/ RelayDemotedFails(kind)
  \/ \E kind \in {"begin", "commit", "rollback"} : RelayCollected(kind) \/ RelayCollectFails(kind)
  \/ \E kind \in {"read", "bad"} : RelayResume(kind)
  \/ RelaySyncLocal \/ RelaySync \/ RelaySyncFails
  \/ \E kind \in {"commit", "rollback"} : RelayFinish(kind) \/ RelayFinishFails(kind)
  \/ RelayFrame \/ RelayEof \/ RelayOver
  \/ \E s \in Socks : SocketLost(s)

-----------------------------------------------------------------------------
Pooled1 == UNION {{Queue(spare, k)[i].s : i \in DOMAIN Queue(spare, k)} : k \in DOMAIN spare}

RelayTypeOK ==
  /\ \A s \in Socks : sock[s].status \in {"I", "T", "E"} /\ sock[s].undone \subseteq 1..MaxAsked
  /\ DOMAIN spare \subseteq {"p", "r"} /\ Pooled1 \subseteq Socks
  /\ kept \in {<<>>} \cup {<<s>> : s \in Socks} /\ unit \in {<<>>} \cup {<<s>> : s \in Socks}
  /\ lease # <<>> => lease[1].status \in {"T", "E"}
  /\ asker.status \in {"I", "T", "E"} /\ past.durable \subseteq 1..MaxAsked

(* A frame that is relayed answers the command it is relayed for: nothing   *)
(* of an earlier answer is left on a socket that a command gets             *)
(* (PgTcpWireStream::poll_packets, PgTcpIdlePool::take_or_connect).         *)
FramesOwn ==
  relay # NoRelay => \A i \in DOMAIN sock[relay[1].s].out : sock[relay[1].s].out[i].of = relay[1].of

(* A socket is in one place only; one in the pool is in no transaction, has *)
(* nothing undone and nothing to read, as long as it is up                  *)
(* (PgTcpWireStream::finish_session).                                       *)
SocketsApart ==
  /\ Pooled1 \cap ({kept[i] : i \in DOMAIN kept} \cup {unit[i] : i \in DOMAIN unit}) = {}
  /\ kept # <<>> => kept # unit
  /\ relay # NoRelay => relay[1].s \notin Pooled1 /\ <<relay[1].s>> \notin {kept, unit}
  /\ \A s \in Pooled1 : sock[s].up => sock[s].status = "I" /\ sock[s].out = <<>> /\ sock[s].undone = {}

(* What a client wrote in a transaction and rolled back is never durable,   *)
(* whatever sockets and pooled connections its statements ran on            *)
(* (take_or_open_tcp_txn, finish_transaction).  The exceptions are what it  *)
(* wrote after its transaction had failed together with its connection: the *)
(* connector then takes it for being outside one and the write commits at   *)
(* once; and what it wrote when BEGIN had found a socket in the slot, on    *)
(* which no BEGIN is sent.                                                  *)
RollbackHolds == past.revoked \cap past.durable \subseteq asker.loose

RelaySpec == RelayInit /\ [][RelayNext]_relayVars

=============================================================================
