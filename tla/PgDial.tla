------------------------------- MODULE PgDial -------------------------------
(***************************************************************************)
(* How the frame relay of backend/pg_tcp_relay.rs gets a socket: the login  *)
(* at the server, with or without TLS, and the pool of idle sockets.        *)
(*                                                                          *)
(* A login is the messages the server will send, in their order; what the   *)
(* gateway sends back is recorded.  A pool is a function from the keys that *)
(* have sockets to queues of entries, each with the time it became idle.    *)
(***************************************************************************)
EXTENDS Naturals, Sequences, SequencesExt

(***************************************************************************)
(* TLS: mode is "disable", "prefer" or "require", answer the byte the       *)
(* server sends to an SSLRequest, and secured whether a handshake works.    *)
(***************************************************************************)
maybe_upgrade_tls(mode, answer, secured) ==
  CASE mode = "disable" -> "plain"
    [] mode # "disable" /\ answer = "S" -> IF secured THEN "tls" ELSE "error"
    [] mode # "disable" /\ answer = "N" -> IF mode = "require" THEN "error" ELSE "plain"
    [] OTHER -> "error"

(***************************************************************************)
(* authenticate: one message of the server is answered at a time.  A SCRAM  *)
(* exchange is begun by a list of mechanisms that has it.                   *)
(***************************************************************************)
StartLogin == [at |-> "auth", scram |-> FALSE, sent |-> <<>>]

LoginStep(s, m) ==
  CASE s.at = "auth" /\ m = "Ok" -> [s EXCEPT !.at = "drain"]
    [] s.at = "drain" /\ m = "Ready" -> [s EXCEPT !.at = "in"]
    [] s.at = "auth" /\ m = "Cleartext" -> [s EXCEPT !.sent = Append(@, "password")]
    [] s.at = "auth" /\ m = "Md5" -> [s EXCEPT !.sent = Append(@, "hash")]
    [] s.at = "auth" /\ m = "SaslScram" -> [s EXCEPT !.sent = Append(@, "first"), !.scram = TRUE]
    [] s.at = "auth" /\ m = "SaslContinue" /\ s.scram -> [s EXCEPT !.sent = Append(@, "proof")]
    [] \/ s.at = "auth" /\ (m = "Notice" \/ (m = "SaslFinal" /\ s.scram))
       \/ s.at = "drain" /\ m \in {"Status", "Key", "Notice"} -> s
    [] OTHER -> [s EXCEPT !.at = "error"]

(* What is read stops at the first error and at ReadyForQuery; a server     *)
(* that closes before it is an error.                                       *)
authenticate(messages) ==
  LET end == FoldLeft(LAMBDA s, m : IF s.at \in {"in", "error"} THEN s ELSE LoginStep(s, m), StartLogin, messages)
  IN IF end.at = "in" THEN end ELSE [end EXCEPT !.at = "error"]

(* A new socket: nothing is sent on one that did not get its transport.     *)
connect(mode, answer, secured, messages) ==
  LET transport == maybe_upgrade_tls(mode, answer, secured)
      login == IF transport = "error" THEN [StartLogin EXCEPT !.at = "error"] ELSE authenticate(messages)
  IN [transport |-> transport, at |-> login.at, sent |-> login.sent]

(***************************************************************************)
(* PgTcpIdlePool: entries of a key are taken from the front and put at the  *)
(* back; an entry is expired when it is idle for longer than the limit.     *)
(***************************************************************************)
Queue(pool, key) == IF key \in DOMAIN pool THEN pool[key] ELSE <<>>

WithQueue(pool, key, q) ==
  [k \in {k \in DOMAIN pool \cup {key} : k # key \/ q # <<>>} |-> IF k = key THEN q ELSE pool[k]]

Expired(entry, now, ttl) == now - entry.since > ttl

(* The entries from the first one that is not expired.                      *)
FromYoung(q, now, ttl) ==
  LET at == SelectInSeq(q, LAMBDA e : ~Expired(e, now, ttl)) IN IF at = 0 THEN <<>> ELSE SubSeq(q, at, Len(q))

take(pool, key, now, ttl) ==
  LET q == FromYoung(Queue(pool, key), now, ttl)
  IN IF q = <<>> THEN [got |-> <<>>, pool |-> WithQueue(pool, key, <<>>)]
     ELSE [got |-> <<Head(q)>>, pool |-> WithQueue(pool, key, Tail(q))]

(* Expired entries leave at the front, then the oldest if there is no room. *)
put_at(pool, key, entry, now, ttl, max) ==
  LET q == FromYoung(Queue(pool, key), now, ttl)
  IN WithQueue(pool, key, Append(IF Len(q) >= max THEN Tail(q) ELSE q, entry))

purge_expired(pool, now, ttl) ==
  LET young(k) == SelectSeq(pool[k], LAMBDA e : ~Expired(e, now, ttl))
  IN [k \in {k \in DOMAIN pool : young(k) # <<>>} |-> young(k)]

=============================================================================
