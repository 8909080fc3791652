----------------------------- MODULE MCBackends -----------------------------
(***************************************************************************)
(* What stands between routing and the backends, and what speaks the MySQL  *)
(* protocol on either side of the gateway: the discovery of the topology,   *)
(* the pool of connections, the two handshakes, one pooled connection, the  *)
(* session of a client, and the session of the command service that came    *)
(* before the core engine.  With them the sockets of a passthrough client   *)
(* of PostgreSQL.  A behaviour is one of these scenes.                      *)
(***************************************************************************)
EXTENDS ConnPool, Topology, MySqlAuth, MySqlConn, MySqlSession, LegacySession, PgRelay

VARIABLE scene

Conf(reads, read_only, lag, groups) ==
  [reads |-> reads, read_only |-> read_only, lag |-> lag, groups |-> groups]

(* One replica with failover and node groups, one whose lag is watched, two *)
(* replicas with failover.                                                  *)
Watched == {Conf(<<"r">>, TRUE, FALSE, TRUE), Conf(<<"r">>, FALSE, TRUE, FALSE),
            Conf(<<"r", "s">>, TRUE, FALSE, FALSE)}

(* Every login at either end, with the cases the codecs do not support.     *)
Dials ==
  [side : {"dial"}, default : Plugins, account : Plugins, pw : {"right", "wrong", "empty"},
   ssl : BOOLEAN, tls : {"disable", "prefer", "require"}, cached : BOOLEAN]
Accepts ==
  [side : {"accept"}, user : BOOLEAN, db : {"none", "same", "other"},
   pw : {"right", "wrong", "empty"}, password : {"right", "empty"}, plugin : {Native, Sha2},
   lenenc : BOOLEAN, ssl : BOOLEAN, together : BOOLEAN]
AllLogins == Dials \cup Accepts

Init ==
  /\ scene \in {"pool", "topology", "auth", "conn", "session", "legacy", "relay"}
  /\ PoolInit /\ TopoInit /\ AuthInit /\ ConnInit /\ SessInit /\ LegacyInit /\ RelayInit
  /\ scene # "topology" => conf = CHOOSE c \in Confs : TRUE
  /\ scene # "auth" => login = CHOOSE l \in Logins : TRUE
  /\ scene # "legacy" => mine.db = (CHOOSE d \in Dbs : TRUE) /\ \A c \in Pooled : backend[c].db = mine.db

Next ==
  \/ /\ scene = "pool" /\ PoolNext
     /\ UNCHANGED <<scene, topoVars, authVars, connVars, sessVars, legacyVars, relayVars>>
  \/ /\ scene = "topology" /\ TopoNext
     /\ UNCHANGED <<scene, poolVars, authVars, connVars, sessVars, legacyVars, relayVars>>
  \/ /\ scene = "auth" /\ AuthNext
     /\ UNCHANGED <<scene, poolVars, topoVars, connVars, sessVars, legacyVars, relayVars>>
  \/ /\ scene = "conn" /\ ConnNext
     /\ UNCHANGED <<scene, poolVars, topoVars, authVars, sessVars, legacyVars, relayVars>>
  \/ /\ scene = "session" /\ SessNext
     /\ UNCHANGED <<scene, poolVars, topoVars, authVars, connVars, legacyVars, relayVars>>
  \/ /\ scene = "legacy" /\ LegacyNext
     /\ UNCHANGED <<scene, poolVars, topoVars, authVars, connVars, sessVars, relayVars>>
  \/ /\ scene = "relay" /\ RelayNext
     /\ UNCHANGED <<scene, poolVars, topoVars, authVars, connVars, sessVars, legacyVars>>

Spec ==
  Init /\ [][Next]_<<scene, poolVars, topoVars, authVars, connVars, sessVars, legacyVars, relayVars>>

(* Every scene keeps its variables in the types its module declares.        *)
BackendsTypeOK ==
  PoolTypeOK /\ TopoTypeOK /\ AuthTypeOK /\ ConnTypeOK /\ SessTypeOK /\ LegacyTypeOK /\ RelayTypeOK

(* Discovery never promotes on its own: one writer, which the probes have   *)
(* seen, no reader that they call sick or late, and routing that catches up.*)
TopologySound == [](OneWriter /\ RoutingCaughtUp) /\ PromotionWitnessed /\ SickReplicaLeft

(* A login on either side: the password is never sent uncovered, the packets*)
(* are numbered, admission is earned, and what is supported is not refused. *)
LoginsSound == PasswordCovered /\ PacketsInOrder /\ AdmissionEarned /\ SupportedNotRefused

(* A MySQL session and the pooled connections under it: replies are those   *)
(* of the command, settings, database, transaction and statement ids stay.  *)
SessionsSound ==
  /\ [](RepliesMatch /\ SettingsKept /\ TxnOnOneConn /\ DbFollows)
  /\ RepliesFit /\ IdsStable /\ GivenBackClean

(* Sockets of passthrough clients: frames reach their own client, nobody    *)
(* shares a socket, and what was rolled back is not kept.                   *)
RelaySound == BackendsTypeOK /\ FramesOwn /\ SocketsApart /\ RollbackHolds

=============================================================================
