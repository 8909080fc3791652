------------------------------ MODULE Topology ------------------------------
(***************************************************************************)
(* Discovery of the topology behind a read/write splitting proxy.  Monitors *)
(* probe the configured endpoints and send what they found over one shared  *)
(* channel; the reconciler takes as many messages as there are monitors,    *)
(* works out from the configured endpoints which ones serve writes and      *)
(* which ones reads, and publishes a set that differs from the one before;  *)
(* a request takes the last set published before it is routed.              *)
(*                                                                          *)
(* A sweep of a monitor is one step.  A node that changes during a sweep    *)
(* shows as changed, or as before when its probe is taken to have timed     *)
(* out.  Retries of a failed probe are inside that choice.  The maps of the *)
(* responses have no order, so every order of visiting them is allowed.     *)
(***************************************************************************)
EXTENDS Naturals, Sequences, FiniteSets, SequencesExt

CONSTANTS Confs,      \* the configurations: reads, read_only, lag, groups
          MaxFaults,  \* changes of the nodes
          MaxQueue,   \* messages of the monitors under way
          MaxPubs     \* published sets not taken yet

VARIABLES
  conf,    \* the configuration of this behaviour
  up,      \* the nodes that answer
  master,  \* the nodes that are not read-only
  late,    \* the nodes whose replication is too far behind
  faults,  \* changes so far
  seen,    \* the last response of each monitor
  alive,   \* the monitors whose task has not died
  chan,    \* responses sent and not received
  got,     \* the last response received from each monitor
  need,    \* responses still to receive in this round
  pre,     \* the endpoints the last round came to
  pubs,    \* the endpoints published and not taken
  taken,   \* the endpoints routing uses for transactions and by default
  ruled,   \* the endpoints the rules use
  dead     \* the reconciler has ended in a panic

topoVars == <<conf, up, master, late, faults, seen, alive, chan, got, need, pre, pubs, taken,
              ruled, dead>>

Primary == "p"
Nodes == {Primary} \cup ToSet(conf.reads)
Configured == [readwrite |-> <<Primary>>, read |-> conf.reads]

build_monitors ==
  {"connect", "ping"} \cup (IF conf.read_only THEN {"read_only"} ELSE {})
                      \cup (IF conf.lag THEN {"lag"} ELSE {})

(* What each monitor believes before its first probe: every node connected, *)
(* none pinged, the configured roles, nothing of the lag.                   *)
Response(ok, bad) == [ok |-> ok, bad |-> bad]
FirstResponse(c) ==
  LET all == {Primary} \cup ToSet(c.reads)
  IN [connect |-> Response(all, {}), ping |-> Response({}, all),
      read_only |-> Response({Primary}, ToSet(c.reads)), lag |-> Response({}, {})]

TopoInit ==
  /\ conf \in Confs
  /\ up = Nodes /\ master = {Primary} /\ late = {} /\ faults = 0
  /\ seen = FirstResponse(conf)
  /\ alive = build_monitors
  /\ chan = <<>>
  /\ got = [m \in build_monitors |-> <<>>]
  /\ need = Cardinality(build_monitors)
  /\ pre = Configured /\ pubs = <<>> /\ taken = Configured /\ ruled = Configured
  /\ dead = FALSE

(* The nodes: one stops, comes back, changes its role, falls behind or      *)
(* catches up.                                                              *)
Flip(S, n) == IF n \in S THEN S \ {n} ELSE S \cup {n}

Fault(n) ==
  /\ faults < MaxFaults /\ faults' = faults + 1
  /\ \/ up' = Flip(up, n) /\ UNCHANGED <<master, late>>
     \/ (conf.read_only \/ conf.lag) /\ master' = Flip(master, n) /\ UNCHANGED <<up, late>>
     \/ conf.lag /\ late' = Flip(late, n) /\ UNCHANGED <<up, master>>
  /\ UNCHANGED <<conf, seen, alive, chan, got, need, pre, pubs, taken, ruled, dead>>

-----------------------------------------------------------------------------
(* Monitors.  A probe that times out leaves the status of its node.         *)
Recorded(old, done, good) ==
  Response((old.ok \ done) \cup (done \cap good), (old.bad \ done) \cup (done \ good))

(* The role of a node that cannot be asked is kept.                         *)
Sweep_read_only(done) == Recorded(seen.read_only, done \cap up, master)

(* The lag monitor asks every node that is read-only now, the primary       *)
(* included, and calls it late unless it says otherwise in time.            *)
Sweep_lag(done) ==
  LET slaves == up \ master IN Response((slaves \cap done) \ late, slaves \ (done \ late))

run_check(m) ==
  /\ m \in alive /\ Len(chan) < MaxQueue
  /\ \E done \in SUBSET Nodes :
       LET found == CASE m = "connect"   -> Recorded(seen.connect, done, up)
                      [] m = "ping"      -> Recorded(seen.ping, done, up)
                      [] m = "read_only" -> Sweep_read_only(done)
                      [] m = "lag"       -> Sweep_lag(done)
       IN /\ seen' = [seen EXCEPT ![m] = found]
          /\ chan' = Append(chan, [of |-> m, response |-> found])
  /\ UNCHANGED <<conf, up, master, late, faults, alive, got, need, pre, pubs, taken, ruled, dead>>

(* A node that goes away between the connection and the answer ends the     *)
(* task of a monitor that runs a query.                                     *)
MonitorPanics(m) ==
  /\ m \in alive \cap {"read_only", "lag"} /\ up # Nodes
  /\ alive' = alive \ {m}
  /\ UNCHANGED <<conf, up, master, late, faults, seen, chan, got, need, pre, pubs, taken, ruled, dead>>

-----------------------------------------------------------------------------
(* Reconciler.  The result of a round, or <<>> when the code panics.        *)
receive ==
  /\ ~dead /\ need > 0 /\ chan # <<>>
  /\ got' = [got EXCEPT ![Head(chan).of] = <<Head(chan).response>>]
  /\ chan' = Tail(chan) /\ need' = need - 1
  /\ UNCHANGED <<conf, up, master, late, faults, seen, alive, pre, pubs, taken, ruled, dead>>

Has(m) == m \in DOMAIN got /\ got[m] # <<>>
Found(m) == got[m][1]

(* Mutant of change_slave_to_master_by_read_only: any replica will do.      *)
change_slave_to_master_by_read_only_any(readwrite) ==
  IF conf.reads = <<>> THEN readwrite ELSE <<Last(conf.reads)>>

(* The last replica that is not read-only becomes the writer.               *)
change_slave_to_master_by_read_only(readwrite) ==
  LET masters == SelectSeq(conf.reads, LAMBDA r : Has("read_only") /\ r \in Found("read_only").ok)
  IN IF masters = <<>> THEN readwrite ELSE <<Last(masters)>>

(* The primary is replaced when it is not connected, or connected and not   *)
(* pinging.                                                                 *)
change_read_write_if_necessary ==
  IF Primary \in Found("connect").ok /\ Primary \in Found("ping").ok THEN <<Primary>>
  ELSE change_slave_to_master_by_read_only(<<Primary>>)

(* What the visits of the maps do to the list of readers, in their order:   *)
(* a node to take out, or a node to look for.                               *)
TakeOut(n) == [op |-> "remove", node |-> n]
LookFor(n) == [op |-> "look", node |-> n]

change_read_by_lag(lagOrder) ==
  IF ~Has("lag") THEN <<>>
  ELSE [i \in DOMAIN lagOrder |-> IF lagOrder[i] \in Found("lag").ok THEN LookFor(lagOrder[i])
                                  ELSE TakeOut(lagOrder[i])]

ReadVisits(order, pingOrder, lagOrder) ==
  FlattenSeq([i \in DOMAIN order |->
    IF order[i] \in Found("connect").bad THEN <<TakeOut(order[i])>>
    ELSE IF ~Has("ping") THEN <<>>
    ELSE FlattenSeq([j \in DOMAIN pingOrder |->
           IF pingOrder[j] \in Found("ping").ok THEN change_read_by_lag(lagOrder)
           ELSE <<TakeOut(pingOrder[j])>>])])

(* A node is taken out at its place in the configured list, whatever is     *)
(* left of the list: out of range is a panic, <<>>.  A node looked for and  *)
(* not there doubles the list.                                              *)
Visit(readers, visit) ==
  IF readers = <<>> THEN <<>>
  ELSE LET list == readers[1]
           place == SelectInSeq(conf.reads, LAMBDA r : r = visit.node)
       IN IF visit.op = "look" THEN <<IF Contains(list, visit.node) THEN list ELSE list \o list>>
          ELSE IF place \in DOMAIN list THEN <<RemoveAt(list, place)>> ELSE <<>>

(* The lists of readers a round may come to.                                *)
change_read_if_necessary ==
  LET replicas == ToSet(conf.reads)
      lags == IF Has("lag") THEN Found("lag").ok \cup Found("lag").bad ELSE {}
  IN {FoldLeft(Visit, <<conf.reads>>, ReadVisits(order, pingOrder, lagOrder)) :
        order \in SetToSeqs(replicas), pingOrder \in SetToSeqs(replicas),
        lagOrder \in SetToSeqs(lags)}

(* The first rounds need a response of the connect monitor, and of the ping *)
(* monitor when the primary is connected; a fast monitor may have taken     *)
(* their places in the round.                                               *)
Unwraps == Has("connect") /\ (Primary \in Found("connect").ok => Has("ping"))

ReconcilePanics ==
  /\ dead' = TRUE
  /\ UNCHANGED <<conf, up, master, late, faults, seen, alive, chan, got, need, pre, pubs, taken, ruled>>

Publishes(curr) == IF curr # pre THEN pubs' = Append(pubs, curr) ELSE pubs' = pubs

report ==
  /\ ~dead /\ need = 0 /\ Len(pubs) < MaxPubs
  /\ IF ~Unwraps THEN ReconcilePanics
     ELSE \E readers \in change_read_if_necessary :
            IF readers = <<>> THEN ReconcilePanics
            ELSE LET curr == [readwrite |-> change_read_write_if_necessary, read |-> readers[1]]
                 IN /\ Publishes(curr)
                    /\ pre' = curr /\ need' = Cardinality(build_monitors)
                    /\ UNCHANGED <<conf, up, master, late, faults, seen, alive, chan, got, taken,
                                   ruled, dead>>

-----------------------------------------------------------------------------
(* Routing.  The groups of the configuration name the primary as their      *)
(* writer: a set without it has no group, and the request that takes it     *)
(* ends in a panic after the default balances are set and before the rules  *)
(* are.  Later requests go on with both as they are then.                   *)
get_endpoint_group(ep) == ~conf.groups \/ Contains(ep.readwrite, Primary)

LastPublished == Last(pubs)

dispatch ==
  /\ pubs # <<>>
  /\ taken' = LastPublished /\ pubs' = <<>>
  /\ ruled' = IF get_endpoint_group(LastPublished) THEN LastPublished ELSE ruled
  /\ UNCHANGED <<conf, up, master, late, faults, seen, alive, chan, got, need, pre, dead>>

TopoNext ==
  \/ \E n \in Nodes : Fault(n)
  \/ \E m \in build_monitors : run_check(m) \/ MonitorPanics(m)
  \/ receive \/ report \/ dispatch

TopoSpec == TopoInit /\ [][TopoNext]_topoVars

-----------------------------------------------------------------------------
TopoTypeOK ==
  /\ up \subseteq Nodes /\ master \subseteq Nodes /\ late \subseteq Nodes
  /\ faults \in 0..MaxFaults
  /\ alive \subseteq build_monitors
  /\ Len(chan) <= MaxQueue /\ need \in 0..Cardinality(build_monitors)
  /\ Len(pubs) <= MaxPubs
  /\ dead \in BOOLEAN

(* There is always exactly one endpoint for writes and transactions, a      *)
(* configured one, and readers are configured replicas: whatever nodes,     *)
(* monitors and reconciler go through, no write is left without a place to  *)
(* go (report, ReadWriteSplittingDynamic::dispatch).                        *)
OneWriter ==
  \A ep \in {pre, taken, ruled} \cup ToSet(pubs) :
    /\ Len(ep.readwrite) = 1 /\ ToSet(ep.readwrite) \subseteq Nodes
    /\ ToSet(ep.read) \subseteq ToSet(conf.reads)

(* A replica takes over the writes only in a round whose last responses     *)
(* call the primary unreachable and this replica not read-only, and the     *)
(* primary takes them back in the first round in which neither is so        *)
(* (change_read_write_if_necessary).                                        *)
PromotionWitnessed ==
  [][pre' # pre =>
       LET writer == pre'.readwrite[1]
           sick == Primary \in Found("connect").bad \cup
                     (IF Has("ping") THEN Found("ping").bad ELSE {})
       IN /\ writer # Primary => sick /\ Has("read_only") /\ writer \in Found("read_only").ok
          /\ writer = Primary =>
               \/ ~sick \/ ~Has("read_only")
               \/ ToSet(conf.reads) \cap Found("read_only").ok = {}]_topoVars

(* No round that ends keeps a replica among the readers that its last       *)
(* responses call unreachable or late, and a round that knows all replicas  *)
(* to be well keeps them all, so that what was taken out comes back; with   *)
(* the lag watched, unless the primary itself is found to be read-only      *)
(* (change_read_if_necessary, change_read_by_lag).                          *)
Well(r) ==
  /\ r \in Found("connect").ok
  /\ Has("ping") => r \in Found("ping").ok /\ (Has("lag") => r \notin Found("lag").bad)
PrimaryLagged == Has("lag") /\ Primary \in Found("lag").ok \cup Found("lag").bad

SickReplicaLeft ==
  [][(need = 0 /\ need' # 0 /\ ~PrimaryLagged) =>
       /\ \A r \in ToSet(pre'.read) : Well(r)
       /\ (\A r \in ToSet(conf.reads) : Well(r)) => pre'.read = conf.reads]_topoVars

(* Routing never misses a change: once nothing is waiting, the default      *)
(* balances have the endpoints the reconciler last came to, and so have the *)
(* rules, unless there are node groups and the writer is in none: then the  *)
(* rules go on with an older set whose writer is the primary (report        *)
(* publishes only changes, dispatch drains the channel).                    *)
RoutingCaughtUp ==
  pubs = <<>> =>
    /\ taken = pre
    /\ ruled = pre \/ (~get_endpoint_group(pre) /\ ruled.readwrite = <<Primary>>)

=============================================================================
