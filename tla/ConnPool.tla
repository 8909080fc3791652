------------------------------ MODULE ConnPool ------------------------------
(***************************************************************************)
(* The pool of backend connections of one endpoint, shared by sessions that *)
(* take a connection, use it and give it back when they drop it, and by an  *)
(* administrator who refreshes the pool.  The map of pools is a concurrent  *)
(* map: looking a pool up, reading its generation, taking from it and       *)
(* giving back are separate steps between which the others run.  A refresh  *)
(* and a return exclude one another, because a return holds the map's       *)
(* entry for writing.                                                       *)
(***************************************************************************)
EXTENDS Integers, FiniteSets

CONSTANTS Sessions,   \* the sessions
          Conns,      \* the connections the backend can give
          Size,       \* connections kept idle
          MaxTries,   \* attempts to build a connection (10 in the code)
          MaxRefreshes  \* refreshes of the pool

ASSUME PoolAssumption == Size \in Nat \ {0} /\ MaxTries \in Nat \ {0}

VARIABLES
  made,    \* the pool of the endpoint is in the map
  gen,     \* its generation
  idle,    \* the connections in it
  sess,    \* what each session is doing
  used,    \* the connections built so far
  born,    \* the number of refreshes there had been when each was built
  epoch,   \* the number of refreshes there have been
  remade   \* a pool was put in the map over another

poolVars == <<made, gen, idle, sess, used, born, epoch, remade>>

Steps == {"out", "check", "insert", "gen", "pop", "build", "ping", "retry", "init", "held"}

Ready == [at |-> "out", fresh |-> FALSE, gen |-> 0, conn |-> {}, tries |-> 0]

PoolInit ==
  /\ made = FALSE /\ gen = 0 /\ idle = {}
  /\ sess = [s \in Sessions |-> Ready]
  /\ used = {} /\ born = [c \in Conns |-> 0]
  /\ epoch = 0 /\ remade = FALSE

Goes(s, step) == sess' = [sess EXCEPT ![s].at = step]

(* A session asks for a connection: for an idle one, or for a new one       *)
(* because the one it had is broken.                                        *)
Ask(s) ==
  /\ sess[s].at = "out"
  /\ \E fresh \in BOOLEAN : sess' = [sess EXCEPT ![s].at = "check", ![s].fresh = fresh]
  /\ UNCHANGED <<made, gen, idle, used, born, epoch, remade>>

(* The pool is made when the map has none, in two steps.                    *)
contains_key(s) ==
  /\ sess[s].at = "check"
  /\ Goes(s, IF made THEN "gen" ELSE "insert")
  /\ UNCHANGED <<made, gen, idle, used, born, epoch, remade>>

insert(s) ==
  /\ sess[s].at = "insert"
  /\ made' = TRUE /\ gen' = 0 /\ idle' = {}
  /\ remade' = (remade \/ made)
  /\ Goes(s, "gen")
  /\ UNCHANGED <<used, born, epoch>>

(* The generation is read before the connection is taken.                   *)
generation(s) ==
  /\ sess[s].at = "gen"
  /\ sess' = [sess EXCEPT ![s].gen = gen, ![s].at = IF sess[s].fresh THEN "build" ELSE "pop"]
  /\ UNCHANGED <<made, gen, idle, used, born, epoch, remade>>

Popped(c) == idle \ {c}

get_conn(s) ==
  /\ sess[s].at = "pop"
  /\ \/ \E c \in idle : /\ idle' = Popped(c)
                        /\ sess' = [sess EXCEPT ![s].conn = {c}, ![s].at = "ping"]
     \/ idle = {} /\ Goes(s, "build") /\ UNCHANGED idle
  /\ UNCHANGED <<made, gen, used, born, epoch, remade>>

(* A new connection.                                                        *)
build_conn(s) ==
  /\ sess[s].at \in {"build", "retry"}
  /\ \E c \in Conns \ used :
       /\ used' = used \cup {c} /\ born' = [born EXCEPT ![c] = epoch]
       /\ sess' = [sess EXCEPT ![s].conn = {c}, ![s].at = "init"]
  /\ UNCHANGED <<made, gen, idle, epoch, remade>>

(* No connection: a plain rebuild then fails, a request for a pooled one    *)
(* tries again a bounded number of times.                                   *)
build_fails(s) ==
  /\ \/ sess[s].at = "build" /\ ~sess[s].fresh /\ Goes(s, "retry")
     \/ sess[s].at = "build" /\ sess[s].fresh /\ sess' = [sess EXCEPT ![s] = Ready]
     \/ /\ sess[s].at = "retry" /\ sess[s].tries + 1 < MaxTries
        /\ sess' = [sess EXCEPT ![s].tries = sess[s].tries + 1]
     \/ /\ sess[s].at = "retry" /\ sess[s].tries + 1 >= MaxTries
        /\ sess' = [sess EXCEPT ![s] = Ready]
  /\ UNCHANGED <<made, gen, idle, used, born, epoch, remade>>

(* An idle connection that does not answer is closed.                       *)
ping(s) ==
  /\ sess[s].at = "ping"
  /\ \/ Goes(s, "init")
     \/ sess' = [sess EXCEPT ![s].conn = {}, ![s].at = "retry"]
  /\ UNCHANGED <<made, gen, idle, used, born, epoch, remade>>

reinit_session(s) ==
  /\ sess[s].at = "init"
  /\ Goes(s, "held")
  /\ UNCHANGED <<made, gen, idle, used, born, epoch, remade>>

Returned(s) ==
  IF sess[s].gen = gen /\ Cardinality(idle) < Size THEN idle \cup sess[s].conn ELSE idle

(* The session drops its connection, on any path out of the request.        *)
Drop(s) ==
  /\ sess[s].at = "held"
  /\ idle' = Returned(s)
  /\ sess' = [sess EXCEPT ![s] = Ready]
  /\ UNCHANGED <<made, gen, used, born, epoch, remade>>

(* A connection handed out bare is closed by its user.                      *)
Close(s) ==
  /\ sess[s].at = "held"
  /\ sess' = [sess EXCEPT ![s] = Ready]
  /\ UNCHANGED <<made, gen, idle, used, born, epoch, remade>>

(* Mutant of Refreshed: the idle connections go, the generation stays.      *)
Refreshed_same == gen' = gen

Refreshed == gen' = gen + 1

refresh_endpoint ==
  /\ made /\ epoch < MaxRefreshes
  /\ idle' = {} /\ Refreshed
  /\ epoch' = epoch + 1
  /\ UNCHANGED <<made, sess, used, born, remade>>

SessionStep(s) ==
  \/ Ask(s) \/ contains_key(s) \/ insert(s) \/ generation(s) \/ get_conn(s) \/ build_conn(s)
  \/ build_fails(s) \/ ping(s) \/ reinit_session(s) \/ Drop(s) \/ Close(s)

PoolNext == refresh_endpoint \/ \E s \in Sessions : SessionStep(s)

PoolSpec == PoolInit /\ [][PoolNext]_poolVars

-----------------------------------------------------------------------------
PoolTypeOK ==
  /\ made \in BOOLEAN /\ gen \in Nat /\ idle \subseteq Conns
  /\ sess \in [Sessions -> [at : Steps, fresh : BOOLEAN, gen : Nat, conn : SUBSET Conns,
                            tries : Nat]]
  /\ used \subseteq Conns /\ born \in [Conns -> Nat] /\ epoch \in Nat /\ remade \in BOOLEAN

(* After a refresh no connection from before it is ever idle again: those   *)
(* in use when it ran are recognised by their generation when they come     *)
(* back.  Two sessions that make the pool at the same time break this,      *)
(* because the second one starts the generations again (refresh_endpoint,   *)
(* Drop for PoolConn, ensure_pool_inner).                                   *)
RefreshDrains == ~remade => \A c \in idle : born[c] = epoch

(* A connection has one owner: the pool or one session (get_conn, Drop).    *)
OneOwner ==
  /\ \A s \in Sessions : sess[s].conn \cap idle = {}
  /\ \A s, t \in Sessions : s # t => sess[s].conn \cap sess[t].conn = {}

(* The pool keeps no more idle connections than its size, whoever returns   *)
(* them (put_conn).                                                         *)
PoolBounded == Cardinality(idle) <= Size

(* The pool of an endpoint at every moment: no connection has two owners,   *)
(* none outlives a refresh, and there are never too many.                   *)
PoolKept == PoolTypeOK /\ RefreshDrains /\ OneOwner /\ PoolBounded

=============================================================================
