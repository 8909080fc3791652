----------------------------- MODULE Listeners -----------------------------
(***************************************************************************)
(* The listeners of the gateway and the admin requests that change them:    *)
(* the accept loops of runtime/gateway/src/gateway.rs, AdminRuntimeState    *)
(* and the reload, add, stop and route policy handlers of                   *)
(* http/src/http/mod.rs, and the part of a portal query that builds a plan. *)
(*                                                                          *)
(* A document is what the configuration says: a version of every listener   *)
(* (0 when there is none), of the rules (hot reloaded), of the part of the  *)
(* security section that a listener is built with, of the route policies,   *)
(* and the listeners that validate but cannot be built.  The handlers run   *)
(* concurrently, on no common lock.                                         *)
(***************************************************************************)
EXTENDS Naturals, Sequences, FiniteSets, SequencesExt

CONSTANTS Names,        \* listener names, a sequence in the order of the maps
          Docs,         \* the documents an operator may have written to the file
          Start,        \* the document the process is started with
          Admins,       \* how many requests may be in flight at once
          MaxRequests, MaxSessions

VARIABLES config,       \* the shared document
          runtimes,     \* every listener runtime ever spawned
          handles,      \* name -> index of the registered runtime, 0 when none
          rules,        \* the rules in force in the process
          task,         \* admin -> what its request still has to do
          requests,     \* requests so far, a bound
          raced,        \* history: listeners whose entry in the document was replaced
                        \* while another reload was under way
          skipped,      \* history: listeners that a reload left out as it broke off
          spoiled       \* history: the rules in force were written for another
                        \* document, or a reload ended without writing its own

histories == <<raced, skipped, spoiled>>
listenerVars == <<config, runtimes, handles, rules, task, requests, histories>>

NameSet == ToSet(Names)
Nobody == [op |-> "idle", doc |-> Start, todo |-> <<>>, hot |-> FALSE]

Spawned(n, doc) ==
  [name |-> n, ver |-> doc.listeners[n], shape |-> doc.shape, phase |-> "spawned",
   stop |-> "no", live |-> 0]

Defined(doc) == SelectSeq(Names, LAMBDA n : doc.listeners[n] # 0)

(* main builds every listener of the document, then spawns them.            *)
ListenersInit ==
  /\ config = Start
  /\ runtimes = [k \in 1..Len(Defined(Start)) |-> Spawned(Defined(Start)[k], Start)]
  /\ handles = [n \in NameSet |-> IF n \in ToSet(Defined(Start))
                                  THEN CHOOSE k \in 1..Len(Names) : Defined(Start)[k] = n ELSE 0]
  /\ rules = Start.rules
  /\ task = [a \in 1..Admins |-> Nobody]
  /\ requests = 0
  /\ raced = {} /\ skipped = {} /\ spoiled = FALSE

-----------------------------------------------------------------------------
(* One listener: start_core_listener                                        *)

Others == <<config, handles, rules, task, requests, histories>>
Put(k, r) == runtimes' = [runtimes EXCEPT ![k] = r]

(* The socket is bound once; the address is taken while another runtime of  *)
(* the same listener still holds its socket.                                *)
Bind(k) ==
  LET r == runtimes[k]
      taken == \E j \in 1..Len(runtimes) :
                 j # k /\ runtimes[j].name = r.name /\ runtimes[j].phase \in {"accepting", "draining"}
  IN /\ r.phase = "spawned"
     /\ Put(k, [r EXCEPT !.phase = IF taken THEN "ended" ELSE "accepting"])
     /\ UNCHANGED Others

(* The loop waits for a connection and for the shutdown at once: it may     *)
(* still take a connection after the shutdown.                              *)
Accept(k) ==
  LET r == runtimes[k] IN
  /\ r.phase = "accepting"
  /\ Cardinality({j \in 1..Len(runtimes) : runtimes[j].live > 0}) < MaxSessions
  /\ Put(k, [r EXCEPT !.live = @ + 1])
  /\ UNCHANGED Others

Faulty == \E j \in 1..Len(runtimes) : runtimes[j].phase = "failed"

(* An error of accept ends the listener at once.  One such error is enough. *)
AcceptFails(k) ==
  LET r == runtimes[k] IN
  /\ r.phase = "accepting" /\ ~Faulty
  /\ Put(k, [r EXCEPT !.phase = "failed"])
  /\ UNCHANGED Others

Cancelled(k) ==
  LET r == runtimes[k] IN
  /\ r.phase = "accepting" /\ r.stop # "no"
  /\ Put(k, [r EXCEPT !.phase = "draining"])
  /\ UNCHANGED Others

SessionEnds(k) ==
  LET r == runtimes[k] IN
  /\ r.live > 0
  /\ Put(k, [r EXCEPT !.live = @ - 1])
  /\ UNCHANGED Others

Drained(k) ==
  LET r == runtimes[k] IN
  /\ r.phase = "draining" /\ r.live = 0
  /\ Put(k, [r EXCEPT !.phase = "ended"])
  /\ UNCHANGED Others

Run(k) == Bind(k) \/ Cancelled(k) \/ Drained(k)
Serve(k) == Run(k) \/ Accept(k) \/ AcceptFails(k) \/ SessionEnds(k)

-----------------------------------------------------------------------------
(* AdminRuntimeState                                                        *)

(* The runtime is told to shut down, by a reload or by an operator; its     *)
(* handle stays.                                                            *)
stop_listener(rs, hs, n, why) ==
  [rs |-> IF hs[n] = 0 THEN rs ELSE [rs EXCEPT ![hs[n]].stop = why], hs |-> hs]

(* Mutant of register_listener: the handle of the old runtime is replaced.  *)
register_listener_over(hs, n, k) == <<[hs EXCEPT ![n] = k]>>
(* <<>> when a runtime of that name is already registered.                  *)
register_listener(hs, n, k) == IF hs[n] # 0 THEN <<>> ELSE <<[hs EXCEPT ![n] = k]>>

RECURSIVE StopAll(_, _, _)
StopAll(rs, hs, ns) ==
  IF ns = <<>> THEN rs
  ELSE StopAll(stop_listener(rs, hs, Head(ns), "reload").rs, stop_listener(rs, hs, Head(ns), "reload").hs, Tail(ns))

-----------------------------------------------------------------------------
(* The requests                                                             *)

(* A request takes the first free place: places do not differ.               *)
Enter(a) == /\ task[a].op = "idle" /\ \A b \in 1..(a - 1) : task[b].op # "idle"
            /\ requests < MaxRequests /\ requests' = requests + 1
Leave(a) == task' = [task EXCEPT ![a] = Nobody]

(* GatewayConfigDiff::between                                               *)
added(cur, next) == SelectSeq(Names, LAMBDA n : cur.listeners[n] = 0 /\ next.listeners[n] # 0)
removed(cur, next) == SelectSeq(Names, LAMBDA n : cur.listeners[n] # 0 /\ next.listeners[n] = 0)
changed(cur, next) ==
  SelectSeq(Names, LAMBDA n : cur.listeners[n] # 0 /\ next.listeners[n] # 0
                              /\ (cur.listeners[n] # next.listeners[n] \/ cur.shape # next.shape))

has_changes(cur, next) == cur # next

(* The listeners of which a request a replaces the entry, by doc, under the  *)
(* eyes of another reload.                                                   *)
Reloading(a) == \E b \in (1..Admins) \ {a} : task[b].op \in {"apply", "stop", "start"}
Crossed(a, doc) ==
  {n \in NameSet : Reloading(a) /\ (config.listeners[n] # doc.listeners[n] \/ config.shape # doc.shape)}

(* admin_reload up to the diff: the document in force is read, then the     *)
(* file, which the operator may have changed.  A file that does not load,   *)
(* or no change, ends the request there.                                    *)
ReloadRead(a, file) ==
  /\ file # <<>> /\ has_changes(config, file[1])
  /\ Enter(a)
  /\ task' = [task EXCEPT ![a] =
       [op |-> "apply", doc |-> file[1],
        hot |-> config.rules # file[1].rules \/ config.shape # file[1].shape,
        todo |-> <<removed(config, file[1]) \o changed(config, file[1]),
                   added(config, file[1]) \o changed(config, file[1])>>]]
  /\ UNCHANGED <<config, runtimes, handles, rules, histories>>

(* The shared document is replaced, perhaps another one than the one that   *)
(* was compared.                                                            *)
ReloadApply(a) ==
  LET t == task[a] IN
  /\ t.op = "apply"
  /\ config' = t.doc
  /\ task' = [task EXCEPT ![a].op = "stop"]
  /\ raced' = raced \cup Crossed(a, t.doc)
  /\ spoiled' = (spoiled \/ (config.rules # t.doc.rules /\ ~t.hot))
  /\ UNCHANGED <<runtimes, handles, rules, requests, skipped>>

(* The removed and the changed listeners are stopped.                       *)
ReloadStop(a) ==
  LET t == task[a] IN
  /\ t.op = "stop"
  /\ runtimes' = StopAll(runtimes, handles, t.todo[1])
  /\ handles' = [n \in NameSet |-> IF n \in ToSet(t.todo[1])
                                   THEN stop_listener(runtimes, handles, n, "reload").hs[n] ELSE handles[n]]
  /\ task' = [task EXCEPT ![a].op = "start", ![a].todo = t.todo[2]]
  /\ UNCHANGED <<config, rules, requests, histories>>

(* The plan of the whole document is built: every listener of it, in order, *)
(* up to the first that cannot be built.  The first that can installs the   *)
(* rules.                                                                   *)
Built(doc) == doc.stuck = 0
Installs(doc) == Len(Defined(doc)) > 0 /\ doc.stuck # 1
RulesOf(doc) == IF Installs(doc) THEN doc.rules ELSE rules
SpoiledBy(doc) == IF Installs(doc) THEN doc.rules # config.rules ELSE spoiled

(* A refused registration is stopped and tried once more.                   *)
Registered(n) == register_listener(handles, n, Len(runtimes) + 1)

(* The next added or changed listener is built, registered and spawned; a   *)
(* failure ends the request where it is.                                    *)
ReloadStart(a) ==
  LET t == task[a]
      n == Head(t.todo)
  IN /\ t.op = "start" /\ t.todo # <<>>
     /\ rules' = RulesOf(t.doc)
     /\ IF Built(t.doc) /\ Registered(n) # <<>>
        THEN /\ handles' = Registered(n)[1]
             /\ runtimes' = Append(runtimes, Spawned(n, t.doc))
             /\ task' = [task EXCEPT ![a].todo = Tail(@)]
             /\ skipped' = skipped \ {n} /\ spoiled' = SpoiledBy(t.doc)
        ELSE /\ Leave(a) /\ skipped' = skipped \cup ToSet(t.todo)
             /\ spoiled' = (SpoiledBy(t.doc) \/ (t.hot /\ ~Installs(t.doc)))
             /\ runtimes' = IF Built(t.doc) THEN stop_listener(runtimes, handles, n, "reload").rs ELSE runtimes
             /\ UNCHANGED handles
     /\ UNCHANGED <<config, requests, raced>>

(* maybe_reload_local_pdp and the end of the reload.                        *)
ReloadRules(a) ==
  /\ task[a].op = "start" /\ task[a].todo = <<>>
  /\ Leave(a)
  /\ rules' = IF task[a].hot THEN task[a].doc.rules ELSE rules
  /\ spoiled' = IF task[a].hot THEN task[a].doc.rules # config.rules ELSE spoiled
  /\ UNCHANGED <<config, runtimes, handles, requests, raced, skipped>>

(* admin_add_listener, whole under the write lock of the document.  A name  *)
(* that is defined does not validate.                                       *)
AddListener(a, n) ==
  LET doc == [config EXCEPT !.listeners[n] = 1]
      hs == register_listener(handles, n, Len(runtimes) + 1)
  IN /\ Enter(a) /\ config.listeners[n] = 0
     /\ rules' = RulesOf(doc) /\ spoiled' = SpoiledBy(doc)
     /\ IF Built(doc) /\ hs # <<>>
        THEN /\ handles' = hs[1] /\ config' = doc
             /\ runtimes' = Append(runtimes, Spawned(n, doc))
             /\ raced' = raced \cup Crossed(a, doc) /\ skipped' = skipped \ {n}
        ELSE UNCHANGED <<handles, config, runtimes, raced, skipped>>
     /\ UNCHANGED task

(* admin_replace_route_policy: the document only.                           *)
ReplaceRoutePolicy(a) ==
  /\ Enter(a)
  /\ config' = [config EXCEPT !.route = 3 - @]
  /\ UNCHANGED <<runtimes, handles, rules, task, histories>>

StopListener(a, n) ==
  LET s == stop_listener(runtimes, handles, n, "admin") IN
  /\ Enter(a) /\ handles[n] # 0
  /\ runtimes' = s.rs /\ handles' = s.hs
  /\ UNCHANGED <<config, rules, task, histories>>

(* A portal query copies the document and then builds a plan of its copy.   *)
QueryRead(a) ==
  /\ Enter(a)
  /\ task' = [task EXCEPT ![a] = [Nobody EXCEPT !.op = "plan", !.doc = config]]
  /\ UNCHANGED <<config, runtimes, handles, rules, histories>>

QueryPlan(a) ==
  /\ task[a].op = "plan"
  /\ rules' = RulesOf(task[a].doc) /\ spoiled' = SpoiledBy(task[a].doc)
  /\ Leave(a)
  /\ UNCHANGED <<config, runtimes, handles, requests, raced, skipped>>

Goes(a) == ReloadApply(a) \/ ReloadStop(a) \/ ReloadStart(a) \/ ReloadRules(a) \/ QueryPlan(a)

ListenersNext ==
  \/ \E k \in 1..Len(runtimes) : Serve(k)
  \/ \E a \in 1..Admins, d \in {<<>>} \cup {<<x>> : x \in Docs \cup {Start}} : ReloadRead(a, d)
  \/ \E a \in 1..Admins : Goes(a) \/ ReplaceRoutePolicy(a) \/ QueryRead(a)
  \/ \E a \in 1..Admins, n \in NameSet : AddListener(a, n) \/ StopListener(a, n)

-----------------------------------------------------------------------------
Up(r) == r.phase \in {"spawned", "accepting"}
Quiet == \A a \in 1..Admins : task[a].op = "idle"

(* Every runtime that serves and was not told to stop is registered, so     *)
(* that a stop request or a later reload reaches it: no reload, however it  *)
(* overlaps with others, leaves an accept loop nobody can end.              *)
Reachable ==
  \A k \in 1..Len(runtimes) :
    Up(runtimes[k]) /\ runtimes[k].stop = "no" => handles[runtimes[k].name] = k

(* A listener that ends after a shutdown has waited for its sessions.       *)
DrainsSessions == \A k \in 1..Len(runtimes) : runtimes[k].phase = "ended" => runtimes[k].live = 0

(* A runtime is of the document in force: its version and its shape.         *)
Fits(r) == r.ver = config.listeners[r.name] /\ r.shape = config.shape

(* Once no request is under way, no accept loop goes on for an entry that a *)
(* reload has replaced or removed, not even when the reload broke off       *)
(* (admin_reload stops before it starts).  Only an entry that two requests  *)
(* replaced at once may be served in a version the document has not.        *)
NothingStale ==
  Quiet => \A r \in ToSet(runtimes) : Up(r) /\ r.stop = "no" /\ r.name \notin raced => Fits(r)

(* Once no request is under way, every listener of the document has been    *)
(* started, and the one that was not told to stop serves, or has failed to  *)
(* accept.  The exceptions are the entries that a reload which broke off    *)
(* had not reached, and those that two requests replaced at once.           *)
ServesDocument ==
  Quiet => \A n \in NameSet \ (raced \cup skipped) : config.listeners[n] # 0 =>
    /\ handles[n] # 0
    /\ LET r == runtimes[handles[n]] IN r.stop = "no" => (Up(r) \/ r.phase = "failed") /\ Fits(r)

(* A reload tells a listener to stop only when it does not fit the document *)
(* it has applied: the others go on, whatever else the reload changes.      *)
StopsOnlyChanged ==
  \A k \in 1..Len(runtimes) :
    runtimes[k].stop = "no" /\ runtimes'[k].stop = "reload" /\ runtimes[k].name \notin raced =>
      ~Fits(runtimes[k])

(* What the code makes of a listener that was told to stop, a changed one   *)
(* included: its handle stays, so its name is never served again while the  *)
(* process lives (register_listener and stop_listener), although            *)
(* admin_reload sets out to "replace registration".                         *)
OneLife ==
  \A j, k \in 1..Len(runtimes) : runtimes[j].name = runtimes[k].name => j = k

(* Once no request is under way, the rules in force are those of the        *)
(* document, unless they were last written by a request that had copied an  *)
(* earlier document, or a reload compared with one or broke off before it   *)
(* wrote them; the next plan or reload of the document repairs it.          *)
RulesInForce == Quiet /\ ~spoiled => rules = config.rules

(* A listener that was told to stop stops accepting, whatever its clients   *)
(* and the admin requests do.                                               *)
StopTakesEffect ==
  \A k \in 1..Len(Names) :
    (k <= Len(runtimes) /\ runtimes[k].stop # "no") ~> (k <= Len(runtimes) /\ ~Up(runtimes[k]))

ListenersTypeOK ==
  /\ \A n \in NameSet : handles[n] \in 0..Len(runtimes)
  /\ \A k \in 1..Len(runtimes) :
       /\ runtimes[k].phase \in {"spawned", "accepting", "draining", "ended", "failed"}
       /\ runtimes[k].live \in 0..MaxSessions

(* Reloads, starts and stops that may overlap and fail: what serves is of    *)
(* the document and within reach, what was told to stop ends after its       *)
(* sessions and stays down, and the rules are the document's, each but for   *)
(* the exception it names.                                                   *)
ListenersServe ==
  /\ [](ListenersTypeOK /\ Reachable /\ DrainsSessions /\ NothingStale /\ ServesDocument
        /\ OneLife /\ RulesInForce)
  /\ [][StopsOnlyChanged]_listenerVars
  /\ StopTakesEffect

=============================================================================
