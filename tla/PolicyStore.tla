---------------------------- MODULE PolicyStore ----------------------------
(***************************************************************************)
(* The hot-reloaded policy of the gateway: LocalPdpStore, reload_global_   *)
(* local_pdp, install_local_pdp and the mtime poll of gateway/core/src/    *)
(* pdp.rs, the shared file of policy_file.rs, the Cedar store of           *)
(* cedar_pdp.rs, and an authorization that loads the snapshot anew at      *)
(* every gate while all of that goes on.                                   *)
(*                                                                         *)
(* Several processes share one policy file.  A thread is busy with one job *)
(* at a time: "reload" (the admin API), "refresh" (the poll that load()    *)
(* makes before it returns a snapshot), "boot" (install_local_pdp at a     *)
(* start of the process) or "install" (install_local_pdp in a running one, *)
(* for a portal request or a listener that is added or rebuilt).  No lock  *)
(* keeps two jobs apart.  The authorizations run in process Here.          *)
(***************************************************************************)
EXTENDS LocalPdp

CONSTANTS
    Threads,      \* a set of <<process, number>>
    Here,         \* the process whose authorizations are followed
    Policies,     \* versions of the hot-reloadable fields, by name
    Content,      \* what each of them says
    Permits,      \* contents of the Cedar directory that load
    Statements,   \* per backend, the statements that arrive
    Scenes        \* per backend, how it begins and its bounds: [installed, events,
                  \* requests], the bounds being on reloads, installs, restarts,
                  \* edits, failed reads and writes, and on statements

Procs == {t[1] : t \in Threads}

ASSUME ContentAssumption == DOMAIN Content = Policies /\ None \notin Policies
ASSUME HereAssumption == Here \in Procs

VARIABLES
    backend,  \* security.pdp: "local", "cedar", "remote", "remote_open"
    file,     \* the shared file: [policy (None: missing), mtime, again (written twice
              \* within the resolution of its mtime)]
    store,    \* per process: [policy, engine, mtime]
    thread,   \* per thread: [job, pc, policy, engine, mtime]
    dir,      \* what the Cedar directory of process Here holds, <<>> if invalid
    cedar,    \* the Cedar store of process Here
    req,      \* the authorization in progress in process Here
    spoiled,  \* threads whose job could not use the file, or was crossed by another
    apart,    \* processes whose last job was spoiled
    left      \* what is left of the bounds: [events, requests]

vars == <<backend, file, store, thread, dir, cedar, req, spoiled, apart, left>>

Idle == [job |-> None, pc |-> "idle", policy |-> <<>>, engine |-> FALSE, mtime |-> 0]
ToLoad(job, mtime) ==
    [job |-> job, pc |-> "load", policy |-> <<>>, engine |-> FALSE, mtime |-> mtime]
NoRequest == [pc |-> "idle"]
Unloaded == [loaded |-> FALSE, permits |-> {}]

\* load_dir_snapshot and reload_from_dir: a directory that does not load leaves
\* the store as it is, and so does one with the content it already holds.

CedarReload(d) ==
    IF d = <<>> THEN cedar ELSE [loaded |-> TRUE, permits |-> d[1]]

\* Every process has installed its policy from the file, or there is no file yet
\* and one thread of each process is about to install.
Init ==
    /\ backend \in {"local", "cedar", "remote", "remote_open"}
    /\ dir \in {<<d>> : d \in Permits} \cup {<<>>}
    /\ backend # "cedar" => dir = <<>>
    /\ \E scene \in Scenes[backend] :
       /\ left = [events |-> scene.events, requests |-> scene.requests]
       /\ \/ /\ scene.installed
             /\ \E p \in Policies : file = [policy |-> p, mtime |-> 1, again |-> FALSE]
             /\ cedar = IF dir = <<>> THEN Unloaded ELSE [loaded |-> TRUE, permits |-> dir[1]]
             /\ store = [q \in Procs |-> [policy |-> file.policy, engine |-> dir # <<>>, mtime |-> 1]]
             /\ thread = [t \in Threads |-> Idle]
             /\ apart = {}
          \/ /\ ~scene.installed
             /\ file = [policy |-> None, mtime |-> 0, again |-> FALSE]
             /\ cedar = Unloaded
             /\ \E p \in Policies : store = [q \in Procs |-> [policy |-> p, engine |-> FALSE, mtime |-> 0]]
             /\ \E first \in [Procs -> Threads] :
                   /\ \A q \in Procs : first[q][1] = q
                   /\ thread = [t \in Threads |-> IF first[t[1]] = t THEN ToLoad("boot", 0) ELSE Idle]
             /\ apart = Procs
    /\ req = NoRequest
    /\ spoiled = {}

\* a snapshot became current in process q: an authorization in flight there has
\* it among the ones in force
InForceNow(q, policy, engine) ==
    IF q = Here /\ req.pc # "idle"
    THEN [req EXCEPT !.force = @ \cup {[policy |-> policy, engine |-> engine]}]
    ELSE req

-----------------------------------------------------------------------------
(* Jobs                                                                     *)

\* A process that starts does nothing else before it has installed its policy.
MayStart(t) ==
    thread[t].pc = "idle" /\ \A u \in Threads : u[1] = t[1] => thread[u].job # "boot"

Installs(t) == thread[t].job \in {"boot", "install"}

\* Between the swap of a job and its record.
Swapped(t) == thread[t].pc \in {"persist", "stat", "record"}

\* What t swaps in and what another job of the process has swapped in will be
\* recorded in either order.
CrossedBySwap(t) ==
    LET others == {u \in Threads \ {t} : u[1] = t[1] /\ Swapped(u)}
    IN  IF others = {} THEN {} ELSE others \cup {t}

\* What these have read or written is no longer the file when they ask for its
\* mtime.
CrossedByWrite(t) ==
    {u \in Threads \ {t} : thread[u].pc = "stat" \/ (thread[u].pc = "swap" /\ Installs(u))}

\* reload_global_local_pdp up to the swap: from_config_preserving_cedar loads
\* the Cedar directory and keeps the previous engine when that fails.
Reload(t, policy) ==
    /\ MayStart(t) /\ left.events > 0
    /\ policy # store[t[1]].policy  \* bound: only reloads that change something
    /\ left' = [left EXCEPT !.events = @ - 1]
    /\ LET here == t[1] = Here /\ backend = "cedar"
       IN  /\ thread' = [thread EXCEPT ![t] = [job |-> "reload", pc |-> "swap", policy |-> policy,
                            engine |-> backend = "cedar" /\ (store[t[1]].engine \/ dir # <<>>),
                            mtime |-> 0]]
           /\ cedar' = IF here THEN CedarReload(dir) ELSE cedar
           /\ req' = IF here /\ req.pc # "idle"
                     THEN [req EXCEPT !.cedars = @ \cup {CedarReload(dir)}] ELSE req
    /\ UNCHANGED <<backend, file, store, dir, spoiled, apart>>

\* Mutant of Changed: the file is loaded only while no mtime is known.
Changed_unknown(q) == file.policy # None /\ store[q].mtime = 0

\* the comparison of the file's mtime with the one last applied
Changed(q) == file.policy # None /\ file.mtime # store[q].mtime

\* maybe_refresh_from_policy_file: the poll is due and wins the exchange; the
\* file's mtime is not the one last applied.
Refresh(t) ==
    /\ MayStart(t)
    /\ Changed(t[1])
    /\ thread' = [thread EXCEPT ![t] = ToLoad("refresh", file.mtime)]
    /\ UNCHANGED <<backend, file, store, dir, cedar, req, spoiled, apart, left>>

\* the process dies, whatever its threads were doing, and install_local_pdp
\* runs in the new one
Restart(t) ==
    /\ left.events > 0
    /\ left' = [left EXCEPT !.events = @ - 1]
    /\ thread' = [u \in Threads |->
                    IF u = t THEN ToLoad("boot", 0)
                    ELSE IF u[1] = t[1] THEN Idle ELSE thread[u]]
    /\ store' = [store EXCEPT ![t[1]].engine = FALSE]
    /\ cedar' = IF t[1] = Here THEN Unloaded ELSE cedar
    /\ req' = IF t[1] = Here THEN NoRequest ELSE req
    /\ spoiled' = {u \in spoiled : u[1] # t[1]}
    /\ apart' = apart \cup {t[1]}
    /\ UNCHANGED <<backend, file, dir>>

\* LocalPdp::from_config in a running process
Install(t) ==
    /\ MayStart(t) /\ left.events > 0
    /\ left' = [left EXCEPT !.events = @ - 1]
    /\ thread' = [thread EXCEPT ![t] = ToLoad("install", 0)]
    /\ UNCHANGED <<backend, file, store, dir, cedar, req, spoiled, apart>>

\* load_local_pdp_policy_file under the shared lock.  A failed read ends a
\* refresh and leaves the old mtime; install_local_pdp falls back to the
\* configuration of the process, and seeds a missing file from it
\* (merge_local_pdp_from_file).
LoadFile(t) ==
    /\ thread[t].pc = "load"
    /\ \/ /\ file.policy # None
          /\ thread' = [thread EXCEPT ![t].policy = file.policy, ![t].pc = "swap",
                            ![t].engine = store[t[1]].engine]
          /\ UNCHANGED <<spoiled, left>>
       \/ /\ file.policy = None /\ Installs(t)
          /\ \E p \in Policies : thread' = [thread EXCEPT ![t].policy = p, ![t].pc = "seed"]
          /\ UNCHANGED <<spoiled, left>>
       \/ /\ left.events > 0
          /\ left' = [left EXCEPT !.events = @ - 1]
          /\ IF thread[t].job = "refresh"
             THEN thread' = [thread EXCEPT ![t] = Idle] /\ UNCHANGED spoiled
             ELSE /\ \E p \in Policies : thread' = [thread EXCEPT ![t].policy = p, ![t].pc = "swap"]
                  /\ spoiled' = spoiled \cup {t}
    /\ UNCHANGED <<backend, file, store, dir, cedar, req, apart>>

\* swap: install_local_pdp builds the snapshot with from_config, which takes
\* what the Cedar directory holds now
Swap(t) ==
    LET q == t[1]
        anew == Installs(t) /\ backend = "cedar"
        engine == IF anew THEN dir # <<>> ELSE thread[t].engine
        held == IF anew /\ q = Here THEN CedarReload(dir) ELSE cedar
        now == InForceNow(q, thread[t].policy, engine)
    IN  /\ thread[t].pc = "swap"
        /\ store' = [store EXCEPT ![q].policy = thread[t].policy, ![q].engine = engine]
        /\ thread' = [thread EXCEPT ![t].pc = CASE thread[t].job = "reload" -> "persist"
                                                [] thread[t].job = "refresh" -> "record"
                                                [] OTHER -> "stat"]
        /\ cedar' = held
        /\ req' = IF req.pc # "idle" THEN [now EXCEPT !.cedars = @ \cup {held}] ELSE req
        /\ spoiled' = spoiled \cup CrossedBySwap(t)
        /\ UNCHANGED <<backend, file, dir, apart, left>>

\* save_local_pdp_policy_file, by persist_local_pdp_to_file or for a missing
\* file: temporary file and rename, under the exclusive lock; the mtime is the
\* file system's and need not move.  An error is logged and the job goes on.
Persist(t) ==
    /\ thread[t].pc \in {"persist", "seed"}
    /\ thread' = [thread EXCEPT ![t].pc = IF @ = "seed" THEN "swap" ELSE "stat"]
    /\ \/ /\ \E ticks \in {0, 1} :
                /\ file.policy = None => ticks = 1
                /\ file' = [policy |-> thread[t].policy, mtime |-> file.mtime + ticks,
                            again |-> ticks = 0]
          /\ spoiled' = spoiled \cup CrossedByWrite(t)
          /\ UNCHANGED left
       \/ /\ left.events > 0
          /\ left' = [left EXCEPT !.events = @ - 1]
          /\ spoiled' = spoiled \cup {t}
          /\ UNCHANGED file
    /\ UNCHANGED <<backend, store, dir, cedar, req, apart>>

\* policy_file_mtime_ns after the write
Stat(t) ==
    /\ thread[t].pc = "stat"
    /\ thread' = [thread EXCEPT ![t].pc = "record", ![t].mtime = file.mtime]
    /\ UNCHANGED <<backend, file, store, dir, cedar, req, spoiled, apart, left>>

\* Mutant of Recorded: whatever the file's mtime is by now is taken as applied.
Recorded_now(t) == file.mtime

\* configure_policy_poll stores the mtime that was read before
Recorded(t) == thread[t].mtime

Record(t) ==
    /\ thread[t].pc = "record"
    /\ store' = [store EXCEPT ![t[1]].mtime = Recorded(t)]
    /\ thread' = [thread EXCEPT ![t] = Idle]
    /\ spoiled' = spoiled \ {t}
    /\ apart' = IF t \in spoiled THEN apart \cup {t[1]} ELSE apart \ {t[1]}
    /\ UNCHANGED <<backend, file, dir, cedar, req, left>>

\* the policy directory is edited
EditDir ==
    /\ backend = "cedar" /\ left.events > 0
    /\ \E d \in {<<d>> : d \in Permits} \cup {<<>>} : d # dir /\ dir' = d
    /\ left' = [left EXCEPT !.events = @ - 1]
    /\ UNCHANGED <<backend, file, store, thread, cedar, req, spoiled, apart>>

\* POST /admin/security/cedar/reload: the store behind every engine; a snapshot
\* without an engine does not get one.
ReloadCedar ==
    /\ backend = "cedar" /\ CedarReload(dir) # cedar
    /\ cedar' = CedarReload(dir)
    /\ req' = IF req.pc # "idle" THEN [req EXCEPT !.cedars = @ \cup {cedar'}] ELSE req
    /\ UNCHANGED <<backend, file, store, thread, dir, spoiled, apart, left>>

-----------------------------------------------------------------------------
(* authorize_command_with_objects in process Here                           *)

\* Mutant of Load: the handle caches the first snapshot it has seen.
Load_first == [store[Here] EXCEPT !.policy = CHOOSE p \in Policies : TRUE]

\* load(): the snapshot that is current now
Load == store[Here]

Loaded == Content[Load.policy]

Snapshot(s) == [policy |-> s.policy, engine |-> s.engine]

Allow == [verdict |-> "allow", rewritten |-> FALSE, filter |-> {}, masks |-> {},
          max_rows |-> <<>>, watermark |-> FALSE]

End(verdict) == [req EXCEPT !.pc = "done", !.out.verdict = verdict]
Go(pc) == [req EXCEPT !.pc = pc]

\* the arms that look at nothing but the snapshot held from the start
Begin ==
    \E s \in Statements[backend] :
       LET p == Loaded
           r == [pc |-> "table", stmt |-> s, p |-> Load.policy, force |-> {Snapshot(store[Here])},
                 cedars |-> {cedar}, paid |-> 0, out |-> Allow]
           ends(verdict, rows) == [r EXCEPT !.pc = "done", !.out.verdict = verdict,
                                            !.out.max_rows = rows]
       IN  /\ req.pc = "idle" /\ left.requests > 0
           /\ left' = [left EXCEPT !.requests = @ - 1]
           /\ \A t \in Threads : t[1] = Here => thread[t].job # "boot"
           /\ req' = CASE s.command = "control" -> ends("allow", <<>>)
                      [] s.command = "execute" ->
                           IF p.fail_closed THEN ends("deny", <<>>) ELSE ends("allow", p.max_rows)
                      [] /\ s.command = "query" /\ p.fail_closed
                         /\ s.action = None \/ (~s.parsed /\ s.objects = {}) -> ends("deny", <<>>)
                      [] OTHER -> [r EXCEPT !.stmt.action = IF @ = None THEN "other" ELSE @]
           /\ UNCHANGED <<backend, file, store, thread, dir, cedar, spoiled, apart>>

AtTable ==
    /\ req.pc = "table"
    /\ req' = IF evaluate(Loaded, req.stmt) THEN End("deny")
              ELSE IF req.stmt.command # "query" THEN End("allow")
              ELSE Go(IF backend = "cedar" THEN "cedar"
                      ELSE IF backend = "local" THEN "time" ELSE "remote")
    /\ UNCHANGED <<backend, file, store, thread, dir, cedar, spoiled, apart, left>>

\* security.pdp names one backend: the gates of the others let everything pass
AtCedar ==
    /\ req.pc = "cedar"
    /\ req' = IF evaluate_cedar(Load.engine, cedar, req.stmt) THEN End("deny") ELSE Go("time")
    /\ UNCHANGED <<backend, file, store, thread, dir, cedar, spoiled, apart, left>>

AtRemote ==
    /\ req.pc = "remote"
    /\ \E answer \in {"allow", "deny", "error"} :
          req' = IF evaluate_remote(backend = "remote", answer) THEN End("deny") ELSE Go("time")
    /\ UNCHANGED <<backend, file, store, thread, dir, cedar, spoiled, apart, left>>

\* a gate that asks for a ticket of some type, and where it leads when paid
Ticketed(asked, pc) ==
    IF asked = <<>> THEN Go(pc)
    ELSE IF Pays(req.stmt, asked[1]) THEN [Go(pc) EXCEPT !.paid = @ + 1]
    ELSE End("ticket")

AtTime ==
    /\ req.pc = "time"
    /\ LET asked == evaluate_time_rules(Loaded, req.stmt)
       IN  req' = IF asked = <<"deny">> THEN End("deny") ELSE Ticketed(asked, "risk")
    /\ UNCHANGED <<backend, file, store, thread, dir, cedar, spoiled, apart, left>>

AtRisk ==
    /\ req.pc = "risk"
    /\ req' = Ticketed(match_high_risk(Loaded, req.stmt), "column")
    /\ UNCHANGED <<backend, file, store, thread, dir, cedar, spoiled, apart, left>>

\* the result gates, which only a SELECT has; the row cap is the one of the
\* first snapshot
ToResult ==
    LET capped == [req EXCEPT !.out.max_rows = Content[req.p].max_rows]
    IN  IF req.stmt.action = "select" THEN [capped EXCEPT !.pc = "filter"]
        ELSE [capped EXCEPT !.pc = "done"]

\* has_column_rules loads a snapshot of its own
AtColumn ==
    /\ req.pc = "column"
    /\ req' = IF ~has_column_rules(Loaded) THEN ToResult
              ELSE IF req.stmt.parsed \/ req.stmt.objects # {} THEN Go("acl")
              ELSE IF Content[req.p].fail_closed THEN End("deny") ELSE ToResult
    /\ UNCHANGED <<backend, file, store, thread, dir, cedar, spoiled, apart, left>>

AtAcl ==
    /\ req.pc = "acl"
    /\ LET acl == evaluate_column_acl(Loaded, req.stmt)
       IN  req' = IF acl = "deny" THEN End("deny")
                  ELSE [ToResult EXCEPT !.out.rewritten = acl = "rewrite"]
    /\ UNCHANGED <<backend, file, store, thread, dir, cedar, spoiled, apart, left>>

AtFilter ==
    /\ req.pc = "filter"
    /\ LET filter == collect_row_filter(Loaded, req.stmt)
       IN  req' = IF filter = {} THEN Go("mask")
                  ELSE IF req.stmt.filterable THEN [Go("mask") EXCEPT !.out.filter = filter]
                  ELSE IF Content[req.p].fail_closed THEN End("deny") ELSE Go("mask")
    /\ UNCHANGED <<backend, file, store, thread, dir, cedar, spoiled, apart, left>>

AtMask ==
    /\ req.pc = "mask"
    /\ req' = [Go("watermark") EXCEPT !.out.masks = collect_mask_specs(Loaded, req.stmt)]
    /\ UNCHANGED <<backend, file, store, thread, dir, cedar, spoiled, apart, left>>

AtWatermark ==
    /\ req.pc = "watermark"
    /\ req' = [End("allow") EXCEPT !.out.watermark = Loaded.watermark]
    /\ UNCHANGED <<backend, file, store, thread, dir, cedar, spoiled, apart, left>>

Answer ==
    /\ req.pc = "done" /\ req' = NoRequest
    /\ UNCHANGED <<backend, file, store, thread, dir, cedar, spoiled, apart, left>>

-----------------------------------------------------------------------------
Authorize ==
    \/ Begin \/ AtTable \/ AtCedar \/ AtRemote \/ AtTime \/ AtRisk \/ AtColumn \/ AtAcl
    \/ AtFilter \/ AtMask \/ AtWatermark \/ Answer

Job(t) ==
    \/ Refresh(t) \/ LoadFile(t) \/ Swap(t) \/ Persist(t) \/ Stat(t) \/ Record(t)

Next ==
    \/ Authorize
    \/ \E t \in Threads : Job(t) \/ Restart(t) \/ Install(t) \/ \E p \in Policies : Reload(t, p)
    \/ EditDir \/ ReloadCedar

\* A job that has begun goes on; statements keep arriving and time passes, so
\* the poll is due again and again.
Spec == Init /\ [][Next]_vars /\ \A t \in Threads : WF_vars(Job(t))

-----------------------------------------------------------------------------
\* Every variable has its type; the mtime a process has recorded is one the
\* file has had (configure_policy_poll, maybe_refresh_from_policy_file).
TypeOK ==
    /\ file.policy \in Policies \cup {None}
    /\ \A q \in Procs : store[q].policy \in Policies /\ store[q].mtime \in 0..file.mtime
    /\ \A t \in Threads :
          /\ thread[t].pc \in {"idle", "load", "seed", "swap", "persist", "stat", "record"}
          /\ t \in spoiled => thread[t].pc # "idle"
    /\ apart \subseteq Procs
    /\ cedar.loaded \/ cedar.permits = {}

\* What the authorization in hand has passed, by a snapshot that was in force.
TablePassed == \E f \in req.force : ~evaluate(Content[f.policy], req.stmt)
CedarPassed ==
    backend = "cedar" => \E f \in req.force, c \in req.cedars : ~evaluate_cedar(f.engine, c, req.stmt)
TimePassed ==
    \E f \in req.force : LET asked == evaluate_time_rules(Content[f.policy], req.stmt)
                         IN  asked = <<>> \/ (asked # <<"deny">> /\ req.paid > 0)
RiskPassed ==
    \E f \in req.force : match_high_risk(Content[f.policy], req.stmt) = <<>> \/ req.paid > 0
AclPassed ==
    req.stmt.parsed => \E f \in req.force : evaluate_column_acl(Content[f.policy], req.stmt) # "deny"

\* What its result is bound by.
CapInForce == \E f \in req.force : req.out.max_rows = Content[f.policy].max_rows
FilterInForce ==
    req.stmt.filterable =>
       \E f \in req.force : req.out.filter = collect_row_filter(Content[f.policy], req.stmt)
MasksKept ==
    \E f \in req.force : collect_mask_specs(Content[f.policy], req.stmt) \subseteq req.out.masks
WatermarkInForce == \E f \in req.force : req.out.watermark = Content[f.policy].watermark

\* A ticket is asked for.
Asks(f) ==
    \/ evaluate_time_rules(Content[f.policy], req.stmt) # <<>>
    \/ match_high_risk(Content[f.policy], req.stmt) # <<>>
Asked == \E f \in req.force : Asks(f)

\* One gate of one snapshot turns the statement away ...
Refuses(f, c) ==
    LET s == req.stmt
        p == Content[f.policy]
        ticket(asked) == asked # <<>> /\ ~(asked # <<"deny">> /\ Pays(s, asked[1]))
    IN  \/ evaluate(p, s)
        \/ s.command = "query" /\
              \/ backend = "cedar" /\ evaluate_cedar(f.engine, c, s)
              \/ ticket(evaluate_time_rules(p, s))
              \/ ticket(match_high_risk(p, s))
              \/ evaluate_column_acl(p, s) = "deny" /\ has_column_rules(p)
                    /\ (s.parsed \/ s.objects # {})

\* ... or the first snapshot says to refuse what was not understood, or what the
\* filter of a later one cannot be put on.
FailsClosed(f) ==
    LET s == req.stmt
    IN  /\ Content[req.p].fail_closed /\ s.command = "query"
        /\ \/ s.action = None
           \/ ~s.parsed /\ s.objects = {}
           \/ ~s.filterable /\ collect_row_filter(Content[f.policy], s) # {}

Refused == \E f \in req.force, c \in req.cedars : Refuses(f, c) \/ FailsClosed(f)

\* Whatever reloads, refreshes and Cedar reloads run meanwhile, every gate an
\* allowed statement has passed let it pass by a snapshot that was in force while
\* it was decided, its row cap, row filter and watermark are those of such a
\* snapshot and the masks of one are all on it; it pays only when such a snapshot
\* asks; and a statement is turned away by one of them.
\* (authorize_command_with_objects calls load() once per gate.)
DecidedInForce ==
    (req.pc = "done" /\ req.stmt.command \in {"query", "tcl", "use"}) =>
       /\ req.out.verdict = "allow" =>
            /\ TablePassed
            /\ req.stmt.command = "query" =>
                 CedarPassed /\ TimePassed /\ RiskPassed /\ AclPassed /\ CapInForce
            /\ req.stmt.command = "query" /\ req.stmt.action = "select" =>
                 FilterInForce /\ MasksKept /\ WatermarkInForce
       /\ req.paid > 0 => Asked
       /\ req.out.verdict # "allow" /\ backend \notin {"remote", "remote_open"} => Refused

\* A process that is between jobs and takes the file's present mtime as applied
\* runs the file's policy: "hot-swap if mtime changed" is enough to keep processes
\* in step, however jobs overlap, until a job is spoiled (the file could not be
\* read or written, another job of the process swapped between its swap and its
\* record, or another write came before it asked for the mtime), and again from
\* the next job that is not.  Of two writes within one mtime a poll sees one.
\* (configure_policy_poll, maybe_refresh_from_policy_file)
PollAgrees ==
    \A q \in Procs :
       (/\ \A t \in Threads : t[1] = q => ~Swapped(t)
        /\ q \notin apart /\ ~file.again
        /\ store[q].mtime = file.mtime) => store[q].policy = file.policy

\* Once a reload has loaded Cedar policies, no later reload leaves the process
\* without any, however the directory looks (reload_from_dir keeps the old).
CedarKept ==
    [][(cedar.loaded /\ ~cedar'.loaded) => \E t \in Threads : thread'[t].job = "boot"]_vars

\* When reloads stop, every process ends up with the policy in the file, by
\* its poll, unless its last job was spoiled or the last write kept the mtime.
Converges ==
    <>[](file.again \/ \A q \in Procs : q \in apart \/ store[q].policy = file.policy)

\* What a poll saw is what the process holds, and the variables keep their
\* types.
PollsAgree == TypeOK /\ PollAgrees

\* A published policy reaches every process, and a reload that fails keeps
\* the rules it would have replaced.
PoliciesSettle == CedarKept /\ Converges

=============================================================================
