--------------------------- MODULE AuditPipeline ----------------------------
(***************************************************************************)
(* The audit pipeline (gateway/core/src/audit_pipeline.rs).                *)
(*                                                                         *)
(* Threads of the data plane hand events to try_send, which never blocks:  *)
(* under a first lock the event enters the ring of recent events, under a  *)
(* second one it enters a bounded queue.  Denials go to a priority queue   *)
(* of their own.  One worker thread waits on a condition variable, takes   *)
(* priority events first and writes each event to a JSONL file.  The file  *)
(* is rotated when it is full, and rotated files are deleted by age and by *)
(* number.  The file system may refuse any single operation.               *)
(*                                                                         *)
(* An event is the number of its try_send call.  The ring and the SQLite   *)
(* index are left out (the pipeline writes and shows them, and never acts  *)
(* on them), and so is state.closed, which no code sets.  Sizes are        *)
(* counted in events, times in milliseconds.                               *)
(***************************************************************************)
EXTENDS Integers, FiniteSets, Sequences

CONSTANTS Senders,           \* threads that call try_send
          Capacity,          \* queue_capacity, at least 1
          PriorityCapacity,  \* priority_queue_capacity, 0 to disable
          Policies,          \* overflow policies to consider
          FileLimit,         \* max_file_bytes, in events; 0 never rotates
          RotateKeep,        \* rotate_keep; 0 keeps all
          Retain,            \* retain_days, in milliseconds; 0 keeps all
          PruneEvery,        \* retention runs after so many events: 256
          Toggles,           \* may a reload switch the file sink?
          MaxEvents, MaxNow, \* bounds
          MaxFaults          \* bound: operations the file system refuses

ASSUME CapacityAssumption == Capacity \in Nat \ {0} /\ PriorityCapacity \in Nat
ASSUME PoliciesAssumption == Policies \subseteq {"drop_new", "drop_old", "sample", "block"}
ASSUME FilesAssumption ==
  /\ {FileLimit, RotateKeep, Retain} \subseteq Nat /\ PruneEvery \in Nat \ {0}
  /\ Toggles \in BOOLEAN
ASSUME BoundsAssumption == MaxEvents \in Nat /\ MaxNow \in Nat /\ MaxFaults \in Nat /\ IsFiniteSet(Senders)

VARIABLES overflow,   \* the overflow policy, fixed when the pipeline is made
          sender,     \* the event a thread holds between its two locks, or 0
          sent,       \* events that entered the ring
          critical,   \* those with a priority decision
          queue, pq,  \* the two queues
          worker,     \* where the worker thread is
          count,      \* the counters of the statistics
          gone,       \* the events each queue gave up
          taken,      \* the events the worker took from each queue, in order
          now,        \* the clock
          sink,       \* write_file
          file,       \* the active file and the rotated ones
          filed       \* the events appended to the file, and when

sendVars == <<sender, sent, critical>>
queueVars == <<queue, pq, count, gone>>
fileVars == <<file, filed>>
vars == <<overflow, sendVars, queueVars, worker, taken, now, sink, fileVars>>

Event == 1 .. MaxEvents
NoFiles == [active |-> {}, mtime |-> 0, rotated |-> {}, since |-> 0, overwritten |-> {}, faults |-> 0]

Init ==
  /\ overflow \in Policies
  /\ sender = [s \in Senders |-> 0] /\ sent = 0 /\ critical = {}
  /\ queue = <<>> /\ pq = <<>>
  /\ worker = [pc |-> "check", e |-> 0]
  /\ count = [accepted |-> 0, priority_accepted |-> 0, dropped |-> 0,
              priority_dropped |-> 0, written |-> 0]
  /\ gone = [queue |-> {}, pq |-> {}] /\ taken = [queue |-> <<>>, pq |-> <<>>] /\ now = 0
  /\ sink = TRUE /\ file = NoFiles /\ filed = {}

-----------------------------------------------------------------------------
(* try_send                                                                *)

\* the first lock section: the ring takes the event
Ring(s) ==
  /\ sender[s] = 0 /\ sent < MaxEvents
  /\ sent' = sent + 1
  /\ sender' = [sender EXCEPT ![s] = sent']
  /\ critical' \in {critical, critical \cup {sent'}}
  /\ UNCHANGED <<overflow, queueVars, worker, taken, now, sink, fileVars>>

is_priority(e) == PriorityCapacity > 0 /\ e \in critical

\* enqueue: the queue afterwards, and what was given up for it
enqueue(q, capacity, e) ==
  LET evicted == [q |-> Append(Tail(q), e), lost |-> {Head(q)}]
      refused == [q |-> q, lost |-> {e}]
  IN IF Len(q) < capacity THEN {[q |-> Append(q, e), lost |-> {}]}
     ELSE (IF overflow \in {"drop_old", "sample"} THEN {evicted} ELSE {})
            \cup (IF overflow \in {"drop_new", "block", "sample"} THEN {refused} ELSE {})

\* Mutant of Counted: an evicted event is not counted as dropped.
Counted_refused(e, lost) ==
  LET kept == IF e \in lost THEN 0 ELSE 1
      p == IF is_priority(e) THEN 1 ELSE 0
  IN [count EXCEPT !.accepted = @ + kept, !.priority_accepted = @ + kept * p,
                   !.dropped = @ + (1 - kept), !.priority_dropped = @ + (1 - kept) * p]

\* accepted, priority_accepted and record_drop
Counted(e, lost) ==
  LET kept == IF e \in lost THEN 0 ELSE 1
      n == Cardinality(lost)
      p == IF is_priority(e) THEN 1 ELSE 0
  IN [count EXCEPT !.accepted = @ + kept, !.priority_accepted = @ + kept * p,
                   !.dropped = @ + n, !.priority_dropped = @ + n * p]

\* notify_one, which is reached when the event was kept
Notified(e, lost) ==
  IF worker.pc = "wait" /\ e \notin lost THEN [worker EXCEPT !.pc = "check"] ELSE worker

\* Mutant of Target: all events share one queue.
Target_shared(e) == "queue"

Target(e) == IF is_priority(e) THEN "pq" ELSE "queue"

\* the second lock section
Enqueue(s) ==
  LET e == sender[s] IN
  /\ e # 0
  /\ \E r \in IF Target(e) = "pq" THEN enqueue(pq, PriorityCapacity, e)
                                  ELSE enqueue(queue, Capacity, e) :
       /\ pq' = IF Target(e) = "pq" THEN r.q ELSE pq
       /\ queue' = IF Target(e) = "pq" THEN queue ELSE r.q
       /\ count' = Counted(e, r.lost)
       /\ gone' = [gone EXCEPT ![IF is_priority(e) THEN "pq" ELSE "queue"] = @ \cup r.lost]
       /\ worker' = Notified(e, r.lost)
  /\ sender' = [sender EXCEPT ![s] = 0]
  /\ UNCHANGED <<overflow, sent, critical, taken, now, sink, fileVars>>

-----------------------------------------------------------------------------
(* worker_loop                                                             *)

\* Mutant of Wait: the queues are looked at before the lock is taken.
Wait_unlocked ==
  /\ worker.pc = "check"
  /\ worker' = [worker EXCEPT !.pc = "wait"]
  /\ UNCHANGED <<overflow, sendVars, queueVars, taken, now, sink, fileVars>>

\* both queues are empty: the lock is released and the thread waits
Wait ==
  /\ worker.pc = "check" /\ queue = <<>> /\ pq = <<>>
  /\ worker' = [worker EXCEPT !.pc = "wait"]
  /\ UNCHANGED <<overflow, sendVars, queueVars, taken, now, sink, fileVars>>

\* a condition variable may also wake for no reason
Wake ==
  /\ worker.pc = "wait"
  /\ worker' = [worker EXCEPT !.pc = "check"]
  /\ UNCHANGED <<overflow, sendVars, queueVars, taken, now, sink, fileVars>>

\* priority events first
Take ==
  /\ worker.pc = "check" /\ (queue # <<>> \/ pq # <<>>)
  /\ IF pq # <<>>
     THEN /\ worker' = [pc |-> "file", e |-> Head(pq)]
          /\ taken' = [taken EXCEPT !.pq = Append(@, Head(pq))]
          /\ pq' = Tail(pq) /\ queue' = queue
     ELSE /\ worker' = [pc |-> "file", e |-> Head(queue)]
          /\ taken' = [taken EXCEPT !.queue = Append(@, Head(queue))]
          /\ queue' = Tail(queue) /\ pq' = pq
  /\ UNCHANGED <<overflow, sendVars, count, gone, now, sink, fileVars>>

\* The active file, or a part of it, under the name made of the time: a file
\* of that name is overwritten.  A file is its name, the time it was last
\* written to, and its events.
Archived(evs, mtime) ==
  [file EXCEPT !.rotated = {r \in @ : r.ts # now} \cup {[ts |-> now, mtime |-> mtime, evs |-> evs]},
               !.overwritten = @ \cup UNION {r.evs : r \in {x \in file.rotated : x.ts = now}}]
Emptied(f) == [f EXCEPT !.active = {}]

\* Something that happens only when the file system refuses an operation.
Faulty(f) == [f EXCEPT !.faults = @ + 1]
MayFail == file.faults < MaxFaults

\* rotate_active_file: what the files are afterwards, and whether it went
\* well.  A rename keeps the time of the last write.  When it fails the file
\* is copied, which takes the present time and may break off; that the
\* original is not removed is ignored.
Renamed == [ok |-> TRUE, file |-> Emptied(Archived(file.active, file.mtime))]
Copied ==
  {[ok |-> TRUE, file |-> Faulty(Emptied(Archived(file.active, now)))],
   [ok |-> TRUE, file |-> Faulty(Archived(file.active, now))],
   [ok |-> FALSE, file |-> Faulty(file)]}
    \cup {[ok |-> FALSE, file |-> Faulty(Archived(part, now))] : part \in SUBSET file.active}
rotate_active_file == {Renamed} \cup IF MayFail THEN Copied ELSE {}

MustRotate == FileLimit > 0 /\ Cardinality(file.active) >= FileLimit
Ready == IF MustRotate THEN rotate_active_file ELSE {[ok |-> TRUE, file |-> file]}

\* append_jsonl_with_rotate; an error before or after the rotation is ignored,
\* and a file whose size cannot be read is not rotated
Append_jsonl ==
  \E r \in Ready \cup IF MayFail THEN {[ok |-> TRUE, file |-> Faulty(file)]} ELSE {} :
    \/ /\ r.ok
       /\ file' = [r.file EXCEPT !.active = @ \cup {worker.e}, !.mtime = now]
       /\ filed' = filed \cup {[e |-> worker.e, at |-> now]}
    \/ /\ ~r.ok \/ MayFail
       /\ file' = IF r.ok THEN Faulty(r.file) ELSE r.file
       /\ UNCHANGED filed

DispatchFile ==
  /\ worker.pc = "file"
  /\ IF sink THEN Append_jsonl ELSE UNCHANGED fileVars
  /\ worker' = [worker EXCEPT !.pc = "index"]
  /\ UNCHANGED <<overflow, sendVars, queueVars, taken, now, sink>>

\* Those of the files that are not too old.
Young(rotated) == {r \in rotated : Retain = 0 \/ r.mtime + Retain >= now}
Excess(files) == IF RotateKeep > 0 /\ Cardinality(files) > RotateKeep THEN Cardinality(files) - RotateKeep ELSE 0

\* n of the files that are the oldest, by the time of the last write; files of
\* one time come in the order in which the directory lists them
\* Mutant of Oldest: the order is reversed.
Oldest_newest(files, n) ==
  {S \in SUBSET files : Cardinality(S) = n /\ \A r \in S, k \in files \ S : r.mtime >= k.mtime}
Oldest(files, n) ==
  {S \in SUBSET files : Cardinality(S) = n /\ \A r \in S, k \in files \ S : r.mtime <= k.mtime}

\* by age, then by number; a file that cannot be removed stays
prune_rotated_files(rotated) ==
  LET young == Young(rotated)
  IN {(rotated \ young) \cup old : old \in Oldest(young, Excess(young))}

\* since_prune, and run_retention_now when it is due
Retention ==
  IF file.since + 1 < PruneEvery THEN {[file EXCEPT !.since = @ + 1]}
  ELSE LET kept(removed) == [file EXCEPT !.since = 0, !.rotated = @ \ removed]
           due == prune_rotated_files(file.rotated)
       IN {kept(removed) : removed \in due}
            \cup IF MayFail THEN {Faulty(kept(removed)) : removed \in UNION {SUBSET d : d \in due}} ELSE {}

\* AuditIndex::insert, whose failure changes nothing, then the bookkeeping
DispatchIndex ==
  /\ worker.pc = "index"
  /\ count' = [count EXCEPT !.written = @ + 1]
  /\ file' \in Retention
  /\ worker' = [pc |-> "check", e |-> 0]
  /\ UNCHANGED <<overflow, sendVars, queue, pq, gone, taken, now, sink, filed>>

\* reconfigure switches the file sink
Reconfigure ==
  /\ Toggles
  /\ sink' = ~sink
  /\ UNCHANGED <<overflow, sendVars, queueVars, worker, taken, now, fileVars>>

Tick ==
  /\ now < MaxNow /\ now' = now + 1
  /\ UNCHANGED <<overflow, sendVars, queueVars, worker, taken, sink, fileVars>>

-----------------------------------------------------------------------------
Worker == Wait \/ Take \/ DispatchFile \/ DispatchIndex

Next ==
  \/ \E s \in Senders : Ring(s) \/ Enqueue(s)
  \/ Worker \/ Wake \/ Tick \/ Reconfigure

\* threads that hold no lock and do not wait are run
Fairness == WF_vars(Worker) /\ \A s \in Senders : WF_vars(Enqueue(s))

Spec == Init /\ [][Next]_vars /\ Fairness

-----------------------------------------------------------------------------
(* Properties                                                              *)

Counters == {"accepted", "priority_accepted", "dropped", "priority_dropped", "written"}

TypeOK ==
  /\ overflow \in Policies /\ sent \in 0 .. MaxEvents /\ now \in 0 .. MaxNow
  /\ sender \in [Senders -> 0 .. sent] /\ critical \subseteq 1 .. sent
  /\ queue \in Seq(1 .. sent) /\ Len(queue) <= Capacity
  /\ pq \in Seq(critical) /\ Len(pq) <= PriorityCapacity
  /\ worker \in [pc : {"check", "wait", "file", "index"}, e : 0 .. sent]
  /\ worker.e = 0 <=> worker.pc \in {"check", "wait"}
  /\ count \in [Counters -> Nat]
  /\ gone \in [{"queue", "pq"} -> SUBSET (1 .. sent)]
  /\ taken \in [{"queue", "pq"} -> Seq(1 .. sent)]
  /\ sink \in BOOLEAN

\* The statistics lose no event: one whose try_send has returned is written,
\* queued, in the worker's hands or counted as dropped, under every overflow
\* policy, although the counters are bumped by different threads.
Accounted ==
  LET returned == sent - Cardinality({s \in Senders : sender[s] # 0})
      held == IF worker.e = 0 THEN 0 ELSE 1
  IN returned = count.written + held + Len(queue) + Len(pq) + count.dropped

\* B07: denials are independent of the other traffic.  Seen on the priority
\* events alone the pipeline is a bounded FIFO log: it loses a priority event
\* only when the priority queue is full, whatever floods the other queue, and
\* takes them in order.
PriorityLog == INSTANCE BoundedLog WITH
  Cap <- PriorityCapacity, policy <- overflow, q <- pq, out <- taken.pq, lost <- gone.pq
PriorityIndependent == PriorityLog!LogSpec

\* The worker misses no wake-up: once events are queued and no more come,
\* both queues are drained.
Drained == (queue # <<>> \/ pq # <<>>) ~> (queue = <<>> /\ pq = <<>>)

\* Nothing that was written is lost before its time, although retention goes
\* by the times of files that renames keep and copies do not, and although
\* every operation on a file may fail: an event that is in no file any more is
\* older than the retention time, or as many files as are to be kept were
\* written to later.  A file whose name was given again within a millisecond
\* is overwritten.
FilesKeepNewest ==
  \A f \in filed :
    \/ f.e \in file.active \cup file.overwritten \cup UNION {r.evs : r \in file.rotated}
    \/ Retain > 0 /\ f.at + Retain < now
    \/ RotateKeep > 0 /\ Cardinality({r \in file.rotated : r.mtime >= f.at}) >= RotateKeep

\* The events, the queues and the counters keep their types, and the files
\* keep the newest events.
FilesSound == TypeOK /\ FilesKeepNewest

=============================================================================
