----------------------------- MODULE TicketStore -----------------------------
(***************************************************************************)
(* Approval tickets for high-risk SQL: gateway/core/src/ticket.rs.          *)
(*                                                                          *)
(* Every gateway process holds the tickets in a map behind a mutex          *)
(* (TicketStore.inner).  With the file backend a call changes the map,      *)
(* releases the mutex, and only then writes the whole map to the shared     *)
(* file (persist); the call answers after that.  The two halves are two     *)
(* steps here, so that other calls, a configuration reload and a crash can  *)
(* come between them.  A failed write is ignored by the code (`let _ =`).   *)
(***************************************************************************)
EXTENDS Naturals

CONSTANTS
  Procs,         \* gateway processes sharing the ticket file
  Callers,       \* request handlers; Home[c] is the process c runs in
  Home,
  People,        \* administrators who approve and reject
  Issuers,       \* values of issued_by; NoOne when no identity is known
  NoOne,         \* an absent Option<String>
  Bindings,      \* what a ticket is bound to: subject, type, fingerprint
  Ttls,          \* ttl_secs values requested, in clock units
  MaxUses,       \* max_uses values requested
  MaxTime,       \* bound on the clock
  MaxSeq,        \* bound on the sequence numbers handed out
  FileBackend,   \* security.state.backend is "file" (else "memory")
  Reloads,       \* POST /admin/reload with a changed security section happens
  WritesFail     \* write_file_locked may return an error

ASSUME TicketConstants ==
  /\ Home \in [Callers -> Procs]
  /\ Issuers \subseteq People \cup {NoOne}
  /\ NoOne \notin People /\ NoOne \notin Bindings
  /\ Ttls \subseteq Nat /\ MaxUses \subseteq Nat
  /\ MaxTime \in Nat /\ MaxSeq \in Nat \ {0}
  /\ FileBackend \in BOOLEAN /\ Reloads \in BOOLEAN /\ WritesFail \in BOOLEAN

\* The callers of a single process.
OneProcess == [c \in Callers |-> CHOOSE p \in Procs : TRUE]

VARIABLES
  now,       \* SystemTime::now in milliseconds
  inner,     \* inner[p]: TicketStore.inner, a total function over the ids
  seq,       \* seq[p]: TicketStore.seq
  disk,      \* the tickets in the state file
  call,      \* call[c]: the call between its map update and its answer
  reload,    \* reload[p]: the store a reload has built, and how far it got
  quota,     \* history: quota[i] is the max_uses ticket i was issued with
  issued,    \* history: the ids handed out by issue calls that were answered
  reissued,  \* history: the ids that two issue calls were answered with
  granted,   \* history: <<i, n>> when a consume was answered with use n of i
  regranted, \* history: the uses that two consume calls were answered with
  rejected   \* history: ids whose rejection was answered Ok

history == <<quota, issued, reissued, granted, regranted, rejected>>
vars == <<now, inner, seq, disk, call, reload, history>>

Status == {"Absent", "Pending", "Active", "Rejected"}

\* An id is "tkt-<ms>-<seq>": the pair of the two numbers.
Ids == (0..MaxTime) \X (1..MaxSeq)

Ticket == [bind : Bindings \cup {NoOne}, by : People \cup {NoOne},
           dual : BOOLEAN, expires : Nat, max : Nat \ {0}, uses : Nat,
           status : Status, approvedBy : People \cup {NoOne}]

NoTicket == [bind |-> NoOne, by |-> NoOne, dual |-> FALSE, expires |-> 0,
             max |-> 1, uses |-> 0, status |-> "Absent", approvedBy |-> NoOne]

Empty == [i \in Ids |-> NoTicket]
Held(map) == {i \in Ids : map[i].status # "Absent"}

\* A call in progress: its kind, its ticket and the uses of the ticket it will
\* answer with.
CallState == [op : {"none", "issue", "approve", "reject", "consume", "prune"},
              id : Ids, uses : Nat]

NoCall == [op |-> "none", id |-> <<0, 1>>, uses |-> 0]
NoReload == [at |-> "none", map |-> Empty, seq |-> 1]

is_expired(t) == now > t.expires

\* Mutant of is_consumable: the last use is granted twice.
is_consumable_twice(t) == t.status = "Active" /\ ~ is_expired(t) /\ t.uses <= t.max

is_consumable(t) ==
  /\ ~ is_expired(t)
  /\ t.status = "Active"
  /\ t.uses < t.max

\* Mutant of SeqAfter: continue with the largest number instead of the next.
SeqAfter_reuse(map) ==
  LET above == {n \in 1..(MaxSeq + 1) : \A i \in Held(map) : i[2] <= n}
  IN CHOOSE n \in above : \A m \in above : n <= m

\* The sequence number load_from_disk continues with: one past the largest.
SeqAfter(map) ==
  LET above == {n \in 1..(MaxSeq + 1) : \A i \in Held(map) : i[2] < n}
  IN CHOOSE n \in above : \A m \in above : n <= m

\* What a store built by install_ticket_store holds.
Loaded == IF FileBackend THEN disk ELSE Empty

Init ==
  /\ now = 0
  /\ inner = [p \in Procs |-> Empty]
  /\ seq = [p \in Procs |-> 1]
  /\ disk = Empty
  /\ call = [c \in Callers |-> NoCall]
  /\ reload = [p \in Procs |-> NoReload]
  /\ quota = [i \in Ids |-> 0]
  /\ issued = {}
  /\ reissued = {}
  /\ granted = {}
  /\ regranted = {}
  /\ rejected = {}

Tick ==
  /\ now < MaxTime
  /\ now' = now + 1
  /\ UNCHANGED <<inner, seq, disk, call, reload, history>>

------------------------------------------------------------------------------
(* The first half of a call: the update made while `inner` is locked.        *)

\* Caller c replaces ticket i of its process by t and goes on to persist.
Update(c, op, i, t) ==
  /\ call[c] = NoCall
  /\ inner' = [inner EXCEPT ![Home[c]][i] = t]
  /\ call' = [call EXCEPT ![c] = [op |-> op, id |-> i, uses |-> t.uses]]
  /\ UNCHANGED <<now, disk, reload, issued, reissued, granted, regranted, rejected>>

\* Mutant of IssuedUses: the request's max_uses is taken as it is.
IssuedUses_raw(m) == m

\* `req.max_uses.max(1)`
IssuedUses(m) == IF m = 0 THEN 1 ELSE m

issue(c, bind, by, dual, ttl, m) ==
  LET p == Home[c]
      id == <<now, seq[p]>>
      t == [bind |-> bind, by |-> by, dual |-> dual, expires |-> now + ttl,
            max |-> IssuedUses(m), uses |-> 0,
            status |-> IF dual THEN "Pending" ELSE "Active",
            approvedBy |-> NoOne]
  IN /\ seq[p] <= MaxSeq
     /\ Update(c, "issue", id, t)
     /\ seq' = [seq EXCEPT ![p] = seq[p] + 1]
     /\ quota' = [quota EXCEPT ![id] = t.max]

\* Mutant of MayApprove: the issuer may approve too.
MayApprove_self(t, who) == t.dual /\ t.status = "Pending" /\ ~ is_expired(t)

MayApprove(t, who) ==
  /\ ~ is_expired(t)
  /\ t.dual
  /\ t.status = "Pending"
  /\ t.by # who

approve(c, i, who) ==
  LET t == inner[Home[c]][i] IN
  /\ MayApprove(t, who)
  /\ Update(c, "approve", i, [t EXCEPT !.status = "Active", !.approvedBy = who])
  /\ UNCHANGED <<seq, quota>>

\* Mutant of MayReject: a ticket that was used can still be rejected.
MayReject_used(t) == t.status \in {"Pending", "Active"}

MayReject(t) ==
  /\ t.uses = 0
  /\ t.status \in {"Pending", "Active"}

\* reject, and revoke, its alias.
reject(c, i) ==
  LET t == inner[Home[c]][i] IN
  /\ MayReject(t)
  /\ Update(c, "reject", i, [t EXCEPT !.status = "Rejected"])
  /\ UNCHANGED <<seq, quota>>

consume(c, i, bind) ==
  LET t == inner[Home[c]][i] IN
  /\ is_consumable(t)
  /\ t.bind = bind
  /\ Update(c, "consume", i, [t EXCEPT !.uses = t.uses + 1])
  /\ UNCHANGED <<seq, quota>>

prune_expired(c) ==
  LET map == inner[Home[c]]
      gone == {i \in Held(map) : is_expired(map[i])}
  IN /\ call[c] = NoCall
     /\ gone # {}
     /\ inner' = [inner EXCEPT ![Home[c]] =
                    [i \in Ids |-> IF i \in gone THEN NoTicket ELSE map[i]]]
     /\ call' = [call EXCEPT ![c] = [NoCall EXCEPT !.op = "prune"]]
     /\ UNCHANGED <<now, seq, disk, reload, history>>

------------------------------------------------------------------------------
(* The second half: persist, then the answer.                                *)

\* persist locks `inner` again: it writes the map of that moment.  The file is
\* replaced whole (temporary file and rename).
persist(p) ==
  \/ disk' = IF FileBackend THEN inner[p] ELSE disk
  \/ FileBackend /\ WritesFail /\ disk' = disk

Answer(c) ==
  LET op == call[c].op
      i == call[c].id
      new == IF op = "issue" THEN {i} ELSE {}
      use == IF op = "consume" THEN {<<i, call[c].uses>>} ELSE {}
  IN /\ op # "none"
     /\ persist(Home[c])
     /\ call' = [call EXCEPT ![c] = NoCall]
     /\ issued' = issued \cup new
     /\ reissued' = reissued \cup (issued \cap new)
     /\ granted' = granted \cup use
     /\ regranted' = regranted \cup (granted \cap use)
     /\ rejected' = IF op = "reject" THEN rejected \cup {i} ELSE rejected
     /\ UNCHANGED <<now, inner, seq, reload, quota>>

------------------------------------------------------------------------------
(* Reload and restart.                                                       *)

\* install_ticket_store builds a new store from the file ...
ReloadLoad(p) ==
  /\ Reloads
  /\ reload[p].at = "none"
  /\ reload' = [reload EXCEPT ![p] =
                  [at |-> "loaded", map |-> Loaded, seq |-> SeqAfter(Loaded)]]
  /\ UNCHANGED <<now, inner, seq, disk, call, history>>

\* ... and reconfigure_from copies it over the live one, the map first ...
ReloadMap(p) ==
  /\ reload[p].at = "loaded"
  /\ inner' = [inner EXCEPT ![p] = reload[p].map]
  /\ reload' = [reload EXCEPT ![p].at = "mapped"]
  /\ UNCHANGED <<now, seq, disk, call, history>>

\* ... and the sequence number last.
ReloadSeq(p) ==
  /\ reload[p].at = "mapped"
  /\ seq' = [seq EXCEPT ![p] = reload[p].seq]
  /\ reload' = [reload EXCEPT ![p] = NoReload]
  /\ UNCHANGED <<now, inner, disk, call, history>>

\* The process dies, its unanswered calls with it, and comes back.
Restart(p) ==
  /\ inner' = [inner EXCEPT ![p] = Loaded]
  /\ seq' = [seq EXCEPT ![p] = SeqAfter(Loaded)]
  /\ call' = [c \in Callers |-> IF Home[c] = p THEN NoCall ELSE call[c]]
  /\ reload' = [reload EXCEPT ![p] = NoReload]
  /\ UNCHANGED <<now, disk, history>>

------------------------------------------------------------------------------
Call(c) ==
  \/ \E bind \in Bindings, by \in Issuers, dual \in BOOLEAN,
        ttl \in Ttls, m \in MaxUses : issue(c, bind, by, dual, ttl, m)
  \/ \E i \in Ids, who \in People : approve(c, i, who)
  \/ \E i \in Ids : reject(c, i)
  \/ \E i \in Ids, bind \in Bindings : consume(c, i, bind)
  \/ prune_expired(c)
  \/ Answer(c)

Next ==
  \/ Tick
  \/ \E c \in Callers : Call(c)
  \/ \E p \in Procs : ReloadLoad(p) \/ ReloadMap(p) \/ ReloadSeq(p) \/ Restart(p)

Spec == Init /\ [][Next]_vars

------------------------------------------------------------------------------
\* Every variable keeps its shape; in particular no ticket is ever issued
\* with an allowance of zero uses (ticket.rs, issue).
TypeOK ==
  /\ now \in 0..MaxTime
  /\ inner \in [Procs -> [Ids -> Ticket]]
  /\ seq \in [Procs -> 1..(MaxSeq + 1)]
  /\ disk \in [Ids -> Ticket]
  /\ call \in [Callers -> CallState]
  /\ reload \in [Procs -> [at : {"none", "loaded", "mapped"}, map : [Ids -> Ticket],
                           seq : 1..(MaxSeq + 1)]]
  /\ quota \in [Ids -> Nat]
  /\ issued \subseteq Ids
  /\ reissued \subseteq Ids
  /\ granted \subseteq Ids \X Nat
  /\ regranted \subseteq Ids \X Nat
  /\ rejected \subseteq Ids

\* A ticket lets through no more statements than it was issued for, whatever
\* calls, crashes and restarts come in between: the n-th use is granted to one
\* statement and n is at most max_uses (consume, persist, load_from_disk).
NeverOverconsumed ==
  /\ regranted = {}
  /\ \A g \in granted : g[2] <= quota[g[1]]

\* Once a rejection was answered, no statement was or ever will be let through
\* by that ticket (reject refuses used tickets, consume refuses rejected ones).
RejectedNeverGranted == \A g \in granted : g[1] \notin rejected

\* No two issue calls hand out the same id, although the sequence number is
\* recomputed from the surviving tickets at every restart (load_from_disk).
IssuedOnce == reissued = {}

ApprovedByAnother(map) ==
  \A i \in Ids : map[i].dual /\ map[i].status = "Active" =>
                  map[i].approvedBy \in People \ {map[i].by}

\* A dual-control ticket that is active, in memory or on disk, was approved by
\* somebody other than its issuer (issue, approve).
FourEyes ==
  \A map \in {inner[p] : p \in Procs} \cup {disk} : ApprovedByAnother(map)

------------------------------------------------------------------------------
(* The inductive invariant behind the four properties, for one process with  *)
(* the file backend, no reload and no failing write.                         *)

\* No issue call can come up with id i any more.
Old(i) == \A p \in Procs : i[1] < now \/ (i[1] = now /\ i[2] < seq[p])

\* The ids some caller has been told about.
Answered == issued \cup {g[1] : g \in granted} \cup rejected

\* The map in memory and the one on disk both cover what was answered; an
\* answered ticket is missing from them only when it has expired.
MapInv(map) ==
  /\ \A i \in Held(map) :
       /\ Old(i) /\ i[1] <= map[i].expires
       /\ map[i].max = quota[i] /\ map[i].uses <= quota[i]
  /\ \A g \in granted : g[1] \in Held(map) => g[2] <= map[g[1]].uses
  /\ \A i \in rejected \cap Held(map) : map[i].status = "Rejected" /\ map[i].uses = 0
  /\ \A i \in Answered : i[1] = now => i \in Held(map)

AnswerInv ==
  /\ \A i \in Answered : Old(i)
  /\ reissued = {} /\ regranted = {}
  /\ \A g \in granted : 1 <= g[2] /\ g[2] <= quota[g[1]] /\ g[1] \notin rejected

\* What call k in progress is about to answer is consistent with its process's
\* map and with what was answered ...
CallOK(k, map) ==
  /\ k.op \in {"issue", "reject", "consume"} =>
       Old(k.id) /\ (k.id[1] = now => k.id \in Held(map))
  /\ k.op = "issue" => k.id \notin issued
  /\ k.op = "reject" =>
       /\ k.id \in Held(map) => map[k.id].status = "Rejected" /\ map[k.id].uses = 0
       /\ \A g \in granted : g[1] # k.id
  /\ k.op = "consume" =>
       /\ 1 <= k.uses /\ k.uses <= quota[k.id]
       /\ k.id \notin rejected /\ <<k.id, k.uses>> \notin granted
       /\ k.id \in Held(map) => k.uses <= map[k.id].uses

\* ... and with every other call in progress.
Apart(k, l) ==
  k.id = l.id =>
    /\ ~ (k.op = "issue" /\ l.op = "issue")
    /\ ~ (k.op = "reject" /\ l.op = "consume")
    /\ ~ (k.op = "consume" /\ l.op = "consume" /\ k.uses = l.uses)

CallInv ==
  /\ \A c \in Callers : CallOK(call[c], inner[Home[c]])
  /\ \A c, d \in Callers : c # d => Apart(call[c], call[d])

\* Memory, disk, the calls in progress and the answers given agree, so that a
\* crash at any point loses nothing that a caller was told (consume, reject,
\* issue, persist, load_from_disk).
Agreement ==
  /\ \A p \in Procs : MapInv(inner[p])
  /\ MapInv(disk)
  /\ AnswerInv
  /\ CallInv

=============================================================================
