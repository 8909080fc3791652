-------------------------- MODULE TicketStoreProofs --------------------------
(* Proofs about TicketStore for any number of processes, with reloads and    *)
(* failing writes, and for every set of callers, people, bindings and bound. *)
EXTENDS TicketStore, TLAPS, WellFoundedInduction

USE TicketConstants

LEMMA SeqAfterFact ==
  ASSUME NEW map \in [Ids -> Ticket]
  PROVE  /\ SeqAfter(map) \in 1..(MaxSeq + 1)
         /\ \A i \in Held(map) : i[2] < SeqAfter(map)
<1> DEFINE above == {n \in 1..(MaxSeq + 1) : \A i \in Held(map) : i[2] < n}
           R == {ss \in Nat \X Nat : ss[1] < ss[2]}
<1>0. IsWellFoundedOn(R, Nat)
  BY NatLessThanWellFounded DEF OpToRel
<1>1. above \subseteq Nat
  OBVIOUS
<1>2. MaxSeq + 1 \in above
  BY DEF Held, Ids
<1>3. \E n \in above : \A m \in above : ~ (<<m, n>> \in R)
  <2> HIDE DEF above, R
  <2>1. above # {}
    BY <1>2
  <2> QED
    BY Zenon, <1>0, <1>1, <2>1, WFMin
<1> PICK n \in above : \A m \in above : ~ (<<m, n>> \in R)
  BY <1>3
<1>4. \A m \in above : n <= m
  <2> SUFFICES ASSUME NEW m \in above PROVE n <= m
    OBVIOUS
  <2>1. m \in Nat /\ n \in Nat /\ ~ (<<m, n>> \in R)
    BY <1>1
  <2> QED
    BY <2>1
<1>5. SeqAfter(map) \in above
  BY Zenon, <1>4 DEF SeqAfter
<1> QED
  BY <1>5

------------------------------------------------------------------------------
LEMMA IdFacts ==
  /\ \A i \in Ids : i[1] \in 0..MaxTime /\ i[2] \in 1..MaxSeq
  /\ \A a \in 0..MaxTime, b \in 1..MaxSeq : <<a, b>> \in Ids
BY DEF Ids

LEMMA LeqTrans == \A a, b, c \in Nat : a <= b /\ b <= c => a <= c
OBVIOUS

LEMMA EmptyType == Empty \in [Ids -> Ticket] /\ NoTicket \in Ticket
BY DEF Empty, NoTicket, Ticket, Status

LEMMA TicketUpdates ==
  ASSUME NEW t \in Ticket
  PROVE  /\ \A who \in People : [t EXCEPT !.status = "Active", !.approvedBy = who] \in Ticket
         /\ [t EXCEPT !.status = "Rejected"] \in Ticket
         /\ [t EXCEPT !.uses = t.uses + 1] \in Ticket
<1>1. \A who \in People : [t EXCEPT !.status = "Active", !.approvedBy = who] \in Ticket
  BY Zenon DEF Ticket, Status
<1>2. [t EXCEPT !.status = "Rejected"] \in Ticket
  BY SMT DEF Ticket, Status
<1>3. t.uses + 1 \in Nat
  BY DEF Ticket
<1>4. [t EXCEPT !.uses = t.uses + 1] \in Ticket
  BY <1>3, Zenon DEF Ticket
<1> QED
  BY Zenon, <1>1, <1>2, <1>4

LEMMA UpdateType ==
  ASSUME TypeOK, NEW c \in Callers, NEW op \in {"issue", "approve", "reject", "consume"},
         NEW i \in Ids, NEW t \in Ticket, Update(c, op, i, t),
         seq' \in [Procs -> 1..(MaxSeq + 1)], quota' \in [Ids -> Nat]
  PROVE  TypeOK'
<1>1. Home[c] \in Procs /\ t.uses \in Nat
  BY DEF Ticket
<1>2. inner' \in [Procs -> [Ids -> Ticket]]
  BY <1>1 DEF TypeOK, Update
<1>3. [op |-> op, id |-> i, uses |-> t.uses] \in CallState
  BY <1>1 DEF CallState
<1>4. call' \in [Callers -> CallState]
  BY <1>3 DEF TypeOK, Update
<1> QED
  BY <1>2, <1>4 DEF TypeOK, Update

\* Every variable of the ticket store keeps its shape under every call, answer,
\* reload and restart, for any number of processes.
THEOREM TypeCorrect == Spec => []TypeOK
<1>1. Init => TypeOK
  BY EmptyType, IdFacts DEF Init, TypeOK, NoCall, NoReload, CallState
<1>2. TypeOK /\ [Next]_vars => TypeOK'
  <2> SUFFICES ASSUME TypeOK, [Next]_vars PROVE TypeOK'
    OBVIOUS
  <2>1. CASE UNCHANGED vars
    BY <2>1 DEF vars, history, TypeOK
  <2>2. CASE Tick
    BY <2>2 DEF Tick, TypeOK, history
  <2>3. ASSUME NEW c \in Callers, NEW bind \in Bindings, NEW by \in Issuers,
               NEW dual \in BOOLEAN, NEW ttl \in Ttls, NEW m \in MaxUses,
               issue(c, bind, by, dual, ttl, m)
        PROVE  TypeOK'
    <3> DEFINE p == Home[c]
               id == <<now, seq[p]>>
               t == [bind |-> bind, by |-> by, dual |-> dual, expires |-> now + ttl,
                     max |-> IssuedUses(m), uses |-> 0,
                     status |-> IF dual THEN "Pending" ELSE "Active",
                     approvedBy |-> NoOne]
    <3>1. p \in Procs /\ id \in Ids
      BY <2>3, IdFacts DEF issue, TypeOK
    <3>2. IssuedUses(m) \in Nat \ {0} /\ now + ttl \in Nat
      BY DEF IssuedUses, TypeOK
    <3>3. t \in Ticket
      BY <3>2 DEF Ticket, Status
    <3>4. seq' \in [Procs -> 1..(MaxSeq + 1)] /\ quota' \in [Ids -> Nat]
      BY <2>3, <3>1, <3>2 DEF issue, TypeOK
    <3>5. Update(c, "issue", id, t)
      BY <2>3 DEF issue
    <3> HIDE DEF id, t
    <3> QED
      BY <3>1, <3>3, <3>4, <3>5, UpdateType
  <2>4. ASSUME NEW c \in Callers, NEW i \in Ids, NEW who \in People, approve(c, i, who)
        PROVE  TypeOK'
    <3> DEFINE t == inner[Home[c]][i]
               u == [t EXCEPT !.status = "Active", !.approvedBy = who]
    <3>0. t \in Ticket
      BY DEF TypeOK
    <3>1. u \in Ticket
      <4> HIDE DEF t
      <4> QED
        BY Zenon, <3>0, TicketUpdates
    <3>2. Update(c, "approve", i, u) /\ UNCHANGED <<seq, quota>>
      BY <2>4 DEF approve
    <3> QED
      BY Zenon, <3>1, <3>2, UpdateType DEF TypeOK
  <2>5. ASSUME NEW c \in Callers, NEW i \in Ids, reject(c, i)
        PROVE  TypeOK'
    <3> DEFINE t == inner[Home[c]][i]
               u == [t EXCEPT !.status = "Rejected"]
    <3>0. t \in Ticket
      BY DEF TypeOK
    <3>1. u \in Ticket
      <4> HIDE DEF t
      <4> QED
        BY Zenon, <3>0, TicketUpdates
    <3>2. Update(c, "reject", i, u) /\ UNCHANGED <<seq, quota>>
      BY <2>5 DEF reject
    <3> QED
      BY Zenon, <3>1, <3>2, UpdateType DEF TypeOK
  <2>6. ASSUME NEW c \in Callers, NEW i \in Ids, NEW bind \in Bindings, consume(c, i, bind)
        PROVE  TypeOK'
    <3> DEFINE t == inner[Home[c]][i]
               u == [t EXCEPT !.uses = t.uses + 1]
    <3>0. t \in Ticket
      BY DEF TypeOK
    <3>1. u \in Ticket
      <4> HIDE DEF t
      <4> QED
        BY Zenon, <3>0, TicketUpdates
    <3>2. Update(c, "consume", i, u) /\ UNCHANGED <<seq, quota>>
      BY <2>6 DEF consume
    <3> QED
      BY <3>1, <3>2, UpdateType DEF TypeOK
  <2>7. ASSUME NEW c \in Callers, prune_expired(c)
        PROVE  TypeOK'
    <3> DEFINE gone == {i \in Held(inner[Home[c]]) : is_expired(inner[Home[c]][i])}
               kept == [i \in Ids |-> IF i \in gone THEN NoTicket ELSE inner[Home[c]][i]]
    <3>1. kept \in [Ids -> Ticket]
      BY EmptyType DEF TypeOK
    <3>2. inner' = [inner EXCEPT ![Home[c]] = kept]
      BY <2>7 DEF prune_expired
    <3> HIDE DEF kept
    <3>3. inner' \in [Procs -> [Ids -> Ticket]]
      BY <3>1, <3>2 DEF TypeOK
    <3>4. call' \in [Callers -> CallState]
      <4>1. [NoCall EXCEPT !.op = "prune"] \in CallState
        BY IdFacts DEF NoCall, CallState
      <4> QED
        BY <2>7, <4>1 DEF prune_expired, TypeOK
    <3> QED
      BY <2>7, <3>3, <3>4 DEF prune_expired, TypeOK, history
  <2>8. ASSUME NEW c \in Callers, Answer(c)
        PROVE  TypeOK'
    <3>1. call[c].id \in Ids /\ call[c].uses \in Nat /\ <<call[c].id, call[c].uses>> \in Ids \X Nat
      BY DEF TypeOK, CallState
    <3>2. disk' \in [Ids -> Ticket] /\ call' \in [Callers -> CallState]
      BY <2>8, IdFacts DEF Answer, persist, TypeOK, NoCall, CallState
    <3>3. issued' \subseteq Ids /\ reissued' \subseteq Ids /\ rejected' \subseteq Ids
      BY <2>8, <3>1 DEF Answer, TypeOK
    <3>4. granted' \subseteq Ids \X Nat /\ regranted' \subseteq Ids \X Nat
      BY <2>8, <3>1 DEF Answer, TypeOK
    <3> QED
      BY <2>8, <3>2, <3>3, <3>4 DEF Answer, TypeOK
  <2>9. ASSUME NEW p \in Procs, ReloadLoad(p) \/ ReloadMap(p) \/ ReloadSeq(p) \/ Restart(p)
        PROVE  TypeOK'
    <3>1. Loaded \in [Ids -> Ticket] /\ SeqAfter(Loaded) \in 1..(MaxSeq + 1)
      BY EmptyType, SeqAfterFact DEF Loaded, TypeOK
    <3>2. CASE ReloadLoad(p)
      BY <3>1, <3>2 DEF ReloadLoad, TypeOK, history
    <3>3. CASE ReloadMap(p)
      BY Zenon, <3>3 DEF ReloadMap, TypeOK, history
    <3>4. CASE ReloadSeq(p)
      BY <3>4, EmptyType DEF ReloadSeq, TypeOK, history, NoReload
    <3>5. CASE Restart(p)
      BY <3>1, <3>5, EmptyType, IdFacts DEF Restart, TypeOK, history, NoReload, NoCall, CallState
    <3> QED
      BY <2>9, <3>2, <3>3, <3>4, <3>5
  <2> QED
    BY <2>1, <2>2, <2>3, <2>4, <2>5, <2>6, <2>7, <2>8, <2>9 DEF Next, Call
<1> QED
  BY <1>1, <1>2, PTL DEF Spec

------------------------------------------------------------------------------
LEMMA UpdateKeepsApproval ==
  ASSUME TypeOK, NEW c \in Callers, NEW op, NEW i \in Ids, NEW t \in Ticket, Update(c, op, i, t),
         \A p \in Procs : ApprovedByAnother(inner[p]) /\ ApprovedByAnother(reload[p].map),
         ApprovedByAnother(disk),
         t.dual /\ t.status = "Active" => t.approvedBy \in People \ {t.by}
  PROVE  /\ \A p \in Procs : ApprovedByAnother(inner'[p]) /\ ApprovedByAnother(reload'[p].map)
         /\ ApprovedByAnother(disk')
<1>1. \A p \in Procs, j \in Ids :
        inner'[p][j] = IF p = Home[c] /\ j = i THEN t ELSE inner[p][j]
  BY DEF Update, TypeOK
<1>2. reload' = reload /\ disk' = disk
  BY DEF Update
<1> QED
  <2>1. ASSUME NEW p \in Procs PROVE ApprovedByAnother(inner'[p])
    <3>1. ApprovedByAnother(inner[p])
      OBVIOUS
    <3>2. \A j \in Ids : inner'[p][j] = t \/ inner'[p][j] = inner[p][j]
      BY <1>1
    <3> QED
      BY <3>1, <3>2 DEF ApprovedByAnother
  <2> QED
    BY <1>2, <2>1, Zenon

\* For any number of processes, with reloads, restarts and failing writes: an
\* active dual-control ticket was approved by somebody other than its issuer
\* (issue, approve, load_from_disk, reconfigure_from).
THEOREM FourEyesHolds == Spec => []FourEyes
<1> DEFINE Inv == /\ \A p \in Procs : ApprovedByAnother(inner[p])
                                     /\ ApprovedByAnother(reload[p].map)
                  /\ ApprovedByAnother(disk)
<1>0. ApprovedByAnother(Empty)
  BY DEF ApprovedByAnother, Empty, NoTicket
<1>1. Init => Inv
  BY <1>0 DEF Init, NoReload
<1>2. TypeOK /\ Inv /\ [Next]_vars => Inv'
  <2> SUFFICES ASSUME TypeOK, Inv, [Next]_vars PROVE Inv'
    OBVIOUS
  <2>1. CASE UNCHANGED vars \/ Tick
    BY <2>1 DEF vars, history, Tick, ApprovedByAnother
  <2>2. ASSUME NEW c \in Callers, NEW bind \in Bindings, NEW by \in Issuers,
               NEW dual \in BOOLEAN, NEW ttl \in Ttls, NEW m \in MaxUses,
               issue(c, bind, by, dual, ttl, m)
        PROVE  Inv'
    <3> DEFINE id == <<now, seq[Home[c]]>>
               t == [bind |-> bind, by |-> by, dual |-> dual, expires |-> now + ttl,
                     max |-> IssuedUses(m), uses |-> 0,
                     status |-> IF dual THEN "Pending" ELSE "Active",
                     approvedBy |-> NoOne]
    <3>1. id \in Ids
      BY <2>2, IdFacts DEF issue, TypeOK
    <3>2. IssuedUses(m) \in Nat \ {0} /\ now + ttl \in Nat
      BY DEF IssuedUses, TypeOK
    <3>3. t \in Ticket /\ ~ (t.dual /\ t.status = "Active")
      BY <3>2 DEF Ticket, Status
    <3>4. Update(c, "issue", id, t)
      BY <2>2 DEF issue
    <3> HIDE DEF id, t
    <3> QED
      BY <3>1, <3>3, <3>4, UpdateKeepsApproval
  <2>3. ASSUME NEW c \in Callers, NEW i \in Ids, NEW who \in People, approve(c, i, who)
        PROVE  Inv'
    <3> DEFINE t == inner[Home[c]][i]
               u == [t EXCEPT !.status = "Active", !.approvedBy = who]
    <3>1. t \in Ticket
      BY DEF TypeOK
    <3>2. Update(c, "approve", i, u) /\ t.by # who
      BY <2>3 DEF approve, MayApprove
    <3> HIDE DEF t
    <3>3. u \in Ticket /\ u.approvedBy = who /\ u.by = t.by
      BY Zenon, <3>1, TicketUpdates DEF Ticket
    <3> HIDE DEF u
    <3> QED
      BY <3>2, <3>3, UpdateKeepsApproval
  <2>4. ASSUME NEW c \in Callers, NEW i \in Ids, reject(c, i)
        PROVE  Inv'
    <3> DEFINE t == inner[Home[c]][i]
               u == [t EXCEPT !.status = "Rejected"]
    <3>1. t \in Ticket
      BY DEF TypeOK
    <3>2. Update(c, "reject", i, u)
      BY <2>4 DEF reject
    <3> HIDE DEF t
    <3>3. u \in Ticket /\ u.status = "Rejected"
      BY Zenon, <3>1, TicketUpdates DEF Ticket
    <3> HIDE DEF u
    <3> QED
      BY <3>2, <3>3, UpdateKeepsApproval
  <2>5. ASSUME NEW c \in Callers, NEW i \in Ids, NEW bind \in Bindings, consume(c, i, bind)
        PROVE  Inv'
    <3> DEFINE t == inner[Home[c]][i]
               u == [t EXCEPT !.uses = t.uses + 1]
    <3>1. t \in Ticket /\ (t.dual /\ t.status = "Active" => t.approvedBy \in People \ {t.by})
      BY DEF TypeOK, ApprovedByAnother
    <3>2. Update(c, "consume", i, u)
      BY <2>5 DEF consume
    <3> HIDE DEF t
    <3>3. u \in Ticket
      BY Zenon, <3>1, TicketUpdates
    <3>4. u.dual = t.dual /\ u.status = t.status /\ u.approvedBy = t.approvedBy /\ u.by = t.by
      BY <3>1 DEF Ticket
    <3> HIDE DEF u
    <3> QED
      BY <3>1, <3>2, <3>3, <3>4, UpdateKeepsApproval
  <2>6. ASSUME NEW c \in Callers, prune_expired(c)
        PROVE  Inv'
    <3>1. \A p \in Procs, j \in Ids : inner'[p][j] = inner[p][j] \/ inner'[p][j] = NoTicket
      BY <2>6 DEF prune_expired, TypeOK
    <3>2. reload' = reload /\ disk' = disk
      BY <2>6 DEF prune_expired
    <3> QED
      BY <3>1, <3>2 DEF ApprovedByAnother, NoTicket
  <2>7. ASSUME NEW c \in Callers, Answer(c)
        PROVE  Inv'
    BY <2>7, Zenon DEF Answer, persist, ApprovedByAnother
  <2>8. ASSUME NEW q \in Procs, ReloadLoad(q) \/ ReloadMap(q) \/ ReloadSeq(q) \/ Restart(q)
        PROVE  Inv'
    <3>1. ApprovedByAnother(Loaded)
      BY <1>0 DEF Loaded
    <3>2. \A p \in Procs : inner'[p] \in {inner[p], reload[p].map, Loaded}
      BY <2>8 DEF ReloadLoad, ReloadMap, ReloadSeq, Restart, TypeOK
    <3>3. \A p \in Procs : reload'[p].map \in {reload[p].map, Loaded, Empty}
      <4>1. CASE ReloadLoad(q)
        BY <4>1 DEF ReloadLoad, TypeOK
      <4>2. CASE ReloadMap(q)
        BY <4>2 DEF ReloadMap, TypeOK
      <4>3. CASE ReloadSeq(q) \/ Restart(q)
        <5>1. NoReload.map = Empty
          BY DEF NoReload
        <5>2. reload' = [reload EXCEPT ![q] = NoReload]
          BY <4>3 DEF ReloadSeq, Restart
        <5> QED
          BY <5>1, <5>2 DEF TypeOK
      <4> QED
        BY <2>8, <4>1, <4>2, <4>3
    <3>4. disk' = disk
      BY <2>8 DEF ReloadLoad, ReloadMap, ReloadSeq, Restart
    <3>5. \A p \in Procs : ApprovedByAnother(inner'[p]) /\ ApprovedByAnother(reload'[p].map)
      BY <1>0, <3>1, <3>2, <3>3
    <3> QED
      BY <3>4, <3>5
  <2> QED
    BY <2>1, <2>2, <2>3, <2>4, <2>5, <2>6, <2>7, <2>8, Zenon DEF Next, Call
<1>3. Inv => FourEyes
  BY DEF FourEyes
<1> QED
  BY <1>1, <1>2, <1>3, TypeCorrect, PTL DEF Spec

-----------------------------------------------------------------------------
(* One process with the file backend, not reloaded and with writes that      *)
(* succeed: callers' answers, memory, disk and the calls in progress agree    *)
(* (the inductive invariant Agreement), so crashes and restarts undo nothing  *)
(* a caller was told.                                                         *)

Durable == (\E p : Procs = {p}) /\ FileBackend /\ ~ Reloads /\ ~ WritesFail

\* The calls other than c's are left alone; c's becomes k.
LEMMA CallInvStep ==
  ASSUME NEW p, Procs = {p}, TypeOK, CallInv, NEW c \in Callers, NEW k,
         call' = [call EXCEPT ![c] = k],
         CallOK(k, inner[p])',
         \A d \in Callers \ {c} : \A l \in CallState : l = call[d] =>
           CallOK(l, inner[p])' /\ Apart(l, k) /\ Apart(k, l)
  PROVE  CallInv'
<1>1. \A d \in Callers : Home[d] = p /\ call[d] \in CallState
  BY DEF TypeOK
<1>2. call'[c] = k /\ \A d \in Callers \ {c} : call'[d] = call[d]
  BY DEF TypeOK
<1>3. ASSUME NEW d \in Callers, d # c
      PROVE  CallOK(call[d], inner[Home[d]])'
  <2>1. PICK l \in CallState : l = call[d]
    BY <1>1
  <2>2. CallOK(l, inner[p])'
    BY <1>3, <2>1
  <2>3. call'[d] = l /\ Home[d] = p
    BY <1>1, <1>2, <1>3, <2>1
  <2> QED
    BY <2>2, <2>3
<1>4. CallOK(call[c], inner[Home[c]])'
  BY <1>1, <1>2
<1>5. ASSUME NEW d \in Callers, NEW e \in Callers, d # e
      PROVE  Apart(call[d], call[e])'
  <2>1. \A f \in Callers \ {c} : Apart(call[f], k) /\ Apart(k, call[f])
    BY <1>1
  <2>2. Apart(call[d], call[e])
    BY <1>5 DEF CallInv
  <2>3. Apart(call'[d], call'[e])
    BY <1>2, <1>5, <2>1, <2>2
  <2> QED
    BY <2>3 DEF Apart
<1> QED
  BY <1>3, <1>4, <1>5 DEF CallInv

LEMMA AgreementInit == Init => Agreement
<1> SUFFICES ASSUME Init PROVE Agreement
  OBVIOUS
<1>1. Held(Empty) = {}
  BY DEF Held, Empty, NoTicket
<1>2. Answered = {}
  BY DEF Init, Answered
<1>3. MapInv(Empty)
  BY <1>1, <1>2 DEF MapInv, Init
<1>4. \A c \in Callers : call[c].op = "none"
  BY DEF Init, NoCall
<1> QED
  BY <1>2, <1>3, <1>4, Zenon DEF Init, Agreement, AnswerInv, CallInv, CallOK, Apart

LEMMA AgreementTick ==
  ASSUME Durable, TypeOK, Agreement, Tick
  PROVE  Agreement'
<1>1. \A i \in Ids : Old(i) => Old(i)' /\ i[1] # now'
  BY IdFacts DEF Tick, Old, TypeOK, Durable
<1>2. Answered' = Answered /\ Answered \subseteq Ids
  BY DEF Answered, Tick, history, TypeOK
<1>3. \A map \in [Ids -> Ticket] : Held(map) \subseteq Ids
  BY DEF Held
<1>4. \A map \in [Ids -> Ticket] : MapInv(map) /\ AnswerInv => MapInv(map)'
  BY <1>1, <1>2, <1>3 DEF MapInv, AnswerInv, Tick, history, Held
<1>5. AnswerInv'
  BY <1>1, <1>2 DEF Agreement, AnswerInv, Tick, history
<1>6. CallInv'
  <2>1. UNCHANGED <<call, inner>>
    BY DEF Tick
  <2>2. \A k \in CallState, map \in [Ids -> Ticket] : CallOK(k, map) => CallOK(k, map)'
    <3>1. UNCHANGED <<granted, issued, rejected, quota>>
      BY DEF Tick, history
    <3>2. \A k \in CallState : k.id \in Ids
      BY DEF CallState
    <3> SUFFICES ASSUME NEW k \in CallState, NEW map \in [Ids -> Ticket], CallOK(k, map)
                 PROVE  CallOK(k, map)'
      OBVIOUS
    <3>3. Old(k.id) => Old(k.id)' /\ k.id[1] # now'
      BY <1>1, <3>2
    <3> QED
      BY <3>1, <3>3, Zenon DEF CallOK, Held
  <2>3. \A c \in Callers : call[c] \in CallState /\ inner[Home[c]] \in [Ids -> Ticket]
    BY DEF TypeOK
  <2> QED
    BY <2>1, <2>2, <2>3 DEF Agreement, CallInv, Apart
<1> QED
  BY <1>4, <1>5, <1>6 DEF Agreement, Tick, TypeOK

\* An update that hands out no id and is no answer: it replaces ticket i, t in the
\* caller's process, by u, which keeps the validity and the limit and takes back no
\* use (approve, reject, consume).
Replaces(c, op, i, t, u) ==
  /\ Update(c, op, i, u) /\ UNCHANGED <<seq, quota>>
  /\ t = inner[Home[c]][i] /\ t.status # "Absent" /\ u.status # "Absent"
  /\ u.expires = t.expires /\ u.max = t.max
  /\ t.uses <= u.uses /\ u.uses <= u.max
  /\ i \notin rejected
  /\ op = "reject" => u.status = "Rejected" /\ u.uses = 0
  /\ op = "consume" => u.uses = t.uses + 1
  /\ \A d \in Callers : call[d].op = "reject" => call[d].id # i

\* Such an update of the only process leaves memory, disk, calls and answers in
\* agreement (approve, reject, consume).
LEMMA AgreementReplace ==
  ASSUME Durable, TypeOK, Agreement,
         NEW c \in Callers, NEW op \in {"approve", "reject", "consume"}, NEW i \in Ids,
         NEW t \in Ticket, NEW u \in Ticket, Replaces(c, op, i, t, u)
  PROVE  Agreement'
<1> PICK p : Procs = {p}
  BY DEF Durable
<1>1. Home[c] = p /\ p \in Procs /\ \A d \in Callers : Home[d] = p
  OBVIOUS
<1>u. Update(c, op, i, u) /\ UNCHANGED <<seq, quota>> /\ i \notin rejected
  BY DEF Replaces
<1>t. t = inner[p][i] /\ t.status # "Absent" /\ u.status # "Absent"
  BY <1>1 DEF Replaces
<1>n. u.expires = t.expires /\ u.max = t.max /\ t.uses <= u.uses /\ u.uses <= u.max
  BY DEF Replaces
<1>o. /\ op = "reject" => u.status = "Rejected" /\ u.uses = 0
      /\ op = "consume" => u.uses = t.uses + 1
      /\ \A d \in Callers : call[d].op = "reject" => call[d].id # i
  BY DEF Replaces
<1>2. inner[p] \in [Ids -> Ticket] /\ inner'[p] = [inner[p] EXCEPT ![i] = u]
  BY <1>1, <1>u DEF Update, TypeOK
<1>v. inner'[p][i] = u /\ \A j \in Ids \ {i} : inner'[p][j] = inner[p][j]
  BY <1>2
<1>3. Held(inner'[p]) = Held(inner[p]) /\ i \in Held(inner[p])
  BY <1>2, <1>t DEF Held
<1>4. \A j \in Ids : Old(j)' <=> Old(j)
  BY <1>u DEF Old, Update
<1>5. Answered' = Answered /\ Answered \subseteq Ids
  BY <1>u DEF Answered, Update, TypeOK
<1>6. t.uses \in Nat /\ u.uses \in Nat /\ u.max \in Nat /\ quota[i] \in Nat
  BY DEF Ticket, TypeOK
<1>7. MapInv(inner[p]) /\ MapInv(disk) /\ AnswerInv /\ CallInv
  BY <1>1 DEF Agreement
<1>8. MapInv(disk)'
  BY <1>4, <1>5, <1>7, <1>u, Zenon DEF MapInv, Update, Held
<1>9. MapInv(inner[p])'
  <2>1. ASSUME NEW j \in Held(inner[p])
        PROVE  /\ Old(j)' /\ j[1] <= inner'[p][j].expires
               /\ inner'[p][j].max = quota'[j] /\ inner'[p][j].uses <= quota'[j]
    <3>1. j \in Ids BY DEF Held
    <3>2. /\ Old(j) /\ j[1] <= inner[p][j].expires
          /\ inner[p][j].max = quota[j] /\ inner[p][j].uses <= quota[j]
      BY <1>7, Zenon DEF MapInv
    <3>3. CASE j = i
      BY <1>4, <1>n, <1>t, <1>u, <1>v, <3>2, <3>3, <1>6, Zenon
    <3>4. CASE j # i
      BY <1>4, <1>u, <1>v, <3>1, <3>2, <3>4, Zenon
    <3> QED BY <3>3, <3>4, Zenon
  <2>2. \A g \in granted' : g[1] \in Held(inner[p]) => g[2] <= inner'[p][g[1]].uses
    <3> SUFFICES ASSUME NEW g \in granted, g[1] \in Held(inner[p])
                 PROVE  g[2] <= inner'[p][g[1]].uses
      BY <1>u DEF Update
    <3>1. g[2] \in Nat /\ g[2] <= inner[p][g[1]].uses
      BY <1>7, Zenon DEF MapInv, TypeOK
    <3>2. CASE g[1] = i
      BY <1>6, <1>n, <1>t, <1>v, <3>1, <3>2
    <3>3. CASE g[1] # i
      BY <1>v, <3>1, <3>3, Zenon DEF Held
    <3> QED
      BY <3>2, <3>3, Zenon
  <2>3. \A j \in rejected' \cap Held(inner[p]) :
          inner'[p][j].status = "Rejected" /\ inner'[p][j].uses = 0
    BY <1>7, <1>u, <1>v, Zenon DEF MapInv, Update, Held
  <2>4. \A j \in Answered' : j[1] = now' => j \in Held(inner[p])
    BY <1>5, <1>7, <1>u DEF MapInv, Update
  <2> QED
    BY <1>3, <2>1, <2>2, <2>3, <2>4, Zenon DEF MapInv
<1>10. AnswerInv'
  BY <1>4, <1>5, <1>7, <1>u DEF AnswerInv, Update
<1>11. CallInv'
  <2> DEFINE k == [op |-> op, id |-> i, uses |-> u.uses]
  <2>1. call' = [call EXCEPT ![c] = k] /\ UNCHANGED <<now, granted, issued, rejected, quota>>
    BY <1>u DEF Update
  <2>2. k.op = op /\ k.id = i /\ k.uses = u.uses
    OBVIOUS
  <2> HIDE DEF k
  <2>3. u.uses <= quota[i] /\ Old(i)'
    <3>1. Old(i) /\ inner[p][i].max = quota[i]
      BY <1>3, <1>7, Zenon DEF MapInv
    <3> QED BY <1>4, <1>n, <1>t, <3>1, Zenon
  <2>4. \A g \in granted : g[1] = i => 1 <= g[2] /\ g[2] <= t.uses /\ g[2] \in Nat
    BY <1>3, <1>7, <1>t, Zenon DEF MapInv, AnswerInv, TypeOK
  <2>5. /\ op = "consume" => <<i, u.uses>> \notin granted
        /\ op = "reject" => \A g \in granted : g[1] # i
    <3>1. ASSUME NEW g \in granted, g[1] = i PROVE 1 <= t.uses /\ g[2] # t.uses + 1
      BY <1>6, <2>4, <3>1
    <3>2. op = "reject" => t.uses = 0
      BY <1>6, <1>n, <1>o
    <3>3. \A n : <<i, n>>[1] = i /\ <<i, n>>[2] = n
      OBVIOUS
    <3> QED
      BY <1>o, <3>1, <3>2, <3>3
  <2>6. inner'[p][i] = u /\ i \in Held(inner'[p])
    BY <1>3, <1>v, Zenon
  <2>7. CallOK(k, inner[p])'
    <3>1. op = "consume" => 1 <= u.uses
      BY <1>6, <1>o
    <3>2. u.uses <= u.uses
      BY <1>6
    <3> QED
      BY <1>o, <1>u, <2>1, <2>2, <2>3, <2>5, <2>6, <3>1, <3>2, ZenonT(30) DEF CallOK
  <2>8. ASSUME NEW d \in Callers \ {c}, NEW l \in CallState, l = call[d]
        PROVE  CallOK(l, inner[p])' /\ Apart(l, k) /\ Apart(k, l)
    <3>1. CallOK(l, inner[p]) /\ (l.op = "reject" => l.id # i)
      BY <1>1, <1>7, <1>o, <2>8, Zenon DEF CallInv
    <3>2. l.id \in Ids /\ l.uses \in Nat
      BY DEF CallState
    <3>3. l.id # i => inner'[p][l.id] = inner[p][l.id]
      BY <1>v, <3>2
    <3>a. l.op = "consume" /\ l.id = i => 1 <= l.uses /\ l.uses <= t.uses
      BY <1>3, <1>t, <3>1, Zenon DEF CallOK
    <3>b. l.op = "consume" /\ l.id = i => l.uses <= u.uses
      BY <1>6, <1>n, <3>2, <3>a, LeqTrans, Zenon
    <3>4. l.op = "consume" /\ l.id = i => 1 <= l.uses /\ l.uses <= inner'[p][l.id].uses
      BY <2>6, <3>a, <3>b, Zenon
    <3>5. CallOK(l, inner[p])'
      BY <1>3, <1>4, <2>1, <3>1, <3>2, <3>3, <3>4, Zenon DEF CallOK
    <3>6. Apart(l, k) /\ Apart(k, l)
      <4>1. l.op = "consume" /\ l.id = i => op = "approve" \/ (op = "consume" /\ l.uses # u.uses)
        BY <1>6, <1>n, <1>o, <3>2, <3>a
      <4> QED
        BY <2>2, <3>1, <4>1, Zenon DEF Apart
    <3> QED
      BY <3>5, <3>6, Zenon
  <2> QED
    BY ZenonT(60), <1>7, <2>1, <2>7, <2>8, CallInvStep
<1> QED
  BY <1>8, <1>9, <1>10, <1>11, Zenon DEF Agreement

LEMMA AgreementIssue ==
  ASSUME Durable, TypeOK, Agreement,
         NEW c \in Callers, NEW bind \in Bindings, NEW by \in Issuers, NEW dual \in BOOLEAN,
         NEW ttl \in Ttls, NEW m \in MaxUses, issue(c, bind, by, dual, ttl, m)
  PROVE  Agreement'
<1> PICK p : Procs = {p}
  BY DEF Durable
<1>s. seq \in [Procs -> 1..(MaxSeq + 1)] /\ now \in 0..MaxTime /\ quota \in [Ids -> Nat]
      /\ inner \in [Procs -> [Ids -> Ticket]]
  BY Zenon DEF TypeOK
<1>q. Home[c] = p /\ seq[p] \in Nat \ {0} /\ now \in Nat /\ inner[p] \in [Ids -> Ticket]
  BY <1>s
<1>m. seq[p] <= MaxSeq
  BY <1>q, Zenon DEF issue
<1>0. PICK i \in Ids : i = <<now, seq[p]>>
  <2>1. seq[p] \in 1..MaxSeq
    BY <1>q, <1>m
  <2> QED
    BY <1>s, <2>1, IdFacts, Zenon
<1> DEFINE u == [bind |-> bind, by |-> by, dual |-> dual, expires |-> now + ttl,
                 max |-> IssuedUses(m), uses |-> 0,
                 status |-> IF dual THEN "Pending" ELSE "Active", approvedBy |-> NoOne]
<1>1. Home[c] = p /\ p \in Procs /\ \A d \in Callers : Home[d] = p
  OBVIOUS
<1>2. /\ i \in Ids /\ i[1] = now /\ i[2] = seq[p]
      /\ inner[p] \in [Ids -> Ticket] /\ inner'[p] = [inner[p] EXCEPT ![i] = u]
      /\ seq'[p] = seq[p] + 1 /\ quota' = [quota EXCEPT ![i] = u.max]
      /\ now' = now /\ seq[p] \in Nat /\ now \in Nat
  <2>1. /\ inner' = [inner EXCEPT ![p] = [@ EXCEPT ![i] = u]]
        /\ seq' = [seq EXCEPT ![p] = seq[p] + 1] /\ quota' = [quota EXCEPT ![i] = u.max]
        /\ now' = now
    BY <1>0, <1>q, Zenon DEF issue, Update
  <2> HIDE DEF u
  <2>2. inner'[p] = [inner[p] EXCEPT ![i] = u] /\ seq'[p] = seq[p] + 1
    BY <1>s, <2>1
  <2> QED
    BY <1>0, <1>q, <2>1, <2>2
<1>3. u.status # "Absent" /\ i[1] <= u.expires /\ u.max \in Nat \ {0} /\ u.uses = 0
  <2>1. ttl \in Nat /\ m \in Nat
    OBVIOUS
  <2>2. now <= now + ttl
    <3>1. now \in Nat
      BY <1>2, Zenon
    <3> QED
      BY <2>1, <3>1
  <2>3. IssuedUses(m) \in Nat \ {0}
    BY <2>1 DEF IssuedUses
  <2> QED
    BY <1>2, <2>2, <2>3, Zenon
<1>4. UNCHANGED <<disk, granted, regranted, rejected, issued, reissued>>
  BY DEF issue, Update
<1> HIDE DEF u
<1>5. Held(inner'[p]) = Held(inner[p]) \cup {i}
  BY <1>2, <1>3, Zenon DEF Held
<1>6. ~ Old(i) /\ Old(i)' /\ \A j \in Ids : Old(j) => Old(j)'
  <2>1. \A j \in Ids : Old(j) <=> (j[1] < now \/ (j[1] = now /\ j[2] < seq[p]))
    BY DEF Old
  <2>2. \A j \in Ids : Old(j)' <=> (j[1] < now \/ (j[1] = now /\ j[2] < seq[p] + 1))
    BY <1>2, Zenon DEF Old
  <2>3. \A j \in Ids : j[1] \in Nat /\ j[2] \in Nat
    BY IdFacts
  <2>4. i \in Ids /\ i[1] = now /\ i[2] = seq[p] /\ seq[p] \in Nat /\ now \in Nat
    BY <1>2
  <2>5. ~ Old(i)
    BY <2>1, <2>4
  <2>6. Old(i)'
    BY <2>2, <2>4
  <2>7. \A j \in Ids : Old(j) => Old(j)'
    BY <2>1, <2>2, <2>3, <2>4
  <2> QED
    BY <2>5, <2>6, <2>7
<1>7. MapInv(inner[p]) /\ MapInv(disk) /\ AnswerInv /\ CallInv
  BY <1>1 DEF Agreement
<1>8. Answered' = Answered /\ Answered \subseteq Ids /\ i \notin Answered
  <2>1. Answered' = Answered
    BY <1>4 DEF Answered
  <2>2. Answered \subseteq Ids
    BY DEF Answered, TypeOK
  <2> QED
    BY <1>6, <1>7, <2>1, <2>2 DEF AnswerInv
<1>9. /\ \A g \in granted : g[1] \in Ids /\ g[2] \in Nat /\ g[1] # i
      /\ i \notin rejected /\ i \notin Held(disk) /\ i \notin Held(inner[p])
      /\ \A j \in Ids \ {i} : quota'[j] = quota[j] /\ inner'[p][j] = inner[p][j]
      /\ inner'[p][i] = u /\ quota'[i] = u.max /\ i \notin issued
  <2>1. i \notin Held(disk) /\ i \notin Held(inner[p])
    BY <1>6, <1>7, Zenon DEF MapInv
  <2>2. /\ \A g \in granted : g[1] \in Ids /\ g[2] \in Nat /\ g[1] # i
        /\ i \notin rejected /\ i \notin issued
    BY <1>2, <1>8 DEF Answered, TypeOK
  <2>3. quota \in [Ids -> Nat]
    BY DEF TypeOK
  <2> QED
    BY <1>2, <2>1, <2>2, <2>3, Zenon
<1>10. MapInv(disk)'
  <2>1. \A j \in Held(disk) : /\ Old(j)' /\ j[1] <= disk[j].expires
                              /\ disk[j].max = quota'[j] /\ disk[j].uses <= quota'[j]
    BY ZenonT(60), <1>6, <1>7, <1>9 DEF MapInv, Held
  <2> QED
    BY ZenonT(60), <1>2, <1>4, <1>7, <1>8, <2>1 DEF MapInv
<1>11. MapInv(inner[p])'
  <2>1. \A j \in Held(inner[p]) :
          /\ Old(j)' /\ j[1] <= inner'[p][j].expires
          /\ inner'[p][j].max = quota'[j] /\ inner'[p][j].uses <= quota'[j]
    BY ZenonT(60), <1>6, <1>7, <1>9 DEF MapInv, Held
  <2>2. /\ Old(i)' /\ i[1] <= inner'[p][i].expires
        /\ inner'[p][i].max = quota'[i] /\ inner'[p][i].uses <= quota'[i]
    <3>1. \A x, y : x \in Nat \ {0} /\ y = 0 => y <= x
      OBVIOUS
    <3> QED
      BY <1>3, <1>6, <1>9, <3>1, Zenon
  <2>3. \A g \in granted' : g[1] \in Held(inner'[p]) => g[2] <= inner'[p][g[1]].uses
    BY ZenonT(60), <1>4, <1>5, <1>7, <1>9 DEF MapInv
  <2>4. \A j \in rejected' \cap Held(inner'[p]) :
          inner'[p][j].status = "Rejected" /\ inner'[p][j].uses = 0
    <3>1. \A j \in rejected \cap Held(inner[p]) :
            inner[p][j].status = "Rejected" /\ inner[p][j].uses = 0
      BY ZenonT(60), <1>7 DEF MapInv
    <3>2. rejected' \cap Held(inner'[p]) = rejected \cap Held(inner[p])
      BY ZenonT(60), <1>4, <1>5, <1>9
    <3>3. \A j \in rejected \cap Held(inner[p]) : inner'[p][j] = inner[p][j]
      BY ZenonT(60), <1>9 DEF Held
    <3> QED
      BY ZenonT(60), <3>1, <3>2, <3>3
  <2>5. \A j \in Answered' : j[1] = now' => j \in Held(inner'[p])
    BY ZenonT(60), <1>2, <1>5, <1>7, <1>8 DEF MapInv
  <2>6. \A j \in Held(inner'[p]) :
          /\ Old(j)' /\ j[1] <= inner'[p][j].expires
          /\ inner'[p][j].max = quota'[j] /\ inner'[p][j].uses <= quota'[j]
    BY <1>5, <2>1, <2>2
  <2> QED
    BY ZenonT(60), <2>3, <2>4, <2>5, <2>6 DEF MapInv
<1>12. AnswerInv'
  BY ZenonT(60), <1>4, <1>6, <1>7, <1>8, <1>9 DEF AnswerInv
<1>13. CallInv'
  <2> DEFINE k == [op |-> "issue", id |-> i, uses |-> 0]
  <2>1. call' = [call EXCEPT ![c] = k]
    BY <1>0, <1>1 DEF issue, Update
  <2>2. k.op = "issue" /\ k.id = i
    BY ZenonT(60)
  <2> HIDE DEF k
  <2>3. i \notin issued' /\ Old(i)' /\ i \in Held(inner'[p])
    BY ZenonT(60), <1>4, <1>5, <1>6, <1>9
  <2>4. CallOK(k, inner[p])'
    BY <2>2, <2>3, Zenon DEF CallOK
  <2>5. ASSUME NEW d \in Callers \ {c}, NEW l \in CallState, l = call[d]
        PROVE  CallOK(l, inner[p])' /\ Apart(l, k) /\ Apart(k, l)
    <3>1. CallOK(l, inner[p])
      BY <1>1, <1>7, <2>5 DEF CallInv
    <3>2. l.id \in Ids /\ (l.op \in {"issue", "reject", "consume"} => l.id # i)
      BY <1>6, <3>1, Zenon DEF CallOK, CallState
    <3>3. l.id # i => /\ inner'[p][l.id] = inner[p][l.id] /\ quota'[l.id] = quota[l.id]
                      /\ l.id \in Held(inner'[p]) <=> l.id \in Held(inner[p])
      BY <1>5, <1>9, <3>2, Zenon
    <3>4. /\ Old(l.id) => Old(l.id)'
          /\ UNCHANGED <<now, issued, granted, rejected>>
      BY ZenonT(60), <1>2, <1>4, <1>6, <3>2
    <3>5. CallOK(l, inner[p])'
      BY <3>1, <3>2, <3>3, <3>4, Zenon DEF CallOK
    <3> QED
      BY <2>2, <3>2, <3>5, Zenon DEF Apart
  <2> QED
    BY ZenonT(60), <1>7, <2>1, <2>4, <2>5, CallInvStep
<1> QED
  BY <1>10, <1>11, <1>12, <1>13, Zenon DEF Agreement

LEMMA AgreementPrune ==
  ASSUME Durable, TypeOK, Agreement, NEW c \in Callers, prune_expired(c)
  PROVE  Agreement'
<1> PICK p : Procs = {p}
  BY DEF Durable
<1> DEFINE gone == {i \in Held(inner[p]) : is_expired(inner[p][i])}
<1>1. Home[c] = p /\ p \in Procs /\ \A d \in Callers : Home[d] = p
  OBVIOUS
<1>2. /\ inner[p] \in [Ids -> Ticket]
      /\ inner'[p] = [i \in Ids |-> IF i \in gone THEN NoTicket ELSE inner[p][i]]
      /\ UNCHANGED <<now, seq, disk, quota, issued, reissued, granted, regranted, rejected>>
  BY <1>1 DEF prune_expired, TypeOK, history
<1>3. Held(inner'[p]) = Held(inner[p]) \ gone
  <2>1. NoTicket.status = "Absent"
    BY DEF NoTicket
  <2>2. \A i \in Ids : inner'[p][i] = IF i \in gone THEN NoTicket ELSE inner[p][i]
    BY <1>2, Zenon
  <2> HIDE DEF gone
  <2> QED
    BY <2>1, <2>2, Zenon DEF Held
<1>4. \A i \in Held(inner'[p]) : inner'[p][i] = inner[p][i]
  BY ZenonT(60), <1>2, <1>3 DEF Held
<1>5. MapInv(inner[p]) /\ MapInv(disk) /\ AnswerInv /\ CallInv
  BY <1>1 DEF Agreement
<1>6. \A i \in gone : i[1] # now
  <2>1. \A i \in gone : i[1] <= inner[p][i].expires /\ inner[p][i].expires < now
    BY <1>5, Zenon DEF MapInv, is_expired
  <2>2. \A i \in gone : i[1] \in Nat /\ inner[p][i].expires \in Nat /\ now \in Nat
    <3>1. \A i \in gone : i \in Ids /\ inner[p][i] \in Ticket
      BY <1>2, Zenon DEF Held
    <3>2. \A x \in Ticket : x.expires \in Nat
      BY DEF Ticket
    <3>3. now \in 0..MaxTime
      BY Zenon DEF TypeOK
    <3>4. \A i \in Ids : i[1] \in Nat
      BY IdFacts
    <3>5. now \in Nat
      BY <3>3
    <3> QED
      BY <3>1, <3>2, <3>4, <3>5, Zenon
  <2> QED
    BY <2>1, <2>2
<1>7. Answered' = Answered /\ \A j : Old(j)' <=> Old(j)
  BY ZenonT(60), <1>2 DEF Answered, Old
<1> HIDE DEF gone
<1>8. MapInv(disk)' /\ AnswerInv'
  BY <1>2, <1>5, <1>7, Zenon DEF MapInv, AnswerInv
<1>9. MapInv(inner[p])'
  BY <1>2, <1>3, <1>4, <1>5, <1>6, <1>7, Zenon DEF MapInv
<1>10. CallInv'
  <2> DEFINE k == [NoCall EXCEPT !.op = "prune"]
  <2>1. call' = [call EXCEPT ![c] = k]
    BY DEF prune_expired
  <2>2. k.op = "prune"
    BY DEF NoCall
  <2> HIDE DEF k
  <2>3. CallOK(k, inner[p])'
    BY <2>2, Zenon DEF CallOK
  <2>4. ASSUME NEW d \in Callers \ {c}, NEW l \in CallState, l = call[d]
        PROVE  CallOK(l, inner[p])' /\ Apart(l, k) /\ Apart(k, l)
    <3>1. CallOK(l, inner[p])
      BY <1>1, <1>5, <2>4 DEF CallInv
    <3>2. /\ l.id \in Held(inner'[p]) =>
               l.id \in Held(inner[p]) /\ inner'[p][l.id] = inner[p][l.id]
          /\ l.id[1] = now /\ l.id \in Held(inner[p]) => l.id \in Held(inner'[p])
      BY <1>3, <1>4, <1>6, Zenon
    <3>3. CallOK(l, inner[p])'
      BY ZenonT(60), <1>2, <1>7, <3>1, <3>2 DEF CallOK
    <3> QED
      BY <2>2, <3>3, Zenon DEF Apart
  <2> QED
    BY ZenonT(60), <1>5, <2>1, <2>3, <2>4, CallInvStep
<1> QED
  BY <1>8, <1>9, <1>10, Zenon DEF Agreement

LEMMA AgreementAnswer ==
  ASSUME Durable, TypeOK, Agreement, NEW c \in Callers, Answer(c)
  PROVE  Agreement'
<1> PICK p : Procs = {p}
  BY DEF Durable
<1>0. PICK op \in {"none", "issue", "approve", "reject", "consume", "prune"}, i \in Ids,
           n \in Nat : op = call[c].op /\ i = call[c].id /\ n = call[c].uses
  BY DEF TypeOK, CallState
<1>1. Home[c] = p /\ p \in Procs /\ \A d \in Callers : Home[d] = p
  OBVIOUS
<1>2. /\ inner[p] \in [Ids -> Ticket] /\ disk' = inner[p]
      /\ UNCHANGED <<now, inner, seq, reload, quota>>
  BY <1>1 DEF Answer, persist, Durable, TypeOK
<1>3. MapInv(inner[p]) /\ AnswerInv /\ CallInv /\ CallOK(call[c], inner[p])
  BY <1>1 DEF Agreement, CallInv
<1>4. /\ issued' = IF op = "issue" THEN issued \cup {i} ELSE issued
      /\ reissued' = IF op = "issue" THEN reissued \cup (issued \cap {i}) ELSE reissued
      /\ granted' = IF op = "consume" THEN granted \cup {<<i, n>>} ELSE granted
      /\ rejected' = IF op = "reject" THEN rejected \cup {i} ELSE rejected
      /\ regranted' = IF op = "consume" THEN regranted \cup (granted \cap {<<i, n>>})
                                        ELSE regranted
  BY <1>0 DEF Answer
<1>5. /\ issued \subseteq Ids
      /\ granted \subseteq Ids \X Nat /\ rejected \subseteq Ids
  BY <1>4 DEF TypeOK
<1>6. /\ \A j : Old(j)' <=> Old(j)
      /\ Held(inner[p]) \subseteq Ids
  BY <1>2, Zenon DEF Old, Held
<1>7. \A j \in Answered' : j \in Ids /\ (j \in Answered \/ (j = i /\ op \in {"issue", "reject", "consume"}))
  <2>1. \A j \in issued' : j \in Ids /\ (j \in issued \/ (j = i /\ op = "issue"))
    BY <1>4, <1>5
  <2>2. \A g \in granted' : g[1] \in Ids /\ (g \in granted \/ (g[1] = i /\ op = "consume"))
    BY <1>4, <1>5
  <2>3. \A j \in rejected' : j \in Ids /\ (j \in rejected \/ (j = i /\ op = "reject"))
    BY <1>4, <1>5
  <2> QED
    BY <2>1, <2>2, <2>3 DEF Answered
<1>8. /\ op \in {"issue", "reject", "consume"} =>
           Old(i) /\ (i[1] = now => i \in Held(inner[p]))
      /\ op = "issue" => i \notin issued
      /\ op = "reject" =>
           /\ i \in Held(inner[p]) => inner[p][i].status = "Rejected" /\ inner[p][i].uses = 0
           /\ \A g \in granted : g[1] # i
      /\ op = "consume" =>
           /\ 1 <= n /\ n <= quota[i] /\ i \notin rejected
           /\ <<i, n>> \notin granted
           /\ i \in Held(inner[p]) => n <= inner[p][i].uses
  BY ZenonT(60), <1>0, <1>1, <1>3 DEF CallOK
<1>9. MapInv(inner[p])'
  <2>1. \A g \in granted' : g[1] \in Held(inner[p]) => g[2] <= inner[p][g[1]].uses
    <3>1. \A g \in granted' : g \in granted \/ (op = "consume" /\ g[1] = i /\ g[2] = n)
      BY <1>4
    <3> QED
      BY ZenonT(60), <1>3, <1>8, <3>1 DEF MapInv
  <2>2. \A j \in rejected' \cap Held(inner[p]) :
          inner[p][j].status = "Rejected" /\ inner[p][j].uses = 0
    BY <1>3, <1>4, <1>8, Zenon DEF MapInv
  <2>3. \A j \in Answered' : j[1] = now => j \in Held(inner[p])
    BY <1>3, <1>7, <1>8, Zenon DEF MapInv
  <2>4. \A j \in Held(inner[p]) :
          /\ Old(j)' /\ j[1] <= inner[p][j].expires
          /\ inner[p][j].max = quota[j] /\ inner[p][j].uses <= quota[j]
    BY <1>3, <1>6, Zenon DEF MapInv
  <2> QED
    BY <1>2, <2>1, <2>2, <2>3, <2>4, Zenon DEF MapInv
<1>10. MapInv(disk)'
  BY <1>2, <1>9, Zenon DEF MapInv
<1>11. AnswerInv'
  <2>1. \A j \in Answered' : Old(j)'
    BY ZenonT(60), <1>3, <1>6, <1>7, <1>8 DEF AnswerInv
  <2>2. reissued' = {}
    BY ZenonT(60), <1>3, <1>4, <1>5, <1>8 DEF AnswerInv
  <2>3. regranted' = {}
    BY <1>3, <1>4, <1>8, Zenon DEF AnswerInv
  <2>4. \A g \in granted' : 1 <= g[2] /\ g[2] <= quota'[g[1]] /\ g[1] \notin rejected'
    <3>1. ASSUME NEW g \in granted'
          PROVE  \/ g \in granted /\ ~ (op = "reject" /\ g[1] = i)
                 \/ op = "consume" /\ g = <<i, n>>
      BY <1>4, <1>8, Zenon
    <3>2. \A g : op = "consume" /\ g = <<i, n>> =>
                  1 <= g[2] /\ g[2] <= quota[g[1]] /\ g[1] \notin rejected'
      <4>1. op = "consume" => 1 <= n /\ n <= quota[i] /\ i \notin rejected'
        BY <1>4, <1>8, Zenon
      <4>2. \A g : g = <<i, n>> => g[1] = i /\ g[2] = n
        OBVIOUS
      <4> QED
        BY <4>1, <4>2, Zenon
    <3> QED
      BY <1>2, <1>3, <1>4, <3>1, <3>2, Zenon DEF AnswerInv
  <2> QED
    BY <2>1, <2>2, <2>3, <2>4 DEF AnswerInv
<1>12. CallInv'
  <2>1. call' = [call EXCEPT ![c] = NoCall] /\ NoCall.op = "none"
    BY DEF Answer, NoCall
  <2>2. CallOK(NoCall, inner[p])'
    BY <2>1, Zenon DEF CallOK
  <2>3. ASSUME NEW d \in Callers \ {c}, NEW l \in CallState, l = call[d]
        PROVE  CallOK(l, inner[p])' /\ Apart(l, NoCall) /\ Apart(NoCall, l)
    <3>1. CallOK(l, inner[p]) /\ Apart(call[c], l) /\ Apart(l, call[c])
      BY <1>1, <1>3, <2>3 DEF CallInv
    <3>2. l.id = i => /\ ~ (l.op = "issue" /\ op = "issue")
                      /\ ~ (l.op = "reject" /\ op = "consume")
                      /\ ~ (l.op = "consume" /\ op = "reject")
                      /\ ~ (l.op = "consume" /\ op = "consume" /\ l.uses = n)
      BY <1>0, <3>1, Zenon DEF Apart
    <3>3. l.op = "issue" => l.id \notin issued'
      BY ZenonT(60), <1>4, <3>1, <3>2 DEF CallOK
    <3>4. l.op = "reject" => \A g \in granted' : g[1] # l.id
      <4>1. \A g \in granted' : g \in granted \/ (op = "consume" /\ g[1] = i)
        BY <1>4
      <4> QED
        BY <3>1, <3>2, <4>1, Zenon DEF CallOK
    <3>5. l.op = "consume" => l.id \notin rejected'
      BY ZenonT(60), <1>4, <3>1, <3>2 DEF CallOK
    <3>6. l.op = "consume" => <<l.id, l.uses>> \notin granted'
      BY ZenonT(60), <1>4, <3>1, <3>2 DEF CallOK
    <3>7. CallOK(l, inner[p])'
      BY ZenonT(60), <1>2, <1>6, <3>1, <3>3, <3>4, <3>5, <3>6 DEF CallOK
    <3> QED
      BY <2>1, <3>7, Zenon DEF Apart
  <2> QED
    BY ZenonT(60), <1>3, <2>1, <2>2, <2>3, CallInvStep
<1> QED
  BY ZenonT(60), <1>9, <1>10, <1>11, <1>12 DEF Agreement

LEMMA AgreementRestart ==
  ASSUME Durable, TypeOK, Agreement, NEW q \in Procs, Restart(q)
  PROVE  Agreement'
<1> PICK p : Procs = {p}
  BY Zenon DEF Durable
<1>1. q = p /\ p \in Procs /\ \A d \in Callers : Home[d] = p
  OBVIOUS
<1>2. /\ inner'[p] = disk /\ disk \in [Ids -> Ticket] /\ seq'[p] = SeqAfter(disk)
      /\ UNCHANGED <<now, disk, quota, issued, reissued, granted, regranted, rejected>>
      /\ \A d \in Callers : call'[d].op = "none"
  BY <1>1 DEF Restart, Loaded, Durable, TypeOK, history, NoCall
<1>3. MapInv(disk) /\ AnswerInv
  BY DEF Agreement
<1>4. \A i \in Held(disk) : i[2] < seq'[p]
  BY ZenonT(60), <1>2, SeqAfterFact
<1>5. \A i \in Held(disk) : Old(i)'
  <2>1. \A i \in Held(disk) : Old(i) /\ i[1] \in Nat /\ i[2] \in Nat
    <3>1. \A i \in Held(disk) : Old(i) /\ i \in Ids
      BY <1>3, Zenon DEF MapInv, Held
    <3>2. \A i \in Ids : i[1] \in Nat /\ i[2] \in Nat
      BY IdFacts
    <3> QED
      BY <3>1, <3>2, Zenon
  <2> QED
    BY <1>1, <1>2, <1>4, <2>1 DEF Old
<1>6. Answered' = Answered
  BY ZenonT(60), <1>2 DEF Answered
<1>7. \A i \in Answered : Old(i)'
  <2>1. \A i \in Answered : Old(i) /\ (i[1] = now => i \in Held(disk))
    BY <1>3, Zenon DEF MapInv, AnswerInv
  <2>2. \A i \in Answered : i[1] = now => Old(i)'
    BY <1>5, <2>1
  <2>3. \A i \in Answered : i[1] < now => Old(i)'
    BY <1>2 DEF Old
  <2> QED
    BY <1>1, <2>1, <2>2, <2>3, Zenon DEF Old
<1>8. MapInv(disk)'
  BY ZenonT(60), <1>2, <1>3, <1>5, <1>6 DEF MapInv
<1>9. MapInv(inner[p])'
  BY <1>2, <1>8, Zenon DEF MapInv
<1>10. AnswerInv'
  BY ZenonT(60), <1>2, <1>3, <1>6, <1>7 DEF AnswerInv
<1>11. CallInv'
  BY ZenonT(60), <1>2 DEF CallInv, CallOK, Apart
<1> QED
  BY <1>8, <1>9, <1>10, <1>11, Zenon DEF Agreement

LEMMA AgreementApprove ==
  ASSUME Durable, TypeOK, Agreement,
         NEW c \in Callers, NEW i \in Ids, NEW who \in People, approve(c, i, who)
  PROVE  Agreement'
<1> DEFINE t == inner[Home[c]][i]
           u == [t EXCEPT !.status = "Active", !.approvedBy = who]
<1>1. t \in Ticket /\ Home[c] \in Procs
  BY DEF TypeOK
<1>2. t.status = "Pending" /\ Update(c, "approve", i, u) /\ UNCHANGED <<seq, quota>>
  BY DEF approve, MayApprove
<1>3. i \in Held(inner[Home[c]]) /\ i \notin rejected /\ t.uses <= t.max
  BY <1>1, <1>2 DEF Held, Agreement, MapInv
<1>4. \A d \in Callers : call[d].op = "reject" => call[d].id # i
  <2>1. \A d \in Callers : Home[d] = Home[c]
    BY DEF Durable
  <2>2. \A d \in Callers : CallOK(call[d], inner[Home[c]])
    BY <2>1 DEF Agreement, CallInv
  <2>3. t.status # "Rejected"
    BY <1>2
  <2>4. \A k : CallOK(k, inner[Home[c]]) /\ k.op = "reject" => k.id # i
    BY ZenonT(60), <1>3, <2>3 DEF CallOK
  <2> QED
    BY <2>2, <2>4
<1> HIDE DEF t
<1>5. /\ u \in Ticket /\ u.status = "Active" /\ u.uses = t.uses
      /\ u.expires = t.expires /\ u.max = t.max /\ t.uses \in Nat
  BY ZenonT(60), <1>1, TicketUpdates DEF Ticket
<1> HIDE DEF u
<1>6. Replaces(c, "approve", i, t, u)
  <2>1. t = inner[Home[c]][i] /\ t.status # "Absent"
    BY <1>3, Zenon DEF Held, t
  <2>2. t.uses <= u.uses /\ u.uses <= u.max
    BY <1>3, <1>5
  <2> QED
    BY <1>2, <1>3, <1>4, <1>5, <2>1, <2>2, ZenonT(30) DEF Replaces
<1> QED
  BY <1>1, <1>5, <1>6, AgreementReplace

LEMMA AgreementReject ==
  ASSUME Durable, TypeOK, Agreement, NEW c \in Callers, NEW i \in Ids, reject(c, i)
  PROVE  Agreement'
<1> DEFINE t == inner[Home[c]][i]
           u == [t EXCEPT !.status = "Rejected"]
<1>1. t \in Ticket /\ Home[c] \in Procs
  BY DEF TypeOK
<1>2. /\ t.uses = 0 /\ t.status \in {"Pending", "Active"}
      /\ Update(c, "reject", i, u) /\ UNCHANGED <<seq, quota>>
  BY DEF reject, MayReject
<1>3. i \in Held(inner[Home[c]]) /\ i \notin rejected /\ t.uses <= t.max
  BY <1>1, <1>2 DEF Held, Agreement, MapInv
<1>4. \A d \in Callers : call[d].op = "reject" => call[d].id # i
  <2>1. \A d \in Callers : Home[d] = Home[c]
    BY DEF Durable
  <2>2. \A d \in Callers : CallOK(call[d], inner[Home[c]])
    BY <2>1 DEF Agreement, CallInv
  <2>3. t.status # "Rejected"
    BY <1>2
  <2>4. \A k : CallOK(k, inner[Home[c]]) /\ k.op = "reject" => k.id # i
    BY ZenonT(60), <1>3, <2>3 DEF CallOK
  <2> QED
    BY <2>2, <2>4
<1> HIDE DEF t
<1>5. /\ u \in Ticket /\ u.status = "Rejected" /\ u.uses = t.uses
      /\ u.expires = t.expires /\ u.max = t.max /\ t.uses \in Nat
  BY ZenonT(60), <1>1, TicketUpdates DEF Ticket
<1> HIDE DEF u
<1>6. Replaces(c, "reject", i, t, u)
  <2>1. t = inner[Home[c]][i] /\ t.status # "Absent"
    BY <1>3, Zenon DEF Held, t
  <2>2. t.uses <= u.uses /\ u.uses <= u.max
    BY <1>3, <1>5
  <2> QED
    BY <1>2, <1>3, <1>4, <1>5, <2>1, <2>2, ZenonT(30) DEF Replaces
<1> QED
  BY <1>1, <1>5, <1>6, AgreementReplace

LEMMA AgreementConsume ==
  ASSUME Durable, TypeOK, Agreement,
         NEW c \in Callers, NEW i \in Ids, NEW bind \in Bindings, consume(c, i, bind)
  PROVE  Agreement'
<1> DEFINE t == inner[Home[c]][i]
           u == [t EXCEPT !.uses = t.uses + 1]
<1>1. t \in Ticket /\ Home[c] \in Procs
  BY DEF TypeOK
<1>2. /\ t.uses < t.max /\ t.status = "Active"
      /\ Update(c, "consume", i, u) /\ UNCHANGED <<seq, quota>>
  BY DEF consume, is_consumable
<1>3. i \in Held(inner[Home[c]]) /\ i \notin rejected
  BY <1>1, <1>2 DEF Held, Agreement, MapInv
<1>4. \A d \in Callers : call[d].op = "reject" => call[d].id # i
  <2>1. \A d \in Callers : Home[d] = Home[c]
    BY DEF Durable
  <2>2. \A d \in Callers : CallOK(call[d], inner[Home[c]])
    BY <2>1 DEF Agreement, CallInv
  <2>3. t.status # "Rejected"
    BY <1>2
  <2>4. \A k : CallOK(k, inner[Home[c]]) /\ k.op = "reject" => k.id # i
    BY <1>3, <2>3, Zenon DEF CallOK
  <2> QED
    BY <2>2, <2>4
<1> HIDE DEF t
<1>5. u \in Ticket
  BY ZenonT(60), <1>1, TicketUpdates
<1>6. /\ u.status = "Active" /\ u.uses = t.uses + 1
      /\ u.expires = t.expires /\ u.max = t.max /\ t.uses \in Nat /\ t.max \in Nat
  BY <1>1, <1>2 DEF Ticket
<1> HIDE DEF u
<1>7. t.uses <= u.uses /\ u.uses <= u.max
  <2>1. t.uses < t.max
    BY <1>2, Zenon
  <2> QED
    BY <1>6, <2>1
<1>8. Replaces(c, "consume", i, t, u)
  <2>1. t = inner[Home[c]][i] /\ t.status # "Absent"
    BY <1>3, Zenon DEF Held, t
  <2> QED
    BY <1>2, <1>3, <1>4, <1>6, <1>7, <2>1, ZenonT(30) DEF Replaces
<1> QED
  BY <1>1, <1>5, <1>8, AgreementReplace

\* One process with the file backend, no reload and no failing write: what
\* callers were told, the map, the file and the calls in progress agree at
\* every point, crashes and restarts included (persist, load_from_disk).
THEOREM AgreementHolds == ASSUME Durable PROVE Spec => []Agreement
<1> DEFINE Quiet == \A p \in Procs : reload[p].at = "none"
           Inv == TypeOK /\ Agreement /\ Quiet
<1>1. Init => Agreement /\ Quiet
  <2>1. Init => reload = [p \in Procs |-> NoReload]
    BY Zenon DEF Init
  <2>2. NoReload.at = "none"
    BY DEF NoReload
  <2> QED
    BY <2>1, <2>2, AgreementInit, Zenon
<1>2. Inv /\ TypeOK' /\ [Next]_vars => Agreement' /\ Quiet'
  <2> SUFFICES ASSUME Inv, [Next]_vars PROVE Agreement' /\ Quiet'
    OBVIOUS
  <2>1. CASE UNCHANGED vars
    <3>1. Quiet'
      BY <2>1, Zenon DEF vars, history
    <3>2. Answered' = Answered /\ (\A i : Old(i)' <=> Old(i))
      BY <2>1, Zenon DEF vars, history, Answered, Old
    <3>3. \A map : MapInv(map) => MapInv(map)'
      BY <2>1, <3>2, Zenon DEF vars, history, MapInv, Held
    <3>4. AnswerInv'
      BY <2>1, <3>2 DEF Agreement, AnswerInv, vars, history
    <3>5. \A k, map : CallOK(k, map) => CallOK(k, map)'
      <4>1. now' = now /\ issued' = issued /\ granted' = granted /\ quota' = quota /\ rejected' = rejected
        BY <2>1, Zenon DEF vars, history
      <4> QED
        <5> SUFFICES ASSUME NEW k, NEW map, CallOK(k, map) PROVE CallOK(k, map)'
          OBVIOUS
        <5>1. Old(k.id)' <=> Old(k.id)
          BY <3>2, Zenon
        <5> QED
          BY <4>1, <5>1, Zenon DEF CallOK
    <3>6. CallInv'
      BY <2>1, <3>5, Zenon DEF Agreement, CallInv, Apart, vars
    <3> QED
      BY <2>1, <3>1, <3>3, <3>4, <3>6, Zenon DEF Agreement, vars
  <2>2. CASE Tick
    BY ZenonT(60), <2>2, AgreementTick DEF Tick
  <2>3. ASSUME NEW c \in Callers, Call(c)
        PROVE  Agreement' /\ Quiet'
    <3>1. reload' = reload
      <4>1. \A bind, by, dual, ttl, m : issue(c, bind, by, dual, ttl, m) => reload' = reload
        <5>1. \A bind, by, dual, ttl, m :
                 issue(c, bind, by, dual, ttl, m) => \E i, t : Update(c, "issue", i, t)
          BY Zenon DEF issue
        <5>2. \A i, t : Update(c, "issue", i, t) => reload' = reload
          BY DEF Update
        <5> QED
          BY <5>1, <5>2, Zenon
      <4>2. \A i, who : approve(c, i, who) => reload' = reload
        BY DEF approve, Update
      <4>3. \A i : reject(c, i) => reload' = reload
        BY DEF reject, Update
      <4>4. \A i, bind : consume(c, i, bind) => reload' = reload
        BY DEF consume, Update
      <4>5. prune_expired(c) \/ Answer(c) => reload' = reload
        BY DEF prune_expired, Answer
      <4> QED
        BY <2>3, <4>1, <4>2, <4>3, <4>4, <4>5, Zenon DEF Call
    <3>2. Quiet'
      BY <3>1
    <3> QED
      BY <2>3, <3>2, AgreementIssue, AgreementApprove, AgreementReject, AgreementConsume,
         AgreementPrune, AgreementAnswer DEF Call
  <2>4. ASSUME NEW p \in Procs, ReloadLoad(p) \/ ReloadMap(p) \/ ReloadSeq(p) \/ Restart(p)
        PROVE  Agreement' /\ Quiet'
    <3>1. Restart(p)
      BY <2>4 DEF ReloadLoad, ReloadMap, ReloadSeq, Durable
    <3>2. Quiet'
      BY ZenonT(60), <3>1 DEF Restart, NoReload, TypeOK
    <3> QED
      BY <3>1, <3>2, AgreementRestart
  <2> QED
    BY ZenonT(60), <2>1, <2>2, <2>3, <2>4 DEF Next
<1> QED
  BY <1>1, <1>2, TypeCorrect, PTL DEF Spec

\* Under the same conditions a ticket never lets through more statements than
\* it was issued for (consume, persist, load_from_disk).
THEOREM NeverOverconsumedHolds == ASSUME Durable PROVE Spec => []NeverOverconsumed
<1>1. Agreement => NeverOverconsumed
  BY DEF Agreement, AnswerInv, NeverOverconsumed
<1> QED
  BY <1>1, AgreementHolds, PTL

\* Under the same conditions a rejected ticket never lets a statement through
\* (reject, consume).
THEOREM RejectedNeverGrantedHolds == ASSUME Durable PROVE Spec => []RejectedNeverGranted
<1>1. Agreement => RejectedNeverGranted
  BY DEF Agreement, AnswerInv, RejectedNeverGranted
<1> QED
  BY <1>1, AgreementHolds, PTL

\* Under the same conditions no id is handed out twice, restarts included
\* (issue, load_from_disk).
THEOREM IssuedOnceHolds == ASSUME Durable PROVE Spec => []IssuedOnce
<1>1. Agreement => IssuedOnce
  BY DEF Agreement, AnswerInv, IssuedOnce
<1> QED
  BY <1>1, AgreementHolds, PTL

==============================================================================
