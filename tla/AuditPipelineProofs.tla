------------------------ MODULE AuditPipelineProofs -------------------------
(***************************************************************************)
(* Proofs about the audit pipeline, for every capacity, policy, number of  *)
(* threads and number of events: the type invariant, the accounting of     *)
(* events, and that the priority queue is a bounded log of its own.        *)
(***************************************************************************)
EXTENDS AuditPipeline, FiniteSetTheorems, TLAPS

\* enqueue adds the event to a queue that has room; otherwise it either
\* evicts the oldest event or refuses the new one.
LEMMA EnqueueCases ==
  ASSUME NEW q, NEW capacity, NEW e, NEW r \in enqueue(q, capacity, e)
  PROVE  \/ Len(q) < capacity /\ r.q = Append(q, e) /\ r.lost = {}
         \/ /\ ~(Len(q) < capacity) /\ overflow \in {"drop_old", "sample"}
            /\ r.q = Append(Tail(q), e) /\ r.lost = {Head(q)}
         \/ /\ ~(Len(q) < capacity) /\ overflow \in {"drop_new", "block", "sample"}
            /\ r.q = q /\ r.lost = {e}
BY DEF enqueue

\* A queue that is not empty keeps its length when it evicts.
LEMMA EvictLength ==
  ASSUME NEW S, NEW q \in Seq(S), NEW e \in S, Len(q) > 0
  PROVE  /\ q # <<>> /\ Head(q) \in S /\ Tail(q) \in Seq(S)
         /\ Append(Tail(q), e) \in Seq(S) /\ Len(Append(Tail(q), e)) = Len(q)
OBVIOUS

\* One event more, in the queue or given up
OneMore(q, r) == Len(r.q) + Cardinality(r.lost) = Len(q) + 1

\* enqueue respects the capacity, and gives up one event exactly when the
\* queue does not grow.
LEMMA EnqueueFacts ==
  ASSUME NEW S, NEW q \in Seq(S), NEW capacity \in Nat \ {0}, NEW e \in S,
         NEW r \in enqueue(q, capacity, e), Len(q) <= capacity
  PROVE  /\ r.q \in Seq(S) /\ Len(r.q) <= capacity /\ r.lost \subseteq S
         /\ Cardinality(r.lost) \in Nat /\ OneMore(q, r)
<1>1. CASE Len(q) < capacity /\ r.q = Append(q, e) /\ r.lost = {}
  <2>1. Append(q, e) \in Seq(S) /\ Len(Append(q, e)) = Len(q) + 1 OBVIOUS
  <2> QED BY <1>1, <2>1, FS_EmptySet DEF OneMore
<1>2. CASE ~(Len(q) < capacity) /\ r.q = Append(Tail(q), e) /\ r.lost = {Head(q)}
  <2>1. Len(q) \in Nat /\ Len(q) > 0 BY <1>2
  <2>2. Cardinality({Head(q)}) = 1 BY ZenonT(60), FS_Singleton
  <2> QED BY <1>2, <2>1, <2>2, EvictLength DEF OneMore
<1>3. CASE ~(Len(q) < capacity) /\ r.q = q /\ r.lost = {e}
  <2>1. Cardinality({e}) = 1 BY ZenonT(60), FS_Singleton
  <2> QED BY <1>3, <2>1 DEF OneMore
<1> QED BY <1>1, <1>2, <1>3, EnqueueCases

-----------------------------------------------------------------------------
(* Type correctness                                                        *)

\* What a thread does to the queue of its event.
LEMMA EnqueueEffect ==
  ASSUME TypeOK, NEW s \in Senders, Enqueue(s)
  PROVE  LET e == sender[s] IN
         /\ e \in 1 .. sent
         /\ \/ /\ is_priority(e) /\ e \in critical /\ PriorityCapacity \in Nat \ {0}
               /\ \E r \in enqueue(pq, PriorityCapacity, e) :
                    /\ pq' = r.q /\ queue' = queue /\ count' = Counted(e, r.lost)
                    /\ gone' = [gone EXCEPT !["pq"] = @ \cup r.lost]
                    /\ worker' = Notified(e, r.lost)
            \/ /\ ~is_priority(e)
               /\ \E r \in enqueue(queue, Capacity, e) :
                    /\ pq' = pq /\ queue' = r.q /\ count' = Counted(e, r.lost)
                    /\ gone' = [gone EXCEPT !["queue"] = @ \cup r.lost]
                    /\ worker' = Notified(e, r.lost)
<1> DEFINE e == sender[s]
<1>1. e \in 1 .. sent BY DEF TypeOK, Enqueue
<1>2. is_priority(e) => e \in critical /\ PriorityCapacity \in Nat \ {0}
  BY CapacityAssumption DEF is_priority
<1>3. ~is_priority(e) => Target(e) = "queue" BY DEF Target
<1>4. is_priority(e) => Target(e) = "pq" BY DEF Target
<1>5. CASE is_priority(e) BY ZenonT(60), <1>1, <1>2, <1>4, <1>5 DEF Enqueue
<1>6. CASE ~is_priority(e) BY ZenonT(60), <1>1, <1>3, <1>6 DEF Enqueue
<1> QED BY <1>5, <1>6

\* The counters stay numbers, and the number of dropped events grows by the
\* events given up.
LEMMA CountedFacts ==
  ASSUME NEW e, NEW lost, Cardinality(lost) \in Nat, count \in [Counters -> Nat],
         count' = Counted(e, lost)
  PROVE  /\ count' \in [Counters -> Nat] /\ count'.written = count.written
         /\ count'.dropped = count.dropped + Cardinality(lost)
<1> DEFINE kept == IF e \in lost THEN 0 ELSE 1
           p == IF is_priority(e) THEN 1 ELSE 0
           n == Cardinality(lost)
           kp == kept * p
           np == n * p
<1>1. kept \in Nat /\ kp \in Nat /\ n \in Nat /\ np \in Nat OBVIOUS
<1>2. count' = [count EXCEPT !.accepted = @ + kept, !.priority_accepted = @ + kp,
                             !.dropped = @ + n, !.priority_dropped = @ + np]
  BY DEF Counted
<1> HIDE DEF kept, p, n, kp, np
<1>3. count' \in [Counters -> Nat]
  <2>1. DOMAIN count = Counters /\ \A c \in Counters : count[c] \in Nat OBVIOUS
  <2>2. /\ count'["accepted"] = count["accepted"] + kept
        /\ count'["priority_accepted"] = count["priority_accepted"] + kp
        /\ count'["dropped"] = count["dropped"] + n
        /\ count'["priority_dropped"] = count["priority_dropped"] + np
        /\ count'["written"] = count["written"]
    BY <1>2, <2>1 DEF Counters
  <2>3. \A c \in Counters : count'[c] \in Nat BY <1>1, <2>1, <2>2 DEF Counters
  <2>4. count' = [c \in Counters |-> count'[c]] BY ZenonT(60), <1>2, <2>1
  <2> QED BY <2>3, <2>4
<1>4. count'.written = count.written /\ count'.dropped = count.dropped + n
  BY <1>2 DEF Counters
<1> QED BY <1>3, <1>4 DEF n

\* The worker holds the same event before and after a notification.
LEMMA NotifiedFacts ==
  ASSUME TypeOK, NEW e, NEW lost, worker' = Notified(e, lost)
  PROVE  /\ worker' \in [pc : {"check", "wait", "file", "index"}, e : 0 .. sent]
         /\ worker'.e = 0 <=> worker'.pc \in {"check", "wait"}
         /\ worker'.e = worker.e
BY ZenonT(60) DEF TypeOK, Notified

\* The queues, counters and histories keep their types while a thread sends.
LEMMA EnqueueType ==
  ASSUME TypeOK, NEW s \in Senders, Enqueue(s)
  PROVE  TypeOK'
<1> DEFINE e == sender[s]
<1>1. /\ UNCHANGED <<overflow, sent, critical, taken, now, sink>>
      /\ sender' = [sender EXCEPT ![s] = 0]
  BY DEF Enqueue
<1>2. CASE /\ is_priority(e) /\ e \in critical /\ PriorityCapacity \in Nat \ {0}
           /\ \E r \in enqueue(pq, PriorityCapacity, e) :
                /\ pq' = r.q /\ queue' = queue /\ count' = Counted(e, r.lost)
                /\ gone' = [gone EXCEPT !["pq"] = @ \cup r.lost]
                /\ worker' = Notified(e, r.lost)
  <2>1. PICK r \in enqueue(pq, PriorityCapacity, e) :
          /\ pq' = r.q /\ queue' = queue /\ count' = Counted(e, r.lost)
          /\ gone' = [gone EXCEPT !["pq"] = @ \cup r.lost] /\ worker' = Notified(e, r.lost)
    BY ZenonT(60), <1>2
  <2>2. pq \in Seq(critical) /\ Len(pq) <= PriorityCapacity /\ critical \subseteq 1 .. sent
    BY DEF TypeOK
  <2>3. /\ r.q \in Seq(critical) /\ Len(r.q) <= PriorityCapacity /\ r.lost \subseteq critical
        /\ Cardinality(r.lost) \in Nat
    BY <1>2, <2>2, EnqueueFacts
  <2>4. count' \in [Counters -> Nat] BY <2>1, <2>3, CountedFacts DEF TypeOK
  <2>5. gone' \in [{"queue", "pq"} -> SUBSET (1 .. sent)] BY ZenonT(60), <2>1, <2>2, <2>3 DEF TypeOK
  <2>6. /\ worker' \in [pc : {"check", "wait", "file", "index"}, e : 0 .. sent]
        /\ worker'.e = 0 <=> worker'.pc \in {"check", "wait"}
    BY <2>1, NotifiedFacts
  <2>7. sender' \in [Senders -> 0 .. sent] BY <1>1 DEF TypeOK
  <2> QED BY <1>1, <2>1, <2>3, <2>4, <2>5, <2>6, <2>7 DEF TypeOK
<1>3. CASE /\ ~is_priority(e)
           /\ \E r \in enqueue(queue, Capacity, e) :
                /\ pq' = pq /\ queue' = r.q /\ count' = Counted(e, r.lost)
                /\ gone' = [gone EXCEPT !["queue"] = @ \cup r.lost]
                /\ worker' = Notified(e, r.lost)
  <2>1. PICK r \in enqueue(queue, Capacity, e) :
          /\ pq' = pq /\ queue' = r.q /\ count' = Counted(e, r.lost)
          /\ gone' = [gone EXCEPT !["queue"] = @ \cup r.lost] /\ worker' = Notified(e, r.lost)
    BY ZenonT(60), <1>3
  <2>2. e \in 1 .. sent /\ queue \in Seq(1 .. sent) /\ Len(queue) <= Capacity
    BY EnqueueEffect DEF TypeOK
  <2>3. /\ r.q \in Seq(1 .. sent) /\ Len(r.q) <= Capacity /\ r.lost \subseteq 1 .. sent
        /\ Cardinality(r.lost) \in Nat
    BY ZenonT(60), <2>2, CapacityAssumption, EnqueueFacts
  <2>4. count' \in [Counters -> Nat] BY <2>1, <2>3, CountedFacts DEF TypeOK
  <2>5. gone' \in [{"queue", "pq"} -> SUBSET (1 .. sent)] BY <2>1, <2>3 DEF TypeOK
  <2>6. /\ worker' \in [pc : {"check", "wait", "file", "index"}, e : 0 .. sent]
        /\ worker'.e = 0 <=> worker'.pc \in {"check", "wait"}
    BY ZenonT(60), <2>1, NotifiedFacts
  <2>7. sender' \in [Senders -> 0 .. sent] BY <1>1 DEF TypeOK
  <2> QED BY ZenonT(60), <1>1, <2>1, <2>3, <2>4, <2>5, <2>6, <2>7 DEF TypeOK
<1> QED BY <1>2, <1>3, EnqueueEffect

\* A larger set of elements has more sequences.
LEMMA SeqMonotone == ASSUME NEW S, NEW T, S \subseteq T PROVE Seq(S) \subseteq Seq(T)
OBVIOUS

\* Every step keeps the types.
LEMMA TypeStep == TypeOK /\ [Next]_vars => TypeOK'
<1> SUFFICES ASSUME TypeOK, [Next]_vars PROVE TypeOK' OBVIOUS
<1>1. ASSUME NEW s \in Senders, Ring(s) PROVE TypeOK'
  <2>1. sent' = sent + 1 /\ sent' \in 1 .. MaxEvents /\ 1 .. sent \subseteq 1 .. sent'
    BY <1>1, BoundsAssumption DEF TypeOK, Ring
  <2>2. critical \subseteq critical' /\ critical' \subseteq 1 .. sent'
    BY <1>1, <2>1 DEF TypeOK, Ring
  <2>3. queue' \in Seq(1 .. sent') /\ pq' \in Seq(critical')
    BY ZenonT(60), <1>1, <2>1, <2>2, SeqMonotone DEF TypeOK, Ring, queueVars
  <2>4. taken' \in [{"queue", "pq"} -> Seq(1 .. sent')]
    BY <1>1, <2>1, SeqMonotone DEF TypeOK, Ring
  <2>5. sender' \in [Senders -> 0 .. sent'] BY <1>1, <2>1 DEF TypeOK, Ring
  <2> QED BY <1>1, <2>1, <2>2, <2>3, <2>4, <2>5 DEF TypeOK, Ring, queueVars
<1>2. ASSUME NEW s \in Senders, Enqueue(s) PROVE TypeOK' BY <1>2, EnqueueType
<1>3. CASE Wait BY <1>3 DEF TypeOK, Wait, sendVars, queueVars
<1>4. CASE Wake BY ZenonT(60), <1>4 DEF TypeOK, Wake, sendVars, queueVars
<1>5. CASE Take
  <2>1. CASE pq # <<>>
    <3>1. Head(pq) \in critical /\ Tail(pq) \in Seq(critical) /\ Len(Tail(pq)) <= PriorityCapacity
      BY <2>1, CapacityAssumption DEF TypeOK
    <3>2. /\ worker' = [pc |-> "file", e |-> Head(pq)]
          /\ taken' = [taken EXCEPT !.pq = Append(@, Head(pq))]
          /\ pq' = Tail(pq) /\ queue' = queue
          /\ UNCHANGED <<overflow, sender, sent, critical, count, gone, now, sink>>
      BY <1>5, <2>1 DEF Take, sendVars
    <3>3. Head(pq) \in 1 .. sent BY ZenonT(60), <3>1 DEF TypeOK
    <3>4. taken' \in [{"queue", "pq"} -> Seq(1 .. sent)]
      <4>1. taken \in [{"queue", "pq"} -> Seq(1 .. sent)] BY DEF TypeOK
      <4>2. Append(taken.pq, Head(pq)) \in Seq(1 .. sent) BY <3>3, <4>1
      <4> QED BY ZenonT(60), <3>2, <4>1, <4>2
    <3>5. /\ worker' \in [pc : {"check", "wait", "file", "index"}, e : 0 .. sent]
          /\ worker'.e = 0 <=> worker'.pc \in {"check", "wait"}
      BY <3>2, <3>3
    <3> QED BY ZenonT(60), <3>1, <3>2, <3>4, <3>5 DEF TypeOK
  <2>2. CASE pq = <<>>
    <3>1. /\ Head(queue) \in 1 .. sent /\ Tail(queue) \in Seq(1 .. sent)
          /\ Len(Tail(queue)) <= Capacity
      BY <1>5, <2>2, CapacityAssumption DEF TypeOK, Take
    <3>2. /\ worker' = [pc |-> "file", e |-> Head(queue)]
          /\ taken' = [taken EXCEPT !.queue = Append(@, Head(queue))]
          /\ queue' = Tail(queue) /\ pq' = pq
          /\ UNCHANGED <<overflow, sender, sent, critical, count, gone, now, sink>>
      BY <1>5, <2>2 DEF Take, sendVars
    <3>3. Head(queue) \in 1 .. sent BY <3>1 DEF TypeOK
    <3>4. taken' \in [{"queue", "pq"} -> Seq(1 .. sent)]
      <4>1. taken \in [{"queue", "pq"} -> Seq(1 .. sent)] BY DEF TypeOK
      <4>2. Append(taken.queue, Head(queue)) \in Seq(1 .. sent) BY <3>3, <4>1
      <4> QED BY ZenonT(60), <3>2, <4>1, <4>2
    <3>5. /\ worker' \in [pc : {"check", "wait", "file", "index"}, e : 0 .. sent]
          /\ worker'.e = 0 <=> worker'.pc \in {"check", "wait"}
      BY <3>2, <3>3
    <3> QED BY ZenonT(60), <3>1, <3>2, <3>4, <3>5 DEF TypeOK
  <2> QED BY <2>1, <2>2
<1>6. CASE DispatchFile BY ZenonT(60), <1>6 DEF TypeOK, DispatchFile, sendVars, queueVars
<1>7. CASE DispatchIndex
  <2>0. count \in [Counters -> Nat] BY DEF TypeOK
  <2>1. count' \in [Counters -> Nat] BY <1>7, <2>0 DEF DispatchIndex, Counters
  <2>2. /\ worker' \in [pc : {"check", "wait", "file", "index"}, e : 0 .. sent]
        /\ worker'.e = 0 <=> worker'.pc \in {"check", "wait"}
    BY <1>7 DEF TypeOK, DispatchIndex
  <2> QED BY ZenonT(60), <1>7, <2>1, <2>2 DEF TypeOK, DispatchIndex, sendVars
<1>8. CASE Reconfigure BY <1>8 DEF TypeOK, Reconfigure, sendVars, queueVars
<1>9. CASE Tick BY <1>9, BoundsAssumption DEF TypeOK, Tick, sendVars, queueVars
<1>10. CASE UNCHANGED vars BY <1>10 DEF TypeOK, vars, sendVars, queueVars
<1> QED BY <1>1, <1>2, <1>3, <1>4, <1>5, <1>6, <1>7, <1>8, <1>9, <1>10 DEF Next, Worker

\* The queues never exceed their capacities and the worker holds an event
\* exactly while it dispatches one.
THEOREM AuditTypeCorrect == Spec => []TypeOK
<1>1. Init => TypeOK
  <2> SUFFICES ASSUME Init PROVE TypeOK OBVIOUS
  <2>1. count \in [Counters -> Nat] BY DEF Init, Counters
  <2>2. /\ sender \in [Senders -> 0 .. sent] /\ critical \subseteq 1 .. sent
        /\ sent \in 0 .. MaxEvents /\ now \in 0 .. MaxNow
    BY BoundsAssumption DEF Init
  <2>3. /\ queue \in Seq(1 .. sent) /\ Len(queue) <= Capacity
        /\ pq \in Seq(critical) /\ Len(pq) <= PriorityCapacity
    BY CapacityAssumption DEF Init
  <2>4. /\ worker \in [pc : {"check", "wait", "file", "index"}, e : 0 .. sent]
        /\ worker.e = 0 <=> worker.pc \in {"check", "wait"}
    BY DEF Init
  <2>5. gone \in [{"queue", "pq"} -> SUBSET (1 .. sent)] BY DEF Init
  <2>6. taken \in [{"queue", "pq"} -> Seq(1 .. sent)]
    <3>1. <<>> \in Seq(1 .. sent) OBVIOUS
    <3>2. taken = [k \in {"queue", "pq"} |-> <<>>] BY DEF Init
    <3> QED BY <3>1, <3>2
  <2> QED BY <2>1, <2>2, <2>3, <2>4, <2>5, <2>6 DEF Init, TypeOK
<1> QED BY <1>1, TypeStep, PTL DEF Spec

-----------------------------------------------------------------------------
(* Accounting                                                              *)

\* The threads between their two locks
Inside == {s \in Senders : sender[s] # 0}

\* There are finitely many of them; one more after Ring, one less after Enqueue.
LEMMA InsideFacts ==
  ASSUME TypeOK
  PROVE  /\ IsFiniteSet(Inside) /\ Cardinality(Inside) \in Nat
         /\ \A s \in Senders : Ring(s) => Cardinality(Inside') = Cardinality(Inside) + 1
         /\ \A s \in Senders : Enqueue(s) => Cardinality(Inside') = Cardinality(Inside) - 1
<1>1. IsFiniteSet(Inside) /\ Cardinality(Inside) \in Nat
  BY BoundsAssumption, FS_Subset, FS_CardinalityType DEF Inside
<1>2. ASSUME NEW s \in Senders, Ring(s) PROVE Cardinality(Inside') = Cardinality(Inside) + 1
  <2>1. s \notin Inside /\ Inside' = Inside \cup {s} BY <1>2 DEF Ring, Inside, TypeOK
  <2> QED BY <1>1, <2>1, FS_AddElement
<1>3. ASSUME NEW s \in Senders, Enqueue(s) PROVE Cardinality(Inside') = Cardinality(Inside) - 1
  <2>1. s \in Inside /\ Inside' = Inside \ {s} BY <1>3 DEF Enqueue, Inside, TypeOK
  <2> QED BY <1>1, <2>1, FS_RemoveElement
<1> QED BY <1>1, <1>2, <1>3

Held == IF worker.e = 0 THEN 0 ELSE 1

\* The equation of Accounted: a events, c threads inside, w written, h in the
\* worker's hands, q and p queued and d dropped ones.
Balance(a, c, w, h, q, p, d) == a - c = w + h + q + p + d

\* An event that goes to a queue of length q, or p, makes it m long at the price
\* of n dropped ones.
LEMMA BalanceEnqueue ==
  ASSUME NEW a \in Nat, NEW c \in Nat, NEW w \in Nat, NEW h \in Nat, NEW q \in Nat,
         NEW p \in Nat, NEW d \in Nat, NEW m \in Nat, NEW n \in Nat,
         Balance(a, c, w, h, q, p, d)
  PROVE  /\ m + n = q + 1 => Balance(a, c - 1, w, h, m, p, d + n)
         /\ m + n = p + 1 => Balance(a, c - 1, w, h, q, m, d + n)
BY DEF Balance

\* Accounted is kept by every step: Ring adds an event that has not returned,
\* Enqueue moves it to a queue or to the dropped ones, and the worker moves it
\* on to the written ones.
LEMMA AccountedStep == TypeOK /\ Accounted /\ [Next]_vars => Accounted'
<1> SUFFICES ASSUME TypeOK, Accounted, [Next]_vars PROVE Accounted' OBVIOUS
<1> DEFINE c == Cardinality(Inside)
<1>0. /\ Balance(sent, c, count.written, Held, Len(queue), Len(pq), count.dropped)
      /\ sent \in Nat /\ c \in Nat /\ count.written \in Nat /\ count.dropped \in Nat
      /\ Len(queue) \in Nat /\ Len(pq) \in Nat /\ Held \in Nat
  <2>1. Balance(sent, c, count.written, Held, Len(queue), Len(pq), count.dropped)
    BY DEF Accounted, Balance, Inside, Held
  <2>2. sent \in Nat /\ count.written \in Nat /\ count.dropped \in Nat
    BY DEF TypeOK, Counters
  <2>3. Len(queue) \in Nat /\ Len(pq) \in Nat /\ Held \in Nat BY DEF TypeOK, Held
  <2> QED BY <2>1, <2>2, <2>3, InsideFacts
<1>a. Balance(sent', c', count'.written, Held', Len(queue'), Len(pq'), count'.dropped)
      => Accounted'
  BY DEF Accounted, Balance, Inside, Held
<1>1. ASSUME NEW s \in Senders, Ring(s) PROVE Accounted'
  <2>1. c' = c + 1 BY <1>1, InsideFacts
  <2>2. sent' = sent + 1 /\ UNCHANGED <<count, queue, pq>> /\ Held' = Held
    BY <1>1 DEF Ring, queueVars, Held
  <2> HIDE DEF c
  <2> QED BY <1>0, <1>a, <2>1, <2>2 DEF Balance
<1>2. ASSUME NEW s \in Senders, Enqueue(s) PROVE Accounted'
  <2> DEFINE e == sender[s]
  <2>1. c' = c - 1 BY <1>2, InsideFacts
  <2>2. sent' = sent BY <1>2 DEF Enqueue
  <2>3. CASE /\ is_priority(e) /\ e \in critical /\ PriorityCapacity \in Nat \ {0}
             /\ \E r \in enqueue(pq, PriorityCapacity, e) :
                  /\ pq' = r.q /\ queue' = queue /\ count' = Counted(e, r.lost)
                  /\ gone' = [gone EXCEPT !["pq"] = @ \cup r.lost]
                  /\ worker' = Notified(e, r.lost)
    <3>1. PICK r \in enqueue(pq, PriorityCapacity, e) :
            /\ pq' = r.q /\ queue' = queue /\ count' = Counted(e, r.lost)
            /\ worker' = Notified(e, r.lost)
      BY <2>3
    <3>2. Cardinality(r.lost) \in Nat /\ OneMore(pq, r)
      BY <2>3, EnqueueFacts DEF TypeOK
    <3>3. count'.written = count.written /\ count'.dropped = count.dropped + Cardinality(r.lost)
      BY <3>1, <3>2, CountedFacts DEF TypeOK
    <3>4. Held' = Held BY <3>1, NotifiedFacts DEF Held
    <3>5. Len(r.q) \in Nat BY <2>3, EnqueueFacts DEF TypeOK
    <3>6. Len(pq') = Len(r.q) /\ Len(queue') = Len(queue) BY <3>1
    <3> HIDE DEF c
    <3>7. Balance(sent, c - 1, count.written, Held, Len(queue), Len(r.q),
                  count.dropped + Cardinality(r.lost))
      BY ZenonT(60), <1>0, <3>2, <3>5, BalanceEnqueue DEF OneMore
    <3> QED BY <1>a, <2>1, <2>2, <3>3, <3>4, <3>6, <3>7
  <2>4. CASE /\ ~is_priority(e)
             /\ \E r \in enqueue(queue, Capacity, e) :
                  /\ pq' = pq /\ queue' = r.q /\ count' = Counted(e, r.lost)
                  /\ gone' = [gone EXCEPT !["queue"] = @ \cup r.lost]
                  /\ worker' = Notified(e, r.lost)
    <3>1. PICK r \in enqueue(queue, Capacity, e) :
            /\ pq' = pq /\ queue' = r.q /\ count' = Counted(e, r.lost)
            /\ worker' = Notified(e, r.lost)
      BY <2>4
    <3>e. e \in 1 .. sent BY <1>2, EnqueueEffect
    <3>2. Cardinality(r.lost) \in Nat /\ OneMore(queue, r) /\ Len(r.q) \in Nat
      <4>1. queue \in Seq(1 .. sent) /\ Len(queue) <= Capacity BY DEF TypeOK
      <4>2. Capacity \in Nat \ {0} BY CapacityAssumption
      <4>3. r.q \in Seq(1 .. sent) /\ Cardinality(r.lost) \in Nat
        BY ZenonT(60), <3>e, <4>1, <4>2, EnqueueFacts
      <4>4. OneMore(queue, r)
        BY ZenonT(60), <3>e, <4>1, <4>2, EnqueueFacts
      <4>5. Len(r.q) \in Nat BY <4>3
      <4> QED BY <4>3, <4>4, <4>5
    <3>3. count'.written = count.written /\ count'.dropped = count.dropped + Cardinality(r.lost)
      BY <3>1, <3>2, CountedFacts DEF TypeOK
    <3>4. Held' = Held BY <3>1, NotifiedFacts DEF Held
    <3>6. Len(pq') = Len(pq) /\ Len(queue') = Len(r.q) BY <3>1
    <3> HIDE DEF c
    <3>7. Balance(sent, c - 1, count.written, Held, Len(r.q), Len(pq),
                  count.dropped + Cardinality(r.lost))
      BY ZenonT(60), <1>0, <3>2, BalanceEnqueue DEF OneMore
    <3> QED BY <1>a, <2>1, <2>2, <3>3, <3>4, <3>6, <3>7
  <2> QED BY <1>2, <2>3, <2>4, EnqueueEffect
<1>3. CASE Wait \/ Wake \/ DispatchFile \/ Reconfigure \/ Tick \/ UNCHANGED vars
  <2>1. UNCHANGED <<sender, sent, count, queue, pq>>
    BY <1>3 DEF Wait, Wake, DispatchFile, Reconfigure, Tick, vars, sendVars, queueVars
  <2>2. worker'.e = worker.e
    BY <1>3 DEF Wait, Wake, DispatchFile, Reconfigure, Tick, vars, TypeOK
  <2> QED BY <2>1, <2>2 DEF Accounted
<1>4. CASE Take
  <2>1. UNCHANGED <<sender, sent, count>> BY <1>4 DEF Take, sendVars
  <2>2. c' = c BY <2>1 DEF Inside
  <2>3. Held = 0 BY <1>4 DEF Take, Held, TypeOK
  <2>4. CASE pq # <<>>
    <3>0. pq \in Seq(critical) /\ critical \subseteq 1 .. sent BY DEF TypeOK
    <3>1. Head(pq) \in 1 .. sent
      <4>1. Head(pq) \in critical BY <2>4, <3>0
      <4> QED BY ZenonT(60), <3>0, <4>1
    <3>2. Held' = 1 BY <1>4, <2>4, <3>1 DEF Take, Held
    <3>3. Len(pq') = Len(pq) - 1 /\ queue' = queue BY <1>4, <2>4 DEF Take, TypeOK
    <3> HIDE DEF c
    <3> QED BY <1>0, <1>a, <2>1, <2>2, <2>3, <3>2, <3>3 DEF Balance
  <2>5. CASE pq = <<>>
    <3>0. queue # <<>> BY <1>4, <2>5 DEF Take
    <3>1. Head(queue) \in 1 .. sent BY <3>0 DEF TypeOK
    <3>2. Held' = 1 BY <1>4, <2>5, <3>1 DEF Take, Held
    <3>3. Len(queue') = Len(queue) - 1 /\ pq' = pq BY <1>4, <2>5, <3>0 DEF Take, TypeOK
    <3> HIDE DEF c
    <3> QED BY <1>0, <1>a, <2>1, <2>2, <2>3, <3>2, <3>3 DEF Balance
  <2> QED BY <2>4, <2>5
<1>5. CASE DispatchIndex
  <2>1. UNCHANGED <<sender, sent, queue, pq>> BY <1>5 DEF DispatchIndex, sendVars
  <2>2. c' = c BY <2>1 DEF Inside
  <2>3. Held = 1 /\ Held' = 0 BY <1>5 DEF DispatchIndex, Held, TypeOK
  <2>4. count'.written = count.written + 1 /\ count'.dropped = count.dropped
    BY <1>5 DEF DispatchIndex, TypeOK, Counters
  <2> HIDE DEF c
  <2> QED BY <1>0, <1>a, <2>1, <2>2, <2>3, <2>4 DEF Balance
<1> QED BY <1>1, <1>2, <1>3, <1>4, <1>5 DEF Next, Worker

\* No event is lost to the statistics, whatever the policy, the capacities and
\* the number of threads.
THEOREM AccountedHolds == Spec => []Accounted
<1>1. Init => Accounted
  <2> SUFFICES ASSUME Init PROVE Accounted OBVIOUS
  <2>1. Cardinality({s \in Senders : sender[s] # 0}) = 0
    <3>1. {s \in Senders : sender[s] # 0} = {} BY DEF Init
    <3> QED BY <3>1, FS_EmptySet
  <2> QED BY <2>1 DEF Init, Accounted
<1> QED BY <1>1, AccountedStep, AuditTypeCorrect, PTL DEF Spec

-----------------------------------------------------------------------------
(* The priority queue is a bounded log                                     *)

\* Seen on the priority queue, every step of the pipeline is a step of the
\* bounded log or leaves it alone.
LEMMA LogStep == TypeOK /\ [Next]_vars => [PriorityLog!LogNext]_(PriorityLog!logVars)
<1> SUFFICES ASSUME TypeOK, [Next]_vars
             PROVE PriorityLog!LogNext \/ UNCHANGED PriorityLog!logVars
  OBVIOUS
<1>1. ASSUME NEW s \in Senders, Enqueue(s)
      PROVE PriorityLog!LogNext \/ UNCHANGED PriorityLog!logVars
  <2> DEFINE e == sender[s]
  <2>0. UNCHANGED <<overflow, taken>> /\ gone \in [{"queue", "pq"} -> SUBSET (1 .. sent)]
    BY <1>1 DEF Enqueue, TypeOK
  <2>1. CASE /\ is_priority(e) /\ e \in critical /\ PriorityCapacity \in Nat \ {0}
             /\ \E r \in enqueue(pq, PriorityCapacity, e) :
                  /\ pq' = r.q /\ queue' = queue /\ count' = Counted(e, r.lost)
                  /\ gone' = [gone EXCEPT !["pq"] = @ \cup r.lost]
                  /\ worker' = Notified(e, r.lost)
    <3>1. PICK r \in enqueue(pq, PriorityCapacity, e) :
            pq' = r.q /\ gone' = [gone EXCEPT !["pq"] = @ \cup r.lost]
      BY ZenonT(60), <2>1
    <3>2. gone.pq' = gone.pq \cup r.lost BY <2>0, <3>1
    <3>3. e \in Event BY <1>1, BoundsAssumption, EnqueueEffect DEF TypeOK, Event
    <3>4. pq \in Seq(critical) /\ Len(pq) <= PriorityCapacity BY DEF TypeOK
    <3>5. PriorityLog!Room(e) \/ PriorityLog!Evict(e) \/ PriorityLog!Refuse(e)
      <4>1. CASE Len(pq) < PriorityCapacity /\ r.q = Append(pq, e) /\ r.lost = {}
        BY <4>1, <3>1, <3>2 DEF PriorityLog!Room
      <4>2. CASE /\ ~(Len(pq) < PriorityCapacity) /\ overflow \in {"drop_old", "sample"}
                 /\ r.q = Append(Tail(pq), e) /\ r.lost = {Head(pq)}
        <5>1. Len(pq) >= PriorityCapacity /\ Len(pq) > 0 /\ pq # <<>> BY <4>2, <3>4, <2>1
        <5> QED BY <4>2, <5>1, <3>1, <3>2 DEF PriorityLog!Evict, PriorityLog!EvictsOld
      <4>3. CASE /\ ~(Len(pq) < PriorityCapacity) /\ overflow \in {"drop_new", "block", "sample"}
                 /\ r.q = pq /\ r.lost = {e}
        <5>1. Len(pq) >= PriorityCapacity BY <4>3, <3>4, <2>1
        <5> QED BY <4>3, <5>1, <3>1, <3>2 DEF PriorityLog!Refuse, PriorityLog!RefusesNew
      <4> QED BY <4>1, <4>2, <4>3, EnqueueCases
    <3>6. PriorityLog!Add(e) BY <2>0, <3>5 DEF PriorityLog!Add
    <3> QED BY <3>3, <3>6 DEF PriorityLog!LogNext
  <2>2. CASE /\ ~is_priority(e)
             /\ \E r \in enqueue(queue, Capacity, e) :
                  /\ pq' = pq /\ queue' = r.q /\ count' = Counted(e, r.lost)
                  /\ gone' = [gone EXCEPT !["queue"] = @ \cup r.lost]
                  /\ worker' = Notified(e, r.lost)
    <3>1. PICK r \in enqueue(queue, Capacity, e) :
            pq' = pq /\ gone' = [gone EXCEPT !["queue"] = @ \cup r.lost]
      BY ZenonT(60), <2>2
    <3>2. gone.pq' = gone.pq BY <2>0, <3>1
    <3> QED BY <2>0, <3>1, <3>2 DEF PriorityLog!logVars
  <2> QED BY <1>1, <2>1, <2>2, EnqueueEffect
<1>2. CASE Take
  <2>1. taken \in [{"queue", "pq"} -> Seq(1 .. sent)] BY DEF TypeOK
  <2>2. UNCHANGED <<overflow, gone>> BY <1>2 DEF Take
  <2>3. CASE pq # <<>>
    <3>1. pq' = Tail(pq) /\ taken.pq' = Append(taken.pq, Head(pq)) BY <1>2, <2>1, <2>3 DEF Take
    <3> QED BY <2>2, <2>3, <3>1 DEF PriorityLog!Take, PriorityLog!LogNext
  <2>4. CASE pq = <<>>
    <3>1. pq' = pq /\ taken.pq' = taken.pq BY <1>2, <2>1, <2>4 DEF Take
    <3> QED BY <2>2, <3>1 DEF PriorityLog!logVars
  <2> QED BY <2>3, <2>4
<1>3. CASE \/ \E s \in Senders : Ring(s)
           \/ Wait \/ Wake \/ DispatchFile \/ DispatchIndex \/ Reconfigure \/ Tick \/ UNCHANGED vars
  BY <1>3 DEF Ring, Wait, Wake, DispatchFile, DispatchIndex, Reconfigure, Tick, vars, sendVars,
              queueVars, PriorityLog!logVars
<1> QED BY <1>1, <1>2, <1>3 DEF Next, Worker

\* B07 for every capacity, policy and traffic: the priority queue behaves as a
\* bounded FIFO log that no other event can disturb.
THEOREM PriorityIndependentHolds == Spec => PriorityIndependent
<1>1. Init => PriorityLog!LogInit
  BY PoliciesAssumption DEF Init, PriorityLog!LogInit, PriorityLog!Policy
<1> QED BY <1>1, LogStep, AuditTypeCorrect, PTL DEF Spec, PriorityIndependent, PriorityLog!LogSpec

=============================================================================
