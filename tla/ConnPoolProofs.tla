--------------------------- MODULE ConnPoolProofs ---------------------------
(***************************************************************************)
(* The pool of connections for any number of sessions, connections and      *)
(* refreshes: a connection has one owner, and a refreshed pool holds no     *)
(* connection from before the refresh.                                      *)
(***************************************************************************)
EXTENDS ConnPool, FiniteSetTheorems, TLAPS

(* The steps at which a session has no connection.                          *)
Empty == {"out", "check", "insert", "gen", "pop", "build", "retry"}

(* The steps after which the generation a session read is its own.          *)
Early == {"out", "check", "insert", "gen"}

(* Connections are owned once, and none that is owned is built again.       *)
Owned ==
  /\ OneOwner
  /\ idle \subseteq used
  /\ \A s \in Sessions : /\ sess[s].conn \subseteq used
                         /\ sess[s].at \in Empty => sess[s].conn = {}

(* The generation counts the refreshes; a session whose generation is the   *)
(* present one holds a connection of the present epoch.                     *)
Drained ==
  ~remade =>
    /\ gen = epoch
    /\ ~made => epoch = 0 /\ idle = {}
    /\ \A c \in idle : born[c] = epoch
    /\ \A s \in Sessions : sess[s].at \notin Early =>
         /\ made
         /\ sess[s].gen <= gen
         /\ sess[s].gen = gen => \A c \in sess[s].conn : born[c] = epoch

(* The queue is finite and within its size, and a session holds at most one *)
(* connection to give back.                                                 *)
Bounded ==
  /\ IsFiniteSet(idle) /\ PoolBounded
  /\ \A s \in Sessions : sess[s].conn = {} \/ \E c \in Conns : sess[s].conn = {c}

PoolInv == PoolTypeOK /\ Owned /\ Drained /\ Bounded

(* Every reachable state of the pool has the types it should.               *)
LEMMA PoolTypeStep == PoolTypeOK /\ [PoolNext]_poolVars => PoolTypeOK'
<1> SUFFICES ASSUME PoolTypeOK, [PoolNext]_poolVars PROVE PoolTypeOK'
  OBVIOUS
<1> USE PoolAssumption DEF PoolTypeOK, Steps, Ready, Goes
<1>1. CASE refresh_endpoint
  BY <1>1 DEF refresh_endpoint, Refreshed
<1>2. ASSUME NEW s \in Sessions, SessionStep(s) PROVE PoolTypeOK'
  <2>1. CASE Ask(s)
    <3>1. PICK fresh \in BOOLEAN : sess' = [sess EXCEPT ![s].at = "check", ![s].fresh = fresh]
      BY <2>1, Zenon DEF Ask
    <3>2. sess[s] \in [at : Steps, fresh : BOOLEAN, gen : Nat, conn : SUBSET Conns, tries : Nat]
      OBVIOUS
    <3>3. [sess[s] EXCEPT !.at = "check", !.fresh = fresh]
            \in [at : Steps, fresh : BOOLEAN, gen : Nat, conn : SUBSET Conns, tries : Nat]
      BY <3>2, Zenon
    <3> QED
      BY <2>1, <3>1, <3>3, Zenon DEF Ask
  <2>2. CASE contains_key(s)
    BY <2>2 DEF contains_key
  <2>3. CASE insert(s)
    BY <2>3 DEF insert
  <2>4. CASE generation(s)
    BY <2>4 DEF generation
  <2>5. CASE get_conn(s)
    <3>1. ASSUME NEW c \in idle, idle' = idle \ {c},
                 sess' = [sess EXCEPT ![s].conn = {c}, ![s].at = "ping"]
          PROVE PoolTypeOK'
      <4>1. sess' \in [Sessions -> [at : Steps, fresh : BOOLEAN, gen : Nat,
                                    conn : SUBSET Conns, tries : Nat]]
        <5>1. {c} \in SUBSET Conns /\ "ping" \in Steps
          BY <3>1
        <5>2. sess[s] \in [at : Steps, fresh : BOOLEAN, gen : Nat, conn : SUBSET Conns, tries : Nat]
          OBVIOUS
        <5>3. [sess[s] EXCEPT !.conn = {c}, !.at = "ping"]
                \in [at : Steps, fresh : BOOLEAN, gen : Nat, conn : SUBSET Conns, tries : Nat]
          BY <5>1, <5>2, Zenon
        <5> QED
          BY <3>1, <5>3
      <4>2. idle' \subseteq Conns
        BY <3>1
      <4>3. UNCHANGED <<made, gen, used, born, epoch, remade>>
        BY <2>5 DEF get_conn
      <4> QED
        BY <4>1, <4>2, <4>3
    <3>2. CASE idle = {} /\ Goes(s, "build") /\ UNCHANGED idle
      BY <2>5, <3>2 DEF get_conn
    <3> QED
      BY <2>5, <3>1, <3>2, Zenon DEF get_conn, Popped
  <2>6. CASE build_conn(s)
    <3>1. PICK c \in Conns \ used :
            /\ used' = used \cup {c} /\ born' = [born EXCEPT ![c] = epoch]
            /\ sess' = [sess EXCEPT ![s].conn = {c}, ![s].at = "init"]
      BY <2>6, Zenon DEF build_conn
    <3> QED
      BY <2>6, <3>1 DEF build_conn
  <2>11. CASE build_fails(s)
    <3>1. CASE Goes(s, "retry")
      BY <2>11, <3>1 DEF build_fails
    <3>2. CASE sess' = [sess EXCEPT ![s] = Ready]
      BY <2>11, <3>2 DEF build_fails
    <3>3. CASE sess' = [sess EXCEPT ![s].tries = sess[s].tries + 1]
      BY <2>11, <3>3 DEF build_fails
    <3> QED
      BY <2>11, <3>1, <3>2, <3>3 DEF build_fails
  <2>7. CASE ping(s)
    BY <2>7 DEF ping
  <2>8. CASE reinit_session(s)
    BY <2>8 DEF reinit_session
  <2>9. CASE Drop(s)
    BY <2>9 DEF Drop, Returned
  <2>10. CASE Close(s)
    BY <2>10 DEF Close
  <2> QED
    BY <1>2, <2>1, <2>2, <2>3, <2>4, <2>5, <2>6, <2>7, <2>8, <2>9, <2>10, <2>11
    DEF SessionStep
<1>3. CASE UNCHANGED poolVars
  BY <1>3 DEF poolVars
<1> QED
  BY <1>1, <1>2, <1>3 DEF PoolNext

(* A step of the pool keeps every connection with one owner (get_conn,      *)
(* build_conn, Drop).                                                       *)
LEMMA OwnedStep == PoolTypeOK /\ Owned /\ [PoolNext]_poolVars => Owned'
<1> SUFFICES ASSUME PoolTypeOK, Owned, [PoolNext]_poolVars PROVE Owned'
  OBVIOUS
<1> USE DEF PoolTypeOK, Owned, OneOwner, Empty, Steps, Ready, Goes
<1>1. CASE refresh_endpoint
  BY <1>1 DEF refresh_endpoint
<1>2. ASSUME NEW s \in Sessions, SessionStep(s) PROVE Owned'
  <2>1. CASE Ask(s)
    BY <2>1 DEF Ask
  <2>2. CASE contains_key(s)
    BY <2>2 DEF contains_key
  <2>3. CASE insert(s)
    BY <2>3 DEF insert
  <2>4. CASE generation(s)
    BY <2>4 DEF generation
  <2>5. CASE get_conn(s)
    <3>1. ASSUME NEW c \in idle, idle' = idle \ {c},
                 sess' = [sess EXCEPT ![s].conn = {c}, ![s].at = "ping"]
          PROVE Owned'
      <4>1. sess[s].conn = {}
        BY <2>5 DEF get_conn
      <4>2. \A t \in Sessions : t # s => sess'[t] = sess[t]
        BY <3>1
      <4>3. sess'[s].conn = {c} /\ sess'[s].at = "ping"
        BY <3>1
      <4>4. OneOwner'
        BY <3>1, <4>2, <4>3
      <4>5. idle' \subseteq used' /\ used' = used
        BY <2>5, <3>1, Zenon DEF get_conn
      <4>6. ASSUME NEW t \in Sessions
            PROVE sess'[t].conn \subseteq used' /\ (sess'[t].at \in Empty => sess'[t].conn = {})
        BY <3>1, <4>2, <4>3, <4>5
      <4> QED
        BY <4>4, <4>5, <4>6
    <3>2. CASE idle = {} /\ Goes(s, "build") /\ UNCHANGED idle
      BY <2>5, <3>2 DEF get_conn
    <3> QED
      BY <2>5, <3>1, <3>2, Zenon DEF get_conn, Popped
  <2>6. CASE build_conn(s)
    <3>1. PICK c \in Conns \ used :
            /\ used' = used \cup {c} /\ born' = [born EXCEPT ![c] = epoch]
            /\ sess' = [sess EXCEPT ![s].conn = {c}, ![s].at = "init"]
      BY <2>6, Zenon DEF build_conn
    <3>2. idle' = idle /\ c \notin idle /\ \A t \in Sessions : c \notin sess[t].conn
      BY <2>6, <3>1 DEF build_conn
    <3>3. \A t \in Sessions : t # s => sess'[t] = sess[t]
      BY <3>1
    <3>4. sess'[s].conn = {c} /\ sess'[s].at = "init"
      BY <3>1
    <3>5. OneOwner'
      BY <3>2, <3>3, <3>4
    <3>6. ASSUME NEW t \in Sessions
          PROVE sess'[t].conn \subseteq used' /\ (sess'[t].at \in Empty => sess'[t].conn = {})
      BY <3>1, <3>3, <3>4
    <3> QED
      BY Zenon, <3>1, <3>2, <3>5, <3>6
  <2>11. CASE build_fails(s)
    BY <2>11 DEF build_fails
  <2>7. CASE ping(s)
    BY <2>7 DEF ping
  <2>8. CASE reinit_session(s)
    BY <2>8 DEF reinit_session
  <2>9. CASE Drop(s)
    BY <2>9 DEF Drop, Returned
  <2>10. CASE Close(s)
    BY <2>10 DEF Close
  <2> QED
    BY <1>2, <2>1, <2>2, <2>3, <2>4, <2>5, <2>6, <2>7, <2>8, <2>9, <2>10, <2>11
    DEF SessionStep
<1>3. CASE UNCHANGED poolVars
  BY <1>3 DEF poolVars
<1> QED
  BY <1>1, <1>2, <1>3 DEF PoolNext

(* A step of the pool keeps old connections out of it (refresh_endpoint,    *)
(* ensure_pool_inner, Drop for PoolConn).                                   *)
LEMMA DrainedStep == PoolInv /\ [PoolNext]_poolVars => Drained'
<1> SUFFICES ASSUME PoolTypeOK, Owned, Drained, [PoolNext]_poolVars, ~remade' PROVE Drained'
  BY DEF PoolInv, Drained
<1> USE DEF PoolTypeOK, Drained, Early, Steps, Ready, Goes
<1>1. CASE refresh_endpoint
  BY <1>1 DEF refresh_endpoint, Refreshed
<1>2. ASSUME NEW s \in Sessions, SessionStep(s) PROVE Drained'
  <2>1. CASE Ask(s)
    BY <2>1 DEF Ask
  <2>2. CASE contains_key(s)
    BY <2>2 DEF contains_key
  <2>3. CASE insert(s)
    BY <2>3 DEF insert
  <2>4. CASE generation(s)
    BY <2>4 DEF generation, Owned, Empty
  <2>5. CASE get_conn(s)
    <3>1. ASSUME NEW c \in idle, idle' = idle \ {c},
                 sess' = [sess EXCEPT ![s].conn = {c}, ![s].at = "ping"]
          PROVE Drained'
      <4>1. UNCHANGED <<made, gen, born, epoch, remade>> /\ sess[s].at = "pop"
        BY <2>5 DEF get_conn
      <4>2. sess'[s].gen = sess[s].gen /\ sess'[s].conn = {c} /\ \A t \in Sessions \ {s} : sess'[t] = sess[t]
        BY <3>1
      <4>3. \A d \in idle' : d \in idle
        BY <3>1
      <4> QED
        BY <3>1, <4>1, <4>2, <4>3
    <3>2. CASE idle = {} /\ Goes(s, "build") /\ UNCHANGED idle
      BY <2>5, <3>2 DEF get_conn
    <3> QED
      BY <2>5, <3>1, <3>2, Zenon DEF get_conn, Popped
  <2>6. CASE build_conn(s)
    <3>1. PICK c \in Conns \ used :
            /\ used' = used \cup {c} /\ born' = [born EXCEPT ![c] = epoch]
            /\ sess' = [sess EXCEPT ![s].conn = {c}, ![s].at = "init"]
      BY <2>6, Zenon DEF build_conn
    <3> QED
      BY <2>6, <3>1 DEF build_conn, Owned
  <2>11. CASE build_fails(s)
    BY <2>11 DEF build_fails
  <2>7. CASE ping(s)
    BY <2>7 DEF ping
  <2>8. CASE reinit_session(s)
    BY <2>8 DEF reinit_session
  <2>9. CASE Drop(s)
    BY <2>9 DEF Drop, Returned
  <2>10. CASE Close(s)
    BY <2>10 DEF Close
  <2> QED
    BY <1>2, <2>1, <2>2, <2>3, <2>4, <2>5, <2>6, <2>7, <2>8, <2>9, <2>10, <2>11
    DEF SessionStep
<1>3. CASE UNCHANGED poolVars
  BY <1>3 DEF poolVars
<1> QED
  BY <1>1, <1>2, <1>3 DEF PoolNext

(* No step makes the queue longer than its size.                            *)
LEMMA BoundedStep == PoolTypeOK /\ Bounded /\ [PoolNext]_poolVars => Bounded'
<1> SUFFICES ASSUME PoolTypeOK, Bounded, [PoolNext]_poolVars PROVE Bounded'
  OBVIOUS
<1> DEFINE Short(q) == IsFiniteSet(q) /\ Cardinality(q) <= Size
           Single(h) == h = {} \/ \E c \in Conns : h = {c}
<1>0. Short(idle) /\ \A t \in Sessions : Single(sess[t].conn)
  BY DEF Bounded, PoolBounded
<1>1. Short({}) /\ \A c \in idle : Short(idle \ {c})
  <2>1. Cardinality({}) = 0 /\ IsFiniteSet({})
    BY FS_EmptySet
  <2>2. ASSUME NEW c \in idle PROVE Short(idle \ {c})
    <3>1. IsFiniteSet(idle) /\ Cardinality(idle) \in Nat /\ Cardinality(idle) <= Size
      BY <1>0, FS_CardinalityType
    <3>2. IsFiniteSet(idle \ {c}) /\ Cardinality(idle \ {c}) = Cardinality(idle) - 1
      BY <2>2, <3>1, FS_RemoveElement
    <3> QED
      BY <3>1, <3>2, PoolAssumption
  <2> QED
    BY <2>1, <2>2, PoolAssumption
<1>2. ASSUME NEW h, Single(h), Cardinality(idle) < Size PROVE Short(idle \cup h)
  <2>1. CASE h = {}
    <3>1. idle \cup h = idle
      BY <2>1
    <3> QED
      BY <1>0, <3>1
  <2>2. ASSUME NEW c \in Conns, h = {c} PROVE Short(idle \cup h)
    <3>1. IsFiniteSet(idle) /\ Cardinality(idle) \in Nat
      BY <1>0, FS_CardinalityType
    <3>2. IsFiniteSet(idle \cup {c}) /\ Cardinality(idle \cup {c}) \in {Cardinality(idle), Cardinality(idle) + 1}
      BY <3>1, FS_AddElement
    <3> QED
      BY <1>2, <2>2, <3>1, <3>2, PoolAssumption
  <2> QED
    BY <1>2, <2>1, <2>2
<1> HIDE DEF Short
<1>3. CASE refresh_endpoint
  BY <1>0, <1>1, <1>3 DEF refresh_endpoint, Bounded, PoolBounded, Short
<1>4. ASSUME NEW s \in Sessions, SessionStep(s) PROVE Bounded'
  <2>1. ASSUME Short(idle'), sess' \in [Sessions -> [at : Steps, fresh : BOOLEAN, gen : Nat, conn : SUBSET Conns, tries : Nat]],
               Single(sess'[s].conn), \A t \in Sessions \ {s} : sess'[t].conn = sess[t].conn
        PROVE  Bounded'
    BY <1>0, <2>1 DEF Bounded, PoolBounded, Short
  <2>2. sess' \in [Sessions -> [at : Steps, fresh : BOOLEAN, gen : Nat, conn : SUBSET Conns, tries : Nat]]
    BY PoolTypeStep DEF PoolTypeOK
  <2>3. \A t \in Sessions \ {s} : sess'[t] = sess[t]
    BY <1>4, Zenon DEF SessionStep, Ask, contains_key, insert, generation, get_conn, build_conn, build_fails,
                ping, reinit_session, Drop, Close, Goes, PoolTypeOK
  <2>4. Single(sess'[s].conn)
    <3>1. \/ sess'[s].conn \in {sess[s].conn, {}}
          \/ \E c \in Conns : sess'[s].conn = {c}
      <4> USE DEF PoolTypeOK, Goes, Ready
      <4>1. CASE Ask(s) \/ contains_key(s) \/ insert(s) \/ generation(s) \/ reinit_session(s)
        BY <4>1 DEF Ask, contains_key, insert, generation, reinit_session
      <4>2. CASE get_conn(s)
        <5>1. ASSUME NEW c \in idle, sess' = [sess EXCEPT ![s].conn = {c}, ![s].at = "ping"]
              PROVE  c \in Conns /\ sess'[s].conn = {c}
          BY <5>1
        <5>2. CASE Goes(s, "build")
          BY <5>2
        <5> QED
          BY <4>2, <5>1, <5>2, Zenon DEF get_conn
      <4>3. CASE build_conn(s)
        BY <4>3 DEF build_conn
      <4>4. CASE build_fails(s)
        BY <4>4 DEF build_fails
      <4>5. CASE ping(s) \/ Drop(s) \/ Close(s)
        BY <4>5 DEF ping, Drop, Close
      <4> QED
        BY <1>4, <4>1, <4>2, <4>3, <4>4, <4>5 DEF SessionStep
    <3> QED
      BY <1>0, <3>1
  <2>5. Short(idle')
    <3>1. CASE insert(s)
      BY <1>1, <3>1 DEF insert
    <3>2. CASE get_conn(s)
      BY <1>0, <1>1, <3>2, Zenon DEF get_conn, Popped
    <3>3. CASE Drop(s)
      BY <1>0, <1>2, <3>3, Zenon DEF Drop, Returned
    <3>4. CASE idle' = idle
      BY <1>0, <3>4
    <3> QED
      BY <1>4, <3>1, <3>2, <3>3, <3>4 DEF SessionStep, Ask, contains_key, generation, build_conn, build_fails,
                                          ping, reinit_session, Close
  <2> QED
    BY <2>1, <2>2, <2>3, <2>4, <2>5
<1>5. CASE UNCHANGED poolVars
  BY <1>5 DEF poolVars, Bounded, PoolBounded
<1> QED
  BY <1>3, <1>4, <1>5 DEF PoolNext

(* The inductive invariant of the pool holds in every reachable state.      *)
THEOREM PoolInvariant == PoolSpec => []PoolInv
<1>1. PoolInit => PoolInv
  <2> SUFFICES ASSUME PoolInit PROVE PoolInv
    OBVIOUS
  <2>1. PoolTypeOK
    BY Zenon DEF PoolInit, PoolTypeOK, Steps, Ready
  <2>2. Owned
    BY DEF PoolInit, Owned, OneOwner, Ready
  <2>3. Drained
    BY DEF PoolInit, Drained, Early, Ready
  <2>4. Bounded
    BY FS_EmptySet, PoolAssumption DEF PoolInit, Bounded, PoolBounded, Ready
  <2> QED
    BY <2>1, <2>2, <2>3, <2>4 DEF PoolInv
<1>2. PoolInv /\ [PoolNext]_poolVars => PoolInv'
  BY PoolTypeStep, OwnedStep, DrainedStep, BoundedStep DEF PoolInv
<1> QED
  BY <1>1, <1>2, PTL DEF PoolSpec

(* For any sessions, connections and refreshes: a refreshed pool never again*)
(* holds a connection built before the refresh, unless two sessions made the*)
(* pool at once; no connection is in the pool and in use, or in use by two  *)
(* sessions; and the queue keeps to its size (refresh_endpoint, get_conn,   *)
(* Drop for PoolConn, put_conn).                                            *)
THEOREM PoolAlwaysKept == PoolSpec => []PoolKept
<1>1. PoolInv => PoolKept
  BY DEF PoolInv, Owned, Drained, Bounded, RefreshDrains, PoolKept
<1> QED
  BY <1>1, PoolInvariant, PTL

=============================================================================
