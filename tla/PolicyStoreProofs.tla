-------------------------- MODULE PolicyStoreProofs --------------------------
(* Proofs about PolicyStore, for every set of processes and threads, every    *)
(* set of policies, Cedar directories and statements.                         *)
EXTENDS PolicyStore, TLAPS

-----------------------------------------------------------------------------
(* The policy file and the snapshots of the processes                       *)

Backends == {"local", "cedar", "remote", "remote_open"}
Dirs == {<<d>> : d \in Permits} \cup {<<>>}
Cedars == {Unloaded} \cup {[loaded |-> TRUE, permits |-> d] : d \in Permits}
FileRec == [policy : Policies \cup {None}, mtime : Nat, again : BOOLEAN]
StoreRec == [policy : Policies, engine : BOOLEAN, mtime : Nat]
ThreadRec ==
  [job : {None, "reload", "refresh", "boot", "install"},
   pc : {"idle", "load", "seed", "swap", "persist", "stat", "record"},
   policy : Policies \cup {<<>>}, engine : BOOLEAN, mtime : Nat]

(* A thread has a job exactly while it is busy, and a job goes through its    *)
(* own steps; from the load on it has a policy in hand.                       *)
JobOK(r) ==
  /\ r.pc = "idle" <=> r.job = None
  /\ r.job = "reload" => r.pc \in {"swap", "persist", "stat", "record"}
  /\ r.job = "refresh" => r.pc \in {"load", "swap", "record"}
  /\ r.job \in {"boot", "install"} => r.pc \in {"load", "seed", "swap", "stat", "record"}
  /\ r.pc \in {"seed", "swap", "persist"} => r.policy \in Policies

Shape ==
  /\ backend \in Backends /\ file \in FileRec /\ dir \in Dirs /\ cedar \in Cedars
  /\ store \in [Procs -> StoreRec] /\ thread \in [Threads -> ThreadRec]
  /\ apart \subseteq Procs /\ spoiled \subseteq Threads
  /\ \A t \in Threads : JobOK(thread[t])

\* A thread belongs to a process.
LEMMA ThreadProc == \A t \in Threads : t[1] \in Procs
BY DEF Procs

\* CedarReload keeps what the store holds or loads the directory.
LEMMA CedarReloadType ==
  ASSUME Shape
  PROVE  CedarReload(dir) \in Cedars /\ (cedar.loaded => CedarReload(dir).loaded)
<1>1. CASE dir = <<>> BY <1>1 DEF CedarReload, Shape
<1>2. CASE dir # <<>>
  <2>1. PICK d \in Permits : dir = <<d>> BY <1>2 DEF Shape, Dirs
  <2>2. dir[1] = d BY <2>1
  <2>3. CedarReload(dir) = [loaded |-> TRUE, permits |-> d] BY <1>2, <2>2 DEF CedarReload
  <2>4. CedarReload(dir).loaded = TRUE BY <2>3
  <2> QED BY <2>3, <2>4, Zenon DEF Cedars
<1> QED BY <1>1, <1>2

\* A loaded store stays one that says it is loaded, and an unloaded one is empty.
LEMMA CedarFields == \A c \in Cedars : c.loaded \in BOOLEAN /\ (c.loaded \/ c.permits = {})
<1> SUFFICES ASSUME NEW c \in Cedars PROVE c.loaded \in BOOLEAN /\ (c.loaded \/ c.permits = {})
  OBVIOUS
<1>1. CASE c = Unloaded BY <1>1, Zenon DEF Unloaded
<1>2. CASE c # Unloaded
  <2>1. PICK d \in Permits : c = [loaded |-> TRUE, permits |-> d] BY <1>2 DEF Cedars
  <2> QED BY <2>1, Zenon
<1> QED BY <1>1, <1>2

\* Every process starts with the policy it installed.
LEMMA InitShape == Init => Shape
<1> SUFFICES ASSUME Init PROVE Shape OBVIOUS
<1>1. backend \in Backends /\ dir \in Dirs BY DEF Init, Backends, Dirs
<1>2. Idle \in ThreadRec /\ JobOK(Idle) BY DEF Idle, ThreadRec, JobOK, None
<1>3. spoiled \subseteq Threads BY DEF Init
<1>4. PICK scene \in Scenes[backend] : TRUE BY Zenon DEF Init
<1>5. CASE /\ \E p \in Policies : file = [policy |-> p, mtime |-> 1, again |-> FALSE]
           /\ cedar = IF dir = <<>> THEN Unloaded ELSE [loaded |-> TRUE, permits |-> dir[1]]
           /\ store = [q \in Procs |-> [policy |-> file.policy, engine |-> dir # <<>>, mtime |-> 1]]
           /\ thread = [t \in Threads |-> Idle]
           /\ apart = {}
  <2>1. file \in FileRec /\ file.policy \in Policies BY <1>5 DEF FileRec
  <2>2. cedar \in Cedars
    <3>1. CASE dir = <<>> BY <1>5, <3>1 DEF Cedars
    <3>2. CASE dir # <<>>
      <4>1. PICK d \in Permits : dir = <<d>> BY <1>1, <3>2 DEF Dirs
      <4>2. cedar = [loaded |-> TRUE, permits |-> dir[1]] BY <1>5, <3>2
      <4>3. dir[1] = d BY <4>1
      <4> QED BY <4>2, <4>3, Zenon DEF Cedars
    <3> QED BY <3>1, <3>2
  <2>3. store \in [Procs -> StoreRec]
    <3>1. \A q \in Procs : [policy |-> file.policy, engine |-> dir # <<>>, mtime |-> 1] \in StoreRec
      BY <2>1 DEF StoreRec
    <3> QED BY <1>5, <3>1
  <2>4. thread \in [Threads -> ThreadRec] /\ \A t \in Threads : JobOK(thread[t]) BY <1>2, <1>5
  <2> QED BY <1>1, <1>3, <1>5, <2>1, <2>2, <2>3, <2>4 DEF Shape
<1>6. CASE /\ file = [policy |-> None, mtime |-> 0, again |-> FALSE]
           /\ cedar = Unloaded
           /\ \E p \in Policies : store = [q \in Procs |-> [policy |-> p, engine |-> FALSE, mtime |-> 0]]
           /\ \E first \in [Procs -> Threads] :
                 thread = [t \in Threads |-> IF first[t[1]] = t THEN ToLoad("boot", 0) ELSE Idle]
           /\ apart = Procs
  <2> DEFINE r == ToLoad("boot", 0)
  <2>1. file \in FileRec /\ cedar \in Cedars BY <1>6 DEF FileRec, Cedars
  <2>2. store \in [Procs -> StoreRec] BY <1>6 DEF StoreRec
  <2>3. r \in ThreadRec /\ JobOK(r) BY DEF ThreadRec, JobOK, None, ToLoad
  <2> HIDE DEF r
  <2>4. thread \in [Threads -> ThreadRec] /\ \A t \in Threads : thread[t] \in {r, Idle}
    BY <1>2, <1>6, <2>3 DEF r
  <2>5. \A t \in Threads : JobOK(thread[t]) BY <1>2, <2>3, <2>4
  <2> QED BY <1>1, <1>3, <1>6, <2>1, <2>2, <2>4, <2>5 DEF Shape
<1> QED BY <1>5, <1>6, Zenon DEF Init

-----------------------------------------------------------------------------
(* What a step does to the threads, the file and the snapshots             *)

\* The step of a job that only moves its thread on.
Moves(t, r) == thread' = [thread EXCEPT ![t] = r] /\ r \in ThreadRec

\* It leaves every other thread alone.
LEMMA MovesEffect ==
  ASSUME Shape, NEW t \in Threads, NEW r, Moves(t, r)
  PROVE  /\ thread' \in [Threads -> ThreadRec] /\ thread'[t] = r
         /\ \A u \in Threads \ {t} : thread'[u] = thread[u]
BY DEF Shape, Moves

\* reload_global_local_pdp has the new policy in hand.
LEMMA ReloadEffect ==
  ASSUME Shape, NEW t \in Threads, NEW p \in Policies, Reload(t, p)
  PROVE  /\ \E r : Moves(t, r) /\ r.job = "reload" /\ r.pc = "swap" /\ r.policy = p /\ r.mtime = 0
         /\ cedar' \in {cedar, CedarReload(dir)}
         /\ UNCHANGED <<backend, file, store, dir, spoiled, apart>> /\ MayStart(t)
<1> DEFINE e == backend = "cedar" /\ (store[t[1]].engine \/ dir # <<>>)
           r == [job |-> "reload", pc |-> "swap", policy |-> p, engine |-> e, mtime |-> 0]
<1>1. thread' = [thread EXCEPT ![t] = r] BY DEF Reload
<1>2. r \in ThreadRec
  <2>1. e \in BOOLEAN OBVIOUS
  <2> HIDE DEF e
  <2> QED BY <2>1 DEF ThreadRec
<1>3. r.job = "reload" /\ r.pc = "swap" /\ r.policy = p /\ r.mtime = 0 OBVIOUS
<1> HIDE DEF r
<1>4. UNCHANGED <<backend, file, store, dir, spoiled, apart>> /\ MayStart(t) BY DEF Reload
<1>5. cedar' \in {cedar, CedarReload(dir)} BY DEF Reload
<1> QED BY <1>1, <1>2, <1>3, <1>4, <1>5, Zenon DEF Moves

\* The poll has seen an mtime that is not the one last applied.
LEMMA RefreshEffect ==
  ASSUME Shape, NEW t \in Threads, Refresh(t)
  PROVE  /\ \E r : Moves(t, r) /\ r.job = "refresh" /\ r.pc = "load" /\ r.mtime = file.mtime
         /\ file.mtime # store[t[1]].mtime
         /\ UNCHANGED <<backend, file, store, dir, cedar, req, spoiled, apart>> /\ MayStart(t)
<1> DEFINE r == [job |-> "refresh", pc |-> "load", policy |-> <<>>, engine |-> FALSE, mtime |-> file.mtime]
<1>1. thread' = [thread EXCEPT ![t] = r] BY Zenon DEF Refresh, ToLoad
<1>2. r \in ThreadRec BY DEF ThreadRec, Shape, FileRec
<1>3. r.job = "refresh" /\ r.pc = "load" /\ r.mtime = file.mtime OBVIOUS
<1> HIDE DEF r
<1>4. UNCHANGED <<backend, file, store, dir, cedar, req, spoiled, apart>> /\ MayStart(t)
      /\ file.mtime # store[t[1]].mtime
  BY DEF Refresh, Changed
<1> QED BY <1>1, <1>2, <1>3, <1>4, Zenon DEF Moves

\* An install of a running process is about to read the file.
LEMMA InstallEffect ==
  ASSUME Shape, NEW t \in Threads, Install(t)
  PROVE  /\ \E r : Moves(t, r) /\ r.job = "install" /\ r.pc = "load" /\ r.mtime = 0
         /\ UNCHANGED <<backend, file, store, dir, cedar, req, spoiled, apart>> /\ MayStart(t)
<1> DEFINE r == [job |-> "install", pc |-> "load", policy |-> <<>>, engine |-> FALSE, mtime |-> 0]
<1>1. thread' = [thread EXCEPT ![t] = r] BY Zenon DEF Install, ToLoad
<1>2. r \in ThreadRec BY DEF ThreadRec
<1>3. r.job = "install" /\ r.pc = "load" /\ r.mtime = 0 OBVIOUS
<1> HIDE DEF r
<1>4. UNCHANGED <<backend, file, store, dir, cedar, req, spoiled, apart>> /\ MayStart(t)
  BY DEF Install
<1> QED BY <1>1, <1>2, <1>3, <1>4, Zenon DEF Moves

\* The process of t starts anew; its other threads are gone.
LEMMA RestartEffect ==
  ASSUME Shape, NEW t \in Threads, Restart(t)
  PROVE  /\ thread'[t] \in ThreadRec /\ thread'[t].job = "boot" /\ thread'[t].pc = "load"
         /\ thread'[t].mtime = 0
         /\ \A u \in Threads \ {t} : thread'[u] = IF u[1] = t[1] THEN Idle ELSE thread[u]
         /\ \A q \in Procs \ {t[1]} : store'[q] = store[q]
         /\ store' \in [Procs -> StoreRec] /\ apart' = apart \cup {t[1]}
         /\ spoiled' = {u \in spoiled : u[1] # t[1]}
         /\ store'[t[1]].mtime = store[t[1]].mtime /\ store'[t[1]].policy = store[t[1]].policy
         /\ UNCHANGED <<backend, file, dir>>
<1> DEFINE r == [job |-> "boot", pc |-> "load", policy |-> <<>>, engine |-> FALSE, mtime |-> 0]
<1>1. \A u \in Threads : thread'[u] = IF u = t THEN r ELSE IF u[1] = t[1] THEN Idle ELSE thread[u]
  BY Zenon DEF Restart, ToLoad
<1>2. r \in ThreadRec BY DEF ThreadRec
<1>3. r.job = "boot" /\ r.pc = "load" /\ r.mtime = 0 OBVIOUS
<1> HIDE DEF r
<1>4. store' = [store EXCEPT ![t[1]].engine = FALSE] /\ apart' = apart \cup {t[1]}
      /\ spoiled' = {u \in spoiled : u[1] # t[1]} /\ UNCHANGED <<backend, file, dir>>
  BY DEF Restart
<1>5. store' \in [Procs -> StoreRec]
  <2>1. store[t[1]] \in StoreRec BY ThreadProc DEF Shape
  <2>2. [store[t[1]] EXCEPT !.engine = FALSE] \in StoreRec BY <2>1, Zenon DEF StoreRec
  <2> QED BY <1>4, <2>2, Zenon DEF Shape
<1>6. store'[t[1]].mtime = store[t[1]].mtime /\ store'[t[1]].policy = store[t[1]].policy
      /\ \A q \in Procs \ {t[1]} : store'[q] = store[q]
  BY <1>4, ThreadProc DEF Shape, StoreRec
<1> QED BY <1>1, <1>2, <1>3, <1>4, <1>5, <1>6 DEF Shape

(* Where a thread goes from the load: it has read the file, will seed a missing *)
(* one, gives up its refresh, or goes on with the configuration.               *)
Loads(t, r) ==
  /\ Moves(t, r)
  /\ \/ /\ r.job = thread[t].job /\ r.pc = "swap" /\ r.mtime = thread[t].mtime
        /\ r.policy = file.policy /\ file.policy \in Policies /\ spoiled' = spoiled
     \/ /\ r.job = thread[t].job /\ r.pc = "seed" /\ r.mtime = thread[t].mtime
        /\ r.policy \in Policies /\ Installs(t) /\ spoiled' = spoiled
     \/ thread[t].job = "refresh" /\ r = Idle /\ spoiled' = spoiled
     \/ /\ r.job = thread[t].job /\ r.pc = "swap" /\ r.mtime = thread[t].mtime
        /\ r.policy \in Policies /\ Installs(t) /\ spoiled' = spoiled \cup {t}

\* The load of a file that could be read, of a missing one, of one that could
\* not be read.
LEMMA LoadFileEffect ==
  ASSUME Shape, NEW t \in Threads, LoadFile(t)
  PROVE  /\ \E r : Loads(t, r)
         /\ thread[t].pc = "load" /\ thread[t].job \in {"refresh", "boot", "install"}
         /\ UNCHANGED <<backend, file, store, dir, cedar, req, apart>>
<1>1. thread[t] \in ThreadRec /\ JobOK(thread[t]) /\ store[t[1]] \in StoreRec
  BY ThreadProc DEF Shape
<1>2. thread[t].pc = "load" /\ UNCHANGED <<backend, file, store, dir, cedar, req, apart>> BY DEF LoadFile
<1>3. thread[t].job \in {"refresh", "boot", "install"} BY <1>1, <1>2 DEF JobOK, ThreadRec, None
<1>4. CASE /\ thread' = [thread EXCEPT ![t].policy = file.policy, ![t].pc = "swap",
                          ![t].engine = store[t[1]].engine]
           /\ file.policy # None /\ spoiled' = spoiled
  <2> DEFINE r == [thread[t] EXCEPT !.policy = file.policy, !.pc = "swap", !.engine = store[t[1]].engine]
  <2>0. file.policy \in Policies BY <1>4 DEF Shape, FileRec
  <2>1. r \in ThreadRec BY <1>1, <2>0, Zenon DEF ThreadRec, StoreRec
  <2>2. r.job = thread[t].job /\ r.pc = "swap" /\ r.mtime = thread[t].mtime /\ r.policy = file.policy
    BY <1>1 DEF ThreadRec
  <2>3. thread' = [thread EXCEPT ![t] = r] BY <1>4, Zenon DEF Shape
  <2> HIDE DEF r
  <2>4. Loads(t, r) BY <1>4, <2>0, <2>1, <2>2, <2>3, Zenon DEF Moves, Loads
  <2> QED BY <1>2, <1>3, <2>4, Zenon
<1>5. CASE thread[t].job = "refresh" /\ thread' = [thread EXCEPT ![t] = Idle] /\ spoiled' = spoiled
  <2>1. Idle \in ThreadRec BY DEF Idle, ThreadRec, None
  <2>2. Loads(t, Idle) BY <1>5, <2>1, Zenon DEF Moves, Loads
  <2> QED BY <1>2, <1>3, <2>2, Zenon
<1>6. ASSUME NEW p \in Policies, NEW pc \in {"seed", "swap"}, Installs(t),
             thread' = [thread EXCEPT ![t].policy = p, ![t].pc = pc],
             IF pc = "seed" THEN spoiled' = spoiled ELSE spoiled' = spoiled \cup {t}
      PROVE  \E r : Loads(t, r)
  <2> DEFINE r == [thread[t] EXCEPT !.policy = p, !.pc = pc]
  <2>1. r \in ThreadRec BY <1>1, <1>6 DEF ThreadRec
  <2>2. r.job = thread[t].job /\ r.pc = pc /\ r.mtime = thread[t].mtime /\ r.policy = p
    BY <1>1 DEF ThreadRec
  <2>3. thread' = [thread EXCEPT ![t] = r] BY <1>6, Zenon DEF Shape
  <2> HIDE DEF r
  <2>4. Moves(t, r) BY <2>1, <2>3 DEF Moves
  <2>5. Loads(t, r) BY <1>6, <2>2, <2>4 DEF Loads
  <2> QED BY <2>5, Zenon
<1>7. \/ /\ thread' = [thread EXCEPT ![t].policy = file.policy, ![t].pc = "swap",
                          ![t].engine = store[t[1]].engine]
         /\ file.policy # None /\ spoiled' = spoiled
      \/ /\ Installs(t) /\ spoiled' = spoiled
         /\ \E p \in Policies : thread' = [thread EXCEPT ![t].policy = p, ![t].pc = "seed"]
      \/ thread[t].job = "refresh" /\ thread' = [thread EXCEPT ![t] = Idle] /\ spoiled' = spoiled
      \/ /\ thread[t].job # "refresh" /\ spoiled' = spoiled \cup {t}
         /\ \E p \in Policies : thread' = [thread EXCEPT ![t].policy = p, ![t].pc = "swap"]
  BY Zenon DEF LoadFile
<1>8. CASE /\ thread[t].job # "refresh" /\ spoiled' = spoiled \cup {t}
           /\ \E p \in Policies : thread' = [thread EXCEPT ![t].policy = p, ![t].pc = "swap"]
  <2>1. Installs(t) BY <1>3, <1>8 DEF Installs
  <2>2. PICK p \in Policies : thread' = [thread EXCEPT ![t].policy = p, ![t].pc = "swap"] BY <1>8, Zenon
  <2>3. \E r : Loads(t, r) BY <1>6, <1>8, <2>1, <2>2
  <2> QED BY <1>2, <1>3, <2>3, Zenon
<1>9. CASE /\ Installs(t) /\ spoiled' = spoiled
           /\ \E p \in Policies : thread' = [thread EXCEPT ![t].policy = p, ![t].pc = "seed"]
  <2>1. PICK p \in Policies : thread' = [thread EXCEPT ![t].policy = p, ![t].pc = "seed"] BY <1>9, Zenon
  <2>2. \E r : Loads(t, r) BY <1>6, <1>9, <2>1
  <2> QED BY <1>2, <1>3, <2>2, Zenon
<1> QED BY <1>4, <1>5, <1>7, <1>8, <1>9, Zenon

(* Where a thread goes from the swap. *)
SwapTo(t, r) ==
  /\ Moves(t, r) /\ r.job = thread[t].job /\ r.mtime = thread[t].mtime
  /\ r.policy = thread[t].policy
  /\ thread[t].job = "reload" => r.pc = "persist"
  /\ thread[t].job = "refresh" => r.pc = "record"
  /\ Installs(t) => r.pc = "stat"

\* The swap makes the policy in hand the snapshot of the process.
LEMMA SwapEffect ==
  ASSUME Shape, NEW t \in Threads, Swap(t)
  PROVE  /\ \E r : SwapTo(t, r)
         /\ store' \in [Procs -> StoreRec]
         /\ store'[t[1]].policy = thread[t].policy /\ store'[t[1]].mtime = store[t[1]].mtime
         /\ \A q \in Procs \ {t[1]} : store'[q] = store[q]
         /\ spoiled' = spoiled \cup CrossedBySwap(t)
         /\ thread[t].pc = "swap" /\ thread[t].job \in {"reload", "refresh", "boot", "install"}
         /\ thread[t].policy \in Policies
         /\ UNCHANGED <<backend, file, dir, apart>>
<1> DEFINE to == CASE thread[t].job = "reload" -> "persist" [] thread[t].job = "refresh" -> "record"
                   [] OTHER -> "stat"
           r == [thread[t] EXCEPT !.pc = to]
           engine == IF Installs(t) /\ backend = "cedar" THEN dir # <<>> ELSE thread[t].engine
           s == [store[t[1]] EXCEPT !.policy = thread[t].policy, !.engine = engine]
<1>1. thread[t] \in ThreadRec /\ JobOK(thread[t]) /\ store[t[1]] \in StoreRec
  BY ThreadProc DEF Shape
<1>2. thread[t].pc = "swap" /\ UNCHANGED <<backend, file, dir, apart>>
      /\ spoiled' = spoiled \cup CrossedBySwap(t)
  BY DEF Swap
<1>3. thread[t].job \in {"reload", "refresh", "boot", "install"} /\ thread[t].policy \in Policies
  BY <1>1, <1>2 DEF JobOK, ThreadRec, None
<1>4. /\ to \in {"persist", "record", "stat"}
      /\ thread[t].job = "reload" => to = "persist"
      /\ thread[t].job = "refresh" => to = "record"
      /\ Installs(t) => to = "stat"
  BY <1>3 DEF Installs
<1>5. thread' = [thread EXCEPT ![t].pc = to] BY DEF Swap
<1>6. engine \in BOOLEAN BY <1>1, Zenon DEF ThreadRec
<1>7. store' = [store EXCEPT ![t[1]].policy = thread[t].policy, ![t[1]].engine = engine]
  BY DEF Swap
<1> HIDE DEF to, engine
<1>8. thread' = [thread EXCEPT ![t] = r] BY <1>5 DEF Shape
<1>9. /\ r \in ThreadRec /\ r.pc = to /\ r.job = thread[t].job /\ r.mtime = thread[t].mtime
      /\ r.policy = thread[t].policy
  BY <1>1, <1>4 DEF ThreadRec
<1>10. s \in StoreRec BY <1>1, <1>3, <1>6, Zenon DEF StoreRec
<1>11. s.policy = thread[t].policy /\ s.mtime = store[t[1]].mtime BY <1>1 DEF StoreRec
<1>12. store' = [store EXCEPT ![t[1]] = s] BY <1>7, ThreadProc, Zenon DEF Shape
<1> HIDE DEF r, s
<1>13. store' \in [Procs -> StoreRec] /\ store'[t[1]] = s
       /\ \A q \in Procs \ {t[1]} : store'[q] = store[q]
  BY <1>10, <1>12, ThreadProc DEF Shape
<1>14. SwapTo(t, r) BY <1>4, <1>8, <1>9, Zenon DEF Moves, SwapTo
<1> QED BY <1>2, <1>3, <1>11, <1>13, <1>14, Zenon

(* Where a thread goes from a write of the file. *)
WriteTo(t, r) ==
  /\ Moves(t, r) /\ r.job = thread[t].job /\ r.policy = thread[t].policy
  /\ r.mtime = thread[t].mtime
  /\ \/ thread[t].pc = "persist" /\ thread[t].job = "reload" /\ r.pc = "stat"
     \/ thread[t].pc = "seed" /\ Installs(t) /\ r.pc = "swap"

(* The file is written by t: its mtime moves on, or the file is marked. *)
Written(t) ==
  /\ file' \in FileRec /\ file'.policy = thread[t].policy
  /\ file'.mtime = file.mtime + 1 \/ (file'.mtime = file.mtime /\ file'.again)
  /\ spoiled' = spoiled \cup CrossedByWrite(t)

\* The write of the file, or the logged error.
LEMMA PersistEffect ==
  ASSUME Shape, NEW t \in Threads, Persist(t)
  PROVE  /\ \E r : WriteTo(t, r)
         /\ Written(t) \/ (file' = file /\ spoiled' = spoiled \cup {t})
         /\ thread[t].policy \in Policies
         /\ UNCHANGED <<backend, store, dir, cedar, req, apart>>
<1> DEFINE to == IF thread[t].pc = "seed" THEN "swap" ELSE "stat"
           r == [thread[t] EXCEPT !.pc = to]
<1>1. thread[t] \in ThreadRec /\ JobOK(thread[t]) /\ file \in FileRec BY DEF Shape
<1>2. thread[t].pc \in {"persist", "seed"} /\ UNCHANGED <<backend, store, dir, cedar, req, apart>>
  BY DEF Persist
<1>3. /\ thread[t].pc = "persist" => thread[t].job = "reload"
      /\ thread[t].pc = "seed" => Installs(t)
      /\ thread[t].policy \in Policies
  BY <1>1, <1>2 DEF JobOK, ThreadRec, None, Installs
<1>4. thread' = [thread EXCEPT ![t] = r] BY DEF Persist, Shape
<1>5. to \in {"swap", "stat"} /\ (thread[t].pc = "seed" => to = "swap")
      /\ (thread[t].pc = "persist" => to = "stat")
  OBVIOUS
<1> HIDE DEF to
<1>6. /\ r \in ThreadRec /\ r.job = thread[t].job /\ r.pc = to /\ r.policy = thread[t].policy
      /\ r.mtime = thread[t].mtime
  BY <1>1, <1>5 DEF ThreadRec
<1> HIDE DEF r
<1>7. WriteTo(t, r) BY <1>2, <1>3, <1>4, <1>5, <1>6 DEF Moves, WriteTo
<1>8. \/ /\ \E ticks \in {0, 1} :
              file' = [policy |-> thread[t].policy, mtime |-> file.mtime + ticks, again |-> ticks = 0]
         /\ spoiled' = spoiled \cup CrossedByWrite(t)
      \/ file' = file /\ spoiled' = spoiled \cup {t}
  BY Zenon DEF Persist
<1>9. ASSUME NEW ticks \in {0, 1}, spoiled' = spoiled \cup CrossedByWrite(t),
             file' = [policy |-> thread[t].policy, mtime |-> file.mtime + ticks, again |-> ticks = 0]
      PROVE  Written(t)
  <2>1. file.mtime \in Nat BY <1>1 DEF FileRec
  <2>2. file' \in FileRec BY <1>3, <1>9, <2>1 DEF FileRec
  <2>3. file'.policy = thread[t].policy /\ file'.mtime = file.mtime + ticks /\ (ticks = 0 => file'.again)
    BY <1>9
  <2> QED BY <1>9, <2>1, <2>2, <2>3 DEF Written
<1> QED BY <1>2, <1>3, <1>7, <1>8, <1>9, Zenon

\* The mtime read after the write.
LEMMA StatEffect ==
  ASSUME Shape, NEW t \in Threads, Stat(t)
  PROVE  /\ \E r : /\ Moves(t, r) /\ r.job = thread[t].job /\ r.pc = "record"
                  /\ r.mtime = file.mtime /\ r.policy = thread[t].policy
         /\ thread[t].pc = "stat" /\ thread[t].job \in {"reload", "boot", "install"}
         /\ UNCHANGED <<backend, file, store, dir, cedar, req, spoiled, apart>>
<1> DEFINE r == [thread[t] EXCEPT !.pc = "record", !.mtime = file.mtime]
<1>1. thread[t] \in ThreadRec /\ JobOK(thread[t]) /\ file \in FileRec BY DEF Shape
<1>2. thread[t].pc = "stat" /\ UNCHANGED <<backend, file, store, dir, cedar, req, spoiled, apart>>
  BY DEF Stat
<1>3. thread[t].job \in {"reload", "boot", "install"} BY <1>1, <1>2 DEF JobOK, ThreadRec, None
<1>4. thread' = [thread EXCEPT ![t] = r] BY Zenon DEF Stat, Shape
<1>5. /\ r \in ThreadRec /\ r.job = thread[t].job /\ r.pc = "record" /\ r.mtime = file.mtime
      /\ r.policy = thread[t].policy
  BY <1>1, Zenon DEF ThreadRec, FileRec
<1> HIDE DEF r
<1> QED BY <1>2, <1>3, <1>4, <1>5, Zenon DEF Moves

\* The mtime that was read becomes the one last applied.
LEMMA RecordEffect ==
  ASSUME Shape, NEW t \in Threads, Record(t)
  PROVE  /\ Moves(t, Idle) /\ store' \in [Procs -> StoreRec]
         /\ store'[t[1]].mtime = thread[t].mtime /\ store'[t[1]].policy = store[t[1]].policy
         /\ store'[t[1]].engine = store[t[1]].engine
         /\ \A q \in Procs \ {t[1]} : store'[q] = store[q]
         /\ thread[t].pc = "record" /\ thread[t].job \in {"reload", "refresh", "boot", "install"}
         /\ spoiled' = spoiled \ {t}
         /\ apart' = IF t \in spoiled THEN apart \cup {t[1]} ELSE apart \ {t[1]}
         /\ UNCHANGED <<backend, file, dir, cedar, req>>
<1> DEFINE s == [store[t[1]] EXCEPT !.mtime = thread[t].mtime]
<1>1. thread[t] \in ThreadRec /\ JobOK(thread[t]) /\ store[t[1]] \in StoreRec
  BY ThreadProc DEF Shape
<1>2. /\ thread[t].pc = "record" /\ UNCHANGED <<backend, file, dir, cedar, req>>
      /\ spoiled' = spoiled \ {t}
      /\ apart' = IF t \in spoiled THEN apart \cup {t[1]} ELSE apart \ {t[1]}
      /\ thread' = [thread EXCEPT ![t] = Idle]
  BY Zenon DEF Record
<1>r. store' = [store EXCEPT ![t[1]].mtime = thread[t].mtime] BY Zenon DEF Record, Recorded
<1>3. thread[t].job \in {"reload", "refresh", "boot", "install"}
  BY <1>1, <1>2 DEF JobOK, ThreadRec, None
<1>4. s \in StoreRec /\ s.mtime = thread[t].mtime /\ s.policy = store[t[1]].policy
  BY <1>1 DEF StoreRec, ThreadRec
<1>e. s.engine = store[t[1]].engine BY <1>1, Zenon DEF StoreRec
<1>5. store' = [store EXCEPT ![t[1]] = s] BY <1>r, ThreadProc, Zenon DEF Shape
<1> HIDE DEF s
<1>6. store' \in [Procs -> StoreRec] /\ store'[t[1]] = s
      /\ \A q \in Procs \ {t[1]} : store'[q] = store[q]
  BY <1>4, <1>5, ThreadProc DEF Shape
<1>7. Idle \in ThreadRec BY DEF Idle, ThreadRec, None
<1> QED BY <1>2, <1>3, <1>4, <1>e, <1>6, <1>7, Zenon DEF Moves

-----------------------------------------------------------------------------
(* The shape of the variables                                               *)

\* What a job does keeps the types.
LEMMA ShapeMoves ==
  ASSUME Shape, NEW t \in Threads, NEW r, Moves(t, r), JobOK(r),
         backend' = backend, file' \in FileRec, dir' = dir, cedar' \in Cedars,
         store' \in [Procs -> StoreRec], apart' \subseteq Procs, spoiled' \subseteq Threads
  PROVE  Shape'
<1>1. /\ thread' \in [Threads -> ThreadRec] /\ thread'[t] = r
      /\ \A u \in Threads \ {t} : thread'[u] = thread[u]
  BY MovesEffect
<1>2. \A u \in Threads : JobOK(thread'[u]) BY <1>1, Zenon DEF Shape
<1>3. backend' \in Backends /\ dir' \in Dirs BY DEF Shape
<1> QED BY <1>1, <1>2, <1>3, Zenon DEF Shape, JobOK

\* The Cedar store holds what some directory said, or nothing.
LEMMA CedarStep ==
  ASSUME Shape, NEW t \in Threads
  PROVE  Swap(t) \/ Restart(t) => cedar' \in Cedars
<1>1. cedar \in Cedars /\ Unloaded \in Cedars /\ CedarReload(dir) \in Cedars
  BY CedarReloadType DEF Shape, Cedars
<1>2. ASSUME Swap(t) PROVE cedar' \in {cedar, CedarReload(dir)} BY <1>2 DEF Swap
<1>3. ASSUME Restart(t) PROVE cedar' \in {cedar, Unloaded} BY <1>3 DEF Restart
<1> QED BY <1>1, <1>2, <1>3

\* Every step of a job keeps the types.
LEMMA ShapeJob ==
  ASSUME Shape, NEW t \in Threads, Job(t) \/ Install(t) \/ \E p \in Policies : Reload(t, p)
  PROVE  Shape'
<1>0. /\ thread[t] \in ThreadRec /\ JobOK(thread[t]) /\ file \in FileRec /\ cedar \in Cedars
      /\ store \in [Procs -> StoreRec] /\ apart \subseteq Procs /\ CedarReload(dir) \in Cedars
      /\ t[1] \in Procs /\ spoiled \subseteq Threads
  BY CedarReloadType, ThreadProc DEF Shape, FileRec
<1>1. JobOK(Idle) BY DEF Idle, JobOK, None
<1>2. ASSUME NEW p \in Policies, Reload(t, p) PROVE Shape'
  <2>1. PICK r : Moves(t, r) /\ r.job = "reload" /\ r.pc = "swap" /\ r.policy = p /\ r.mtime = 0
    BY <1>2, ReloadEffect, Zenon
  <2>2. cedar' \in {cedar, CedarReload(dir)} /\ UNCHANGED <<backend, file, store, dir, spoiled, apart>>
    BY <1>2, ReloadEffect, Zenon
  <2>3. JobOK(r) BY <2>1 DEF JobOK, None
  <2>4. cedar' \in Cedars BY <1>0, <2>2
  <2> QED BY ShapeMoves, <1>0, <2>1, <2>2, <2>3, <2>4, Zenon
<1>3. ASSUME Refresh(t) PROVE Shape'
  <2>1. PICK r : Moves(t, r) /\ r.job = "refresh" /\ r.pc = "load" /\ r.mtime = file.mtime
    BY <1>3, RefreshEffect, Zenon
  <2>2. UNCHANGED <<backend, file, store, dir, cedar, req, spoiled, apart>> BY <1>3, RefreshEffect, Zenon
  <2>3. JobOK(r) BY <2>1 DEF JobOK, None
  <2> QED BY ShapeMoves, <1>0, <2>1, <2>2, <2>3, Zenon
<1>i. ASSUME Install(t) PROVE Shape'
  <2>1. PICK r : Moves(t, r) /\ r.job = "install" /\ r.pc = "load" /\ r.mtime = 0
    BY <1>i, InstallEffect, Zenon
  <2>2. UNCHANGED <<backend, file, store, dir, cedar, req, spoiled, apart>> BY <1>i, InstallEffect, Zenon
  <2>3. JobOK(r) BY <2>1 DEF JobOK, None
  <2> QED BY ShapeMoves, <1>0, <2>1, <2>2, <2>3, Zenon
<1>4. ASSUME LoadFile(t) PROVE Shape'
  <2>1. PICK r : Loads(t, r) BY <1>4, LoadFileEffect, Zenon
  <2>2. /\ thread[t].pc = "load" /\ UNCHANGED <<backend, file, store, dir, cedar, req, apart>>
        /\ thread[t].job \in {"refresh", "boot", "install"}
    BY <1>4, LoadFileEffect, Zenon
  <2>3. JobOK(r) BY <1>1, <2>1, <2>2 DEF JobOK, None, Loads, Installs
  <2>4. spoiled' \subseteq Threads /\ Moves(t, r) BY <1>0, <2>1 DEF Loads
  <2> QED BY ShapeMoves, <1>0, <2>2, <2>3, <2>4, Zenon
<1>5. ASSUME Swap(t) PROVE Shape'
  <2>1. PICK r : SwapTo(t, r) BY <1>5, SwapEffect, Zenon
  <2>0. Moves(t, r) BY <2>1 DEF SwapTo
  <2>2. /\ store' \in [Procs -> StoreRec] /\ UNCHANGED <<backend, file, dir, apart>>
        /\ spoiled' = spoiled \cup CrossedBySwap(t)
        /\ thread[t].pc = "swap" /\ thread[t].job \in {"reload", "refresh", "boot", "install"}
        /\ thread[t].policy \in Policies
    BY <1>5, SwapEffect, Zenon
  <2>3. JobOK(r) BY <1>0, <2>1, <2>2 DEF JobOK, None, SwapTo, Installs
  <2>4. spoiled' \subseteq Threads BY <1>0, <2>2 DEF CrossedBySwap
  <2>5. cedar' \in Cedars BY <1>5, CedarStep, Zenon
  <2> QED BY ShapeMoves, <1>0, <2>0, <2>2, <2>3, <2>4, <2>5, Zenon
<1>6. ASSUME Persist(t) PROVE Shape'
  <2>1. PICK r : WriteTo(t, r) BY <1>6, PersistEffect, Zenon
  <2>2. /\ Written(t) \/ (file' = file /\ spoiled' = spoiled \cup {t})
        /\ thread[t].policy \in Policies
        /\ UNCHANGED <<backend, store, dir, cedar, req, apart>>
    BY <1>6, PersistEffect, Zenon
  <2>3. JobOK(r) BY <2>1, <2>2 DEF JobOK, None, WriteTo, Installs
  <2>4. spoiled' \subseteq Threads /\ file' \in FileRec BY <1>0, <2>2 DEF Written, CrossedByWrite
  <2>5. Moves(t, r) BY <2>1 DEF WriteTo
  <2> QED BY ShapeMoves, <1>0, <2>2, <2>3, <2>4, <2>5, Zenon
<1>7. ASSUME Stat(t) PROVE Shape'
  <2>1. PICK r : /\ Moves(t, r) /\ r.job = thread[t].job /\ r.pc = "record"
                 /\ r.mtime = file.mtime /\ r.policy = thread[t].policy
    BY <1>7, StatEffect, Zenon
  <2>2. /\ thread[t].job \in {"reload", "boot", "install"}
        /\ UNCHANGED <<backend, file, store, dir, cedar, req, spoiled, apart>>
    BY <1>7, StatEffect, Zenon
  <2>3. JobOK(r) BY <2>1, <2>2 DEF JobOK, None
  <2> QED BY ShapeMoves, <1>0, <2>1, <2>2, <2>3, Zenon
<1>8. ASSUME Record(t) PROVE Shape'
  <2>1. /\ Moves(t, Idle) /\ store' \in [Procs -> StoreRec] /\ UNCHANGED <<backend, file, dir, cedar, req>>
        /\ spoiled' = spoiled \ {t}
        /\ apart' = IF t \in spoiled THEN apart \cup {t[1]} ELSE apart \ {t[1]}
    BY <1>8, RecordEffect, Zenon
  <2>2. spoiled' \subseteq Threads /\ apart' \subseteq Procs BY <1>0, <2>1
  <2> QED BY ShapeMoves, <1>0, <1>1, <2>1, <2>2, Zenon
<1> QED BY <1>2, <1>3, <1>i, <1>4, <1>5, <1>6, <1>7, <1>8, Zenon DEF Job

\* A start of a process keeps the types.
LEMMA ShapeRestart ==
  ASSUME Shape, NEW t \in Threads, Restart(t)
  PROVE  Shape'
<1>1. /\ thread'[t] \in ThreadRec /\ thread'[t].job = "boot" /\ thread'[t].pc = "load"
      /\ \A u \in Threads \ {t} : thread'[u] = IF u[1] = t[1] THEN Idle ELSE thread[u]
      /\ store' \in [Procs -> StoreRec] /\ apart' = apart \cup {t[1]}
      /\ spoiled' = {u \in spoiled : u[1] # t[1]}
      /\ UNCHANGED <<backend, file, dir>>
  BY RestartEffect, Zenon
<1>2. Idle \in ThreadRec /\ JobOK(Idle) BY DEF Idle, ThreadRec, JobOK, None
<1>3. JobOK(thread'[t]) BY <1>1 DEF JobOK, None
<1>4. thread' = [u \in Threads |-> thread'[u]] BY DEF Restart
<1>5. \A u \in Threads : thread'[u] \in ThreadRec /\ JobOK(thread'[u])
  BY <1>1, <1>2, <1>3, Zenon DEF Shape
<1>6. thread' \in [Threads -> ThreadRec] BY <1>4, <1>5
<1>7. cedar' \in Cedars BY CedarStep, Zenon
<1>8. apart' \subseteq Procs /\ spoiled' \subseteq Threads BY <1>1, ThreadProc DEF Shape
<1> QED BY <1>1, <1>5, <1>6, <1>7, <1>8, Zenon DEF Shape, JobOK

(* The steps of an authorization, which change nothing but req and its bound. *)
Deciding == UNCHANGED <<backend, file, store, thread, dir, cedar, spoiled, apart>>

\* A decision changes only the request in hand.
LEMMA AuthorizeOnly == Authorize => Deciding
<1>1. Begin => Deciding BY Zenon DEF Begin, Deciding
<1>2. AtTable \/ AtCedar \/ AtRemote \/ AtTime => Deciding
  BY Zenon DEF AtTable, AtCedar, AtRemote, AtTime, Deciding
<1>3. AtRisk \/ AtColumn \/ AtAcl \/ AtFilter => Deciding
  BY Zenon DEF AtRisk, AtColumn, AtAcl, AtFilter, Deciding
<1>4. AtMask \/ AtWatermark \/ Answer => Deciding
  BY Zenon DEF AtMask, AtWatermark, Answer, Deciding
<1> QED BY <1>1, <1>2, <1>3, <1>4, Zenon DEF Authorize

\* A step that leaves the policies alone.
Aside == UNCHANGED <<backend, file, store, thread, spoiled, apart>>

\* An edit of the Cedar directory, its reload and a decision do.
LEMMA ShapeAside ==
  ASSUME Shape, Authorize \/ EditDir \/ ReloadCedar \/ UNCHANGED vars
  PROVE  Shape' /\ Aside
<1>1. ASSUME Aside, dir' \in Dirs, cedar' \in Cedars PROVE Shape'
  BY <1>1, Zenon DEF Shape, Aside, JobOK
<1>2. dir \in Dirs /\ cedar \in Cedars /\ CedarReload(dir) \in Cedars
  BY CedarReloadType DEF Shape
<1>3. CASE Authorize
  <2>1. Deciding BY <1>3, AuthorizeOnly
  <2> QED BY <1>1, <1>2, <2>1, Zenon DEF Deciding, Aside
<1>4. CASE EditDir
  <2>1. Aside /\ cedar' = cedar BY <1>4, Zenon DEF EditDir, Aside
  <2>2. dir' \in Dirs BY <1>4 DEF EditDir, Dirs
  <2> QED BY <1>1, <1>2, <2>1, <2>2
<1>5. CASE ReloadCedar
  <2>1. Aside /\ dir' = dir /\ cedar' = CedarReload(dir) BY <1>5, Zenon DEF ReloadCedar, Aside
  <2> QED BY <1>1, <1>2, <2>1
<1>6. CASE UNCHANGED vars
  <2>1. Aside /\ dir' = dir /\ cedar' = cedar BY <1>6, Zenon DEF vars, Aside
  <2> QED BY <1>1, <1>2, <2>1
<1> QED BY <1>3, <1>4, <1>5, <1>6

\* Every variable keeps its type (one action per case).
LEMMA ShapeStep == Shape /\ [Next]_vars => Shape'
<1> SUFFICES ASSUME Shape, [Next]_vars PROVE Shape' OBVIOUS
<1>1. CASE Authorize \/ EditDir \/ ReloadCedar \/ UNCHANGED vars BY <1>1, ShapeAside, Zenon
<1>2. ASSUME NEW t \in Threads, Job(t) \/ Restart(t) \/ Install(t) \/ \E p \in Policies : Reload(t, p)
      PROVE  Shape'
  BY <1>2, ShapeJob, ShapeRestart, Zenon
<1> QED BY <1>1, <1>2, Zenon DEF Next

-----------------------------------------------------------------------------
(* The poll keeps the processes in step                                     *)

(* What a thread knows of the file: r is the thread, bad whether its job is    *)
(* spoiled, st the snapshot of its process, f the file.  What a job has in hand *)
(* is the file when it will ask for the mtime next (Holds); a job that has its  *)
(* mtime holds what the file held under it (Dated); and a job that has swapped  *)
(* has put in what it holds (Put).                                             *)
Holds(r, bad, f) ==
  ~bad /\ (r.pc = "stat" \/ (r.pc = "swap" /\ r.job \in {"boot", "install"})) => r.policy = f.policy
Dated(r, bad, f) ==
  (/\ (r.pc = "record" /\ ~bad) \/ (r.pc = "swap" /\ r.job = "refresh")
   /\ r.mtime = f.mtime /\ ~f.again) => r.policy = f.policy
Put(r, bad, st) ==
  r.pc \in {"persist", "stat", "record"} /\ ~bad => st.policy = r.policy
Knows(t) ==
  /\ Holds(thread[t], t \in spoiled, file)
  /\ Dated(thread[t], t \in spoiled, file)
  /\ Put(thread[t], t \in spoiled, store[t[1]])
  /\ t \in spoiled => thread[t].pc \notin {"idle", "load"}

(* The mtimes the processes have recorded, and those their jobs have seen, are  *)
(* ones the file has had.                                                      *)
Past ==
  /\ file.mtime \in Nat
  /\ \A q \in Procs : store[q].mtime \in 0..file.mtime
  /\ \A t \in Threads : thread[t].mtime \in 0..file.mtime

PollInv == Shape /\ Past /\ (\A t \in Threads : Knows(t)) /\ PollAgrees

\* The record of an idle thread.
LEMMA IdleFields == Idle.job = None /\ Idle.pc = "idle" /\ Idle.mtime = 0
BY DEF Idle

\* A thread that has no policy in hand knows nothing.
LEMMA KnowsEmpty ==
  \A r, bad, f, st : r.pc \in {"idle", "load"} => Holds(r, bad, f) /\ Dated(r, bad, f) /\ Put(r, bad, st)
BY DEF Holds, Dated, Put

\* All of it holds at the start.
LEMMA PollInit == Init => PollInv
<1> SUFFICES ASSUME Init PROVE PollInv OBVIOUS
<1>1. Shape /\ spoiled = {} BY InitShape DEF Init
<1>2. CASE /\ \E p \in Policies : file = [policy |-> p, mtime |-> 1, again |-> FALSE]
           /\ store = [q \in Procs |-> [policy |-> file.policy, engine |-> dir # <<>>, mtime |-> 1]]
           /\ thread = [t \in Threads |-> Idle]
  <2>1. file.mtime = 1 /\ \A q \in Procs : store[q].mtime = 1 /\ store[q].policy = file.policy
    BY <1>2
  <2>2. \A t \in Threads : thread[t].pc = "idle" /\ thread[t].mtime = 0 BY <1>2, IdleFields
  <2>3. Past BY <2>1, <2>2 DEF Past
  <2>4. \A t \in Threads : Knows(t) BY <1>1, <2>2, KnowsEmpty DEF Knows
  <2>5. PollAgrees BY <2>1 DEF PollAgrees
  <2> QED BY <1>1, <2>3, <2>4, <2>5 DEF PollInv
<1>3. CASE /\ file = [policy |-> None, mtime |-> 0, again |-> FALSE]
           /\ \E p \in Policies : store = [q \in Procs |-> [policy |-> p, engine |-> FALSE, mtime |-> 0]]
           /\ \E first \in [Procs -> Threads] :
                 thread = [t \in Threads |-> IF first[t[1]] = t THEN ToLoad("boot", 0) ELSE Idle]
           /\ apart = Procs
  <2>1. file.mtime = 0 /\ \A q \in Procs : store[q].mtime = 0 BY <1>3
  <2>2. ToLoad("boot", 0).pc = "load" /\ ToLoad("boot", 0).mtime = 0 BY DEF ToLoad
  <2>3. \A t \in Threads : thread[t] \in {ToLoad("boot", 0), Idle} BY <1>3, Zenon
  <2>4. \A t \in Threads : thread[t].pc \in {"idle", "load"} /\ thread[t].mtime = 0
    BY <2>2, <2>3, IdleFields
  <2>5. Past BY <2>1, <2>4 DEF Past
  <2>6. \A t \in Threads : Knows(t) BY <1>1, <2>4, KnowsEmpty DEF Knows
  <2>7. PollAgrees BY <1>3 DEF PollAgrees
  <2> QED BY <1>1, <2>5, <2>6, <2>7 DEF PollInv
<1> QED BY <1>2, <1>3, Zenon DEF Init

(* A step of one job in the process of t: it leaves the snapshots of the other  *)
(* processes alone.                                                            *)
Local(t) ==
  /\ \A q \in Procs \ {t[1]} : store'[q] = store[q]
  /\ store'[t[1]].mtime \in 0..file'.mtime
  /\ file'.mtime \in Nat /\ file.mtime <= file'.mtime

\* The mtimes stay ones the file has had.
LEMMA PastStep ==
  ASSUME PollInv, NEW t \in Threads, Local(t),
         \A u \in Threads : thread'[u].mtime \in 0..file'.mtime
  PROVE  Past'
<1>1. file.mtime \in Nat /\ \A q \in Procs : store[q].mtime \in 0..file.mtime
  BY DEF PollInv, Past
<1>2. file'.mtime \in Nat /\ \A m \in 0..file.mtime : m \in 0..file'.mtime
  BY <1>1 DEF Local
<1>3. \A q \in Procs : store'[q].mtime \in 0..file'.mtime
  BY <1>1, <1>2, Zenon DEF Local
<1> QED BY <1>2, <1>3 DEF Past

\* An idle thread or one that holds a file which stays as it is knows it still,
\* when its own job is neither moved nor newly spoiled.
LEMMA OtherKnows ==
  ASSUME PollInv, NEW u \in Threads, thread'[u] = thread[u], file' = file,
         u \in spoiled' \/ store'[u[1]].policy = store[u[1]].policy,
         u \in spoiled => u \in spoiled',
         u \in spoiled' => u \in spoiled \/ Swapped(u)
  PROVE  Knows(u)'
<1>1. Knows(u) BY DEF PollInv
<1>2. Holds(thread'[u], u \in spoiled', file') BY <1>1 DEF Knows, Holds
<1>3. Dated(thread'[u], u \in spoiled', file') BY <1>1 DEF Knows, Dated
<1>4. Put(thread'[u], u \in spoiled', store'[u[1]]) BY <1>1 DEF Knows, Put
<1>5. u \in spoiled' => thread'[u].pc \notin {"idle", "load"} BY <1>1 DEF Knows, Swapped
<1> QED BY <1>2, <1>3, <1>4, <1>5, Zenon DEF Knows, Holds, Dated, Put

\* What the others know, when the file is written.
LEMMA OtherWritten ==
  ASSUME PollInv, NEW t \in Threads, Written(t), store' = store,
         NEW u \in Threads, u # t, thread'[u] = thread[u]
  PROVE  Knows(u)'
<1>1. Knows(u) /\ file.mtime \in Nat /\ thread[u].mtime \in 0..file.mtime BY DEF PollInv, Past
<1>2. u \in spoiled' <=> u \in spoiled \/ thread[u].pc = "stat" \/ (thread[u].pc = "swap" /\ Installs(u))
  BY DEF Written, CrossedByWrite
<1>3. Holds(thread'[u], u \in spoiled', file') BY <1>2 DEF Holds, Installs
<1>4. Dated(thread'[u], u \in spoiled', file')
  <2>1. thread[u].mtime # file'.mtime \/ file'.again BY <1>1 DEF Written
  <2> QED BY <2>1 DEF Dated
<1>5. Put(thread'[u], u \in spoiled', store'[u[1]]) BY <1>1, <1>2 DEF Knows, Put
<1>6. u \in spoiled' => thread'[u].pc \notin {"idle", "load"} BY <1>1, <1>2 DEF Knows
<1> QED BY <1>3, <1>4, <1>5, <1>6, Zenon DEF Knows, Holds, Dated, Put

\* The processes in step stay in step, but perhaps the one that moves.
LEMMA OthersAgree ==
  ASSUME PollInv, NEW t \in Threads, Local(t),
         \A u \in Threads : u[1] # t[1] => thread'[u] = thread[u],
         \A q \in Procs \ {t[1]} : q \in apart' <=> q \in apart,
         file' = file \/ file'.mtime > file.mtime \/ file'.again,
         \/ \E u \in Threads : u[1] = t[1] /\ Swapped(u)'
         \/ t[1] \in apart'
         \/ file'.again
         \/ store'[t[1]].mtime = file'.mtime => store'[t[1]].policy = file'.policy
  PROVE  PollAgrees'
<1> SUFFICES ASSUME NEW q \in Procs, \A u \in Threads : u[1] = q => ~Swapped(u)',
                    q \notin apart', ~file'.again, store'[q].mtime = file'.mtime
             PROVE  store'[q].policy = file'.policy
  BY Zenon DEF PollAgrees
<1>1. CASE q = t[1] BY <1>1
<1>2. CASE q # t[1]
  <2>1. store'[q] = store[q] /\ q \notin apart BY <1>2 DEF Local
  <2>2. \A u \in Threads : u[1] = q => ~Swapped(u) BY <1>2 DEF Swapped
  <2>3. CASE file' = file BY <2>1, <2>2, <2>3 DEF PollInv, PollAgrees
  <2>4. CASE file'.mtime > file.mtime
    <3>1. store[q].mtime \in 0..file.mtime /\ file.mtime \in Nat BY DEF PollInv, Past
    <3> QED BY <2>1, <2>4, <3>1 DEF Local
  <2> QED BY <2>3, <2>4
<1> QED BY <1>1, <1>2

\* A process not past a swap and not moved by a step is in step as before.
LEMMA SelfAgrees ==
  ASSUME PollInv, NEW t \in Threads, NEW r, Moves(t, r), ~Swapped(t), file' = file,
         store' = store, apart' = apart
  PROVE  \/ \E u \in Threads : u[1] = t[1] /\ Swapped(u)'
         \/ t[1] \in apart'
         \/ file'.again
         \/ store'[t[1]].mtime = file'.mtime => store'[t[1]].policy = file'.policy
<1>1. \A u \in Threads \ {t} : thread'[u] = thread[u] BY MovesEffect DEF PollInv
<1>2. CASE \E u \in Threads : u[1] = t[1] /\ Swapped(u)
  <2>1. PICK u \in Threads : u[1] = t[1] /\ Swapped(u) BY <1>2
  <2>2. u # t BY <2>1
  <2>3. Swapped(u)' BY <1>1, <2>1, <2>2 DEF Swapped
  <2> QED BY <2>1, <2>3
<1>3. CASE \A u \in Threads : u[1] = t[1] => ~Swapped(u)
  BY <1>3, ThreadProc DEF PollInv, PollAgrees
<1> QED BY <1>2, <1>3

\* A job that starts, or one that goes on to its load or swap, with the file, the
\* snapshots and the other jobs as they are.
LEMMA PollQuiet ==
  ASSUME PollInv, Shape', NEW t \in Threads, NEW r, Moves(t, r), ~Swapped(t),
         UNCHANGED <<file, store, apart>>, spoiled' \in {spoiled, spoiled \cup {t}},
         r.mtime \in 0..file.mtime,
         Holds(r, t \in spoiled', file), Dated(r, t \in spoiled', file),
         Put(r, t \in spoiled', store[t[1]]),
         t \in spoiled' => r.pc \notin {"idle", "load"}
  PROVE  PollInv'
<1>0. /\ t[1] \in Procs /\ file.mtime \in Nat
      /\ \A q \in Procs : store[q].mtime \in 0..file.mtime
      /\ \A u \in Threads : thread[u].mtime \in 0..file.mtime
  BY ThreadProc DEF PollInv, Past
<1>1. thread'[t] = r /\ \A u \in Threads \ {t} : thread'[u] = thread[u]
  BY MovesEffect DEF PollInv
<1>2. Local(t) BY <1>0 DEF Local
<1>3. \A u \in Threads : thread'[u].mtime \in 0..file'.mtime BY <1>0, <1>1
<1>4. Past' BY <1>2, <1>3, PastStep
<1>5. ASSUME NEW u \in Threads PROVE Knows(u)'
  <2>1. CASE u = t
    <3>1. thread'[t] = r /\ file' = file /\ store' = store BY <1>1
    <3> QED BY <2>1, <3>1, Zenon DEF Knows, Holds, Dated, Put
  <2>2. CASE u # t
    <3>1. thread'[u] = thread[u] /\ (u \in spoiled' <=> u \in spoiled) BY <1>1, <2>2
    <3> QED BY <3>1, OtherKnows, Zenon
  <2> QED BY <2>1, <2>2
<1>6. \A u \in Threads : u[1] # t[1] => thread'[u] = thread[u] BY <1>1
<1>7. \/ \E u \in Threads : u[1] = t[1] /\ Swapped(u)'
      \/ t[1] \in apart'
      \/ file'.again
      \/ store'[t[1]].mtime = file'.mtime => store'[t[1]].policy = file'.policy
  BY SelfAgrees
<1>8. PollAgrees' BY <1>2, <1>6, <1>7, OthersAgree
<1> QED BY <1>4, <1>5, <1>8, Zenon DEF PollInv

\* A process that starts anew.
LEMMA PollRestart ==
  ASSUME PollInv, Shape', NEW t \in Threads, Restart(t)
  PROVE  PollInv'
<1>0. /\ Shape /\ t[1] \in Procs /\ file.mtime \in Nat
      /\ \A q \in Procs : store[q].mtime \in 0..file.mtime
      /\ \A u \in Threads : thread[u].mtime \in 0..file.mtime
  BY ThreadProc DEF PollInv, Past
<1>1. /\ thread'[t].pc = "load" /\ thread'[t].mtime = 0
      /\ \A u \in Threads \ {t} : thread'[u] = IF u[1] = t[1] THEN Idle ELSE thread[u]
      /\ \A q \in Procs \ {t[1]} : store'[q] = store[q]
      /\ apart' = apart \cup {t[1]} /\ spoiled' = {u \in spoiled : u[1] # t[1]}
      /\ store'[t[1]].mtime = store[t[1]].mtime /\ file' = file
  BY <1>0, RestartEffect, Zenon
<1>2. Local(t) BY <1>0, <1>1 DEF Local
<1>3. \A u \in Threads : thread'[u].mtime \in 0..file'.mtime BY <1>0, <1>1, IdleFields
<1>4. Past' BY <1>2, <1>3, PastStep
<1>5. ASSUME NEW u \in Threads PROVE Knows(u)'
  <2>1. CASE u[1] = t[1]
    <3>1. thread'[u].pc \in {"idle", "load"} /\ u \notin spoiled' BY <1>1, <2>1, IdleFields
    <3>2. \A f, st : Holds(thread'[u], FALSE, f) /\ Dated(thread'[u], FALSE, f) /\ Put(thread'[u], FALSE, st)
      BY <3>1 DEF Holds, Dated, Put
    <3> QED BY <3>1, <3>2, Zenon DEF Knows, Holds, Dated, Put
  <2>2. CASE u[1] # t[1]
    <3>1. u # t /\ u[1] \in Procs BY <2>2, ThreadProc
    <3>2. thread'[u] = thread[u] /\ (u \in spoiled' <=> u \in spoiled) /\ store'[u[1]] = store[u[1]]
      BY <1>1, <2>2, <3>1
    <3> QED BY <1>1, <3>2, OtherKnows, Zenon
  <2> QED BY <2>1, <2>2
<1>6. PollAgrees'
  <2>1. \A u \in Threads : u[1] # t[1] => thread'[u] = thread[u] BY <1>1
  <2>2. t[1] \in apart' /\ \A q \in Procs \ {t[1]} : q \in apart' <=> q \in apart BY <1>1
  <2> QED BY <1>1, <1>2, <2>1, <2>2, OthersAgree
<1> QED BY <1>4, <1>5, <1>6, Zenon DEF PollInv

\* The swap spoils the jobs of its process that are past theirs, and itself with
\* them.
LEMMA PollSwap ==
  ASSUME PollInv, Shape', NEW t \in Threads, Swap(t)
  PROVE  PollInv'
<1> DEFINE q == t[1]
<1>0. /\ Shape /\ q \in Procs /\ Knows(t) /\ file.mtime \in Nat
      /\ \A x \in Procs : store[x].mtime \in 0..file.mtime
      /\ \A u \in Threads : thread[u].mtime \in 0..file.mtime
  BY ThreadProc DEF PollInv, Past
<1>1. PICK r : SwapTo(t, r) BY <1>0, SwapEffect, Zenon
<1>2. /\ store'[q].policy = thread[t].policy /\ store'[q].mtime = store[q].mtime
      /\ \A x \in Procs \ {q} : store'[x] = store[x]
      /\ spoiled' = spoiled \cup CrossedBySwap(t)
      /\ thread[t].pc = "swap" /\ thread[t].job \in {"reload", "refresh", "boot", "install"}
      /\ UNCHANGED <<file, apart>>
  BY <1>0, SwapEffect, Zenon
<1>3. /\ Moves(t, r) /\ r.mtime = thread[t].mtime /\ r.policy = thread[t].policy
      /\ r.pc \in {"persist", "record", "stat"}
      /\ r.pc = "stat" => Installs(t)
      /\ r.pc = "record" => thread[t].job = "refresh"
  BY <1>1, <1>2 DEF SwapTo, Installs
<1>4. thread'[t] = r /\ \A u \in Threads \ {t} : thread'[u] = thread[u] BY <1>0, <1>3, MovesEffect
<1>5. Local(t) BY <1>0, <1>2 DEF Local
<1>6. \A u \in Threads : thread'[u].mtime \in 0..file'.mtime BY <1>0, <1>2, <1>3, <1>4
<1>7. Past' BY <1>5, <1>6, PastStep
<1>8. Knows(t)'
  <2>1. t \notin spoiled' => t \notin spoiled BY <1>2
  <2>2. Holds(r, t \in spoiled', file) BY <1>0, <1>2, <1>3, <2>1 DEF Knows, Holds, Installs
  <2>3. Dated(r, t \in spoiled', file) BY <1>0, <1>2, <1>3, <2>1 DEF Knows, Dated
  <2>4. Put(r, t \in spoiled', store'[q]) BY <1>2, <1>3 DEF Put
  <2> QED BY <1>2, <1>3, <1>4, <2>2, <2>3, <2>4, Zenon DEF Knows, Holds, Dated, Put
<1>9. ASSUME NEW u \in Threads, u # t PROVE Knows(u)'
  <2>1. thread'[u] = thread[u] /\ u[1] \in Procs BY <1>4, <1>9, ThreadProc
  <2>2. u \in spoiled' <=> u \in spoiled \/ (u[1] = q /\ Swapped(u))
    BY <1>2, <1>9 DEF CrossedBySwap
  <2>3. CASE u \in spoiled' \/ u[1] # q
    <3>1. u \in spoiled' \/ store'[u[1]].policy = store[u[1]].policy BY <1>2, <2>1, <2>3
    <3> QED BY <1>2, <2>1, <2>2, <3>1, OtherKnows, Zenon
  <2>4. CASE u \notin spoiled' /\ u[1] = q
    <3>1. u \notin spoiled /\ ~Swapped(u) BY <2>2, <2>4
    <3>2. Holds(thread[u], FALSE, file) /\ Dated(thread[u], FALSE, file) BY <3>1, Zenon DEF PollInv, Knows, Holds, Dated
    <3>3. \A st : Put(thread[u], FALSE, st) BY <3>1 DEF Put, Swapped
    <3> QED BY <1>2, <2>1, <2>4, <3>2, <3>3, Zenon DEF Knows, Holds, Dated, Put
  <2> QED BY <2>3, <2>4
<1>10. PollAgrees'
  <2>1. Swapped(t)' BY <1>3, <1>4 DEF Swapped
  <2>2. \A u \in Threads : u[1] # q => thread'[u] = thread[u] BY <1>4
  <2> QED BY <1>2, <1>5, <2>1, <2>2, OthersAgree
<1>11. \A u \in Threads : Knows(u)' BY <1>8, <1>9, Zenon
<1> QED BY <1>7, <1>10, <1>11, Zenon DEF PollInv

\* The write spoils the jobs that will ask for the mtime of another file; one
\* that fails spoils its own.
LEMMA PollPersist ==
  ASSUME PollInv, Shape', NEW t \in Threads, Persist(t)
  PROVE  PollInv'
<1> DEFINE q == t[1]
<1>0. /\ Shape /\ q \in Procs /\ Knows(t) /\ file.mtime \in Nat
      /\ \A x \in Procs : store[x].mtime \in 0..file.mtime
      /\ \A u \in Threads : thread[u].mtime \in 0..file.mtime
  BY ThreadProc DEF PollInv, Past
<1>1. PICK r : WriteTo(t, r) BY <1>0, PersistEffect, Zenon
<1>2. /\ Written(t) \/ (file' = file /\ spoiled' = spoiled \cup {t})
      /\ store' = store /\ apart' = apart
  BY <1>0, PersistEffect, Zenon
<1>3. /\ Moves(t, r) /\ r.mtime = thread[t].mtime /\ r.policy = thread[t].policy
      /\ thread[t].pc \in {"persist", "seed"} /\ r.pc \in {"stat", "swap"}
      /\ r.pc = "stat" => thread[t].pc = "persist"
      /\ r.pc = "swap" => r.job \in {"boot", "install"} /\ thread[t].pc = "seed"
  BY <1>1 DEF WriteTo, Installs
<1>4. thread'[t] = r /\ \A u \in Threads \ {t} : thread'[u] = thread[u] BY <1>0, <1>3, MovesEffect
<1>w. Written(t) => /\ file'.policy = thread[t].policy /\ file'.mtime \in {file.mtime, file.mtime + 1}
                    /\ t \in spoiled' => t \in spoiled
                    /\ file'.mtime > file.mtime \/ file'.again
  BY <1>0 DEF Written, CrossedByWrite
<1>5. /\ file'.mtime \in Nat /\ file.mtime <= file'.mtime
      /\ file' = file \/ file'.mtime > file.mtime \/ file'.again
  BY <1>0, <1>2, <1>w
<1>6. \A m \in 0..file.mtime : m \in 0..file'.mtime BY <1>0, <1>5
<1>7. Local(t) BY <1>0, <1>2, <1>5, <1>6 DEF Local
<1>8. \A u \in Threads : thread'[u].mtime \in 0..file'.mtime BY <1>0, <1>3, <1>4, <1>6
<1>9. Past' BY <1>7, <1>8, PastStep
<1>10. Knows(t)'
  <2>1. Holds(r, t \in spoiled', file') BY <1>2, <1>3, <1>w DEF Holds
  <2>2. Dated(r, t \in spoiled', file') BY <1>3 DEF Dated
  <2>3. Put(r, t \in spoiled', store'[q])
    <3>1. CASE t \in spoiled' BY <3>1 DEF Put
    <3>2. CASE t \notin spoiled' /\ r.pc = "stat"
      <4>1. t \notin spoiled BY <1>2, <3>2 DEF Written
      <4>2. store[q].policy = thread[t].policy BY <1>0, <1>3, <3>2, <4>1 DEF Knows, Put
      <4> QED BY <1>2, <1>3, <4>2 DEF Put
    <3>3. CASE r.pc = "swap" BY <3>3 DEF Put
    <3> QED BY <1>3, <3>1, <3>2, <3>3
  <2> QED BY <1>3, <1>4, <2>1, <2>2, <2>3, Zenon DEF Knows, Holds, Dated, Put
<1>11. ASSUME NEW u \in Threads, u # t PROVE Knows(u)'
  <2>1. thread'[u] = thread[u] BY <1>4, <1>11
  <2>2. CASE Written(t) BY <1>2, <1>11, <2>1, <2>2, OtherWritten, Zenon
  <2>3. CASE file' = file /\ spoiled' = spoiled \cup {t}
    <3>1. u \in spoiled' <=> u \in spoiled BY <1>11, <2>3
    <3> QED BY <1>2, <2>1, <2>3, <3>1, OtherKnows, Zenon
  <2> QED BY <1>2, <2>2, <2>3
<1>12. PollAgrees'
  <2>1. \A u \in Threads : u[1] # q => thread'[u] = thread[u] BY <1>4
  <2>2. \/ \E u \in Threads : u[1] = q /\ Swapped(u)'
        \/ q \in apart'
        \/ file'.again
        \/ store'[q].mtime = file'.mtime => store'[q].policy = file'.policy
    <3>1. CASE r.pc = "stat"
      <4>1. Swapped(t)' BY <1>4, <3>1 DEF Swapped
      <4> QED BY <4>1
    <3>2. CASE thread[t].pc = "seed" /\ file' = file
      <4>1. ~Swapped(t) BY <3>2 DEF Swapped
      <4> QED BY <1>2, <1>3, <3>2, <4>1, SelfAgrees
    <3>3. CASE file'.mtime > file.mtime
      <4>1. store'[q].mtime # file'.mtime BY <1>0, <1>2, <1>5, <3>3
      <4> QED BY <4>1
    <3> QED BY <1>3, <1>5, <3>1, <3>2, <3>3
  <2> QED BY <1>2, <1>5, <1>7, <2>1, <2>2, OthersAgree
<1>13. \A u \in Threads : Knows(u)' BY <1>10, <1>11, Zenon
<1> QED BY <1>9, <1>12, <1>13, Zenon DEF PollInv

\* The mtime of a file that is still the one in hand is its mtime.
LEMMA PollStat ==
  ASSUME PollInv, Shape', NEW t \in Threads, Stat(t)
  PROVE  PollInv'
<1> DEFINE q == t[1]
<1>0. /\ Shape /\ q \in Procs /\ Knows(t) /\ file.mtime \in Nat
      /\ \A x \in Procs : store[x].mtime \in 0..file.mtime
      /\ \A u \in Threads : thread[u].mtime \in 0..file.mtime
  BY ThreadProc DEF PollInv, Past
<1>1. PICK r : /\ Moves(t, r) /\ r.job = thread[t].job /\ r.pc = "record"
               /\ r.mtime = file.mtime /\ r.policy = thread[t].policy
  BY <1>0, StatEffect, Zenon
<1>2. thread[t].pc = "stat" /\ UNCHANGED <<file, store, spoiled, apart>> BY <1>0, StatEffect, Zenon
<1>3. thread'[t] = r /\ \A u \in Threads \ {t} : thread'[u] = thread[u] BY <1>0, <1>1, MovesEffect
<1>4. Local(t) BY <1>0, <1>2 DEF Local
<1>5. \A u \in Threads : thread'[u].mtime \in 0..file'.mtime BY <1>0, <1>1, <1>2, <1>3
<1>6. Past' BY <1>4, <1>5, PastStep
<1>7. Knows(t)'
  <2>1. Holds(r, t \in spoiled, file) BY <1>1 DEF Holds
  <2>2. Dated(r, t \in spoiled, file) BY <1>0, <1>1, <1>2 DEF Knows, Holds, Dated
  <2>3. Put(r, t \in spoiled, store[q]) BY <1>0, <1>1, <1>2 DEF Knows, Put
  <2> QED BY <1>1, <1>2, <1>3, <2>1, <2>2, <2>3, Zenon DEF Knows, Holds, Dated, Put
<1>8. ASSUME NEW u \in Threads, u # t PROVE Knows(u)'
  <2>1. thread'[u] = thread[u] BY <1>3, <1>8
  <2> QED BY <1>2, <2>1, OtherKnows, Zenon
<1>9. PollAgrees'
  <2>1. Swapped(t)' BY <1>1, <1>3 DEF Swapped
  <2>2. \A u \in Threads : u[1] # q => thread'[u] = thread[u] BY <1>3
  <2> QED BY <1>2, <1>4, <2>1, <2>2, OthersAgree
<1>10. \A u \in Threads : Knows(u)' BY <1>7, <1>8, Zenon
<1> QED BY <1>6, <1>9, <1>10, Zenon DEF PollInv

\* A job that was not spoiled records the mtime of what it has put in.
LEMMA PollRecord ==
  ASSUME PollInv, Shape', NEW t \in Threads, Record(t)
  PROVE  PollInv'
<1> DEFINE q == t[1]
<1>0. /\ Shape /\ q \in Procs /\ Knows(t) /\ file.mtime \in Nat
      /\ \A x \in Procs : store[x].mtime \in 0..file.mtime
      /\ \A u \in Threads : thread[u].mtime \in 0..file.mtime
  BY ThreadProc DEF PollInv, Past
<1>1. /\ Moves(t, Idle) /\ store'[q].mtime = thread[t].mtime /\ store'[q].policy = store[q].policy
      /\ \A x \in Procs \ {q} : store'[x] = store[x]
      /\ thread[t].pc = "record" /\ file' = file /\ spoiled' = spoiled \ {t}
      /\ apart' = IF t \in spoiled THEN apart \cup {q} ELSE apart \ {q}
  BY <1>0, RecordEffect, Zenon
<1>2. thread'[t] = Idle /\ \A u \in Threads \ {t} : thread'[u] = thread[u] BY <1>0, <1>1, MovesEffect
<1>3. Local(t) BY <1>0, <1>1 DEF Local
<1>4. \A u \in Threads : thread'[u].mtime \in 0..file'.mtime BY <1>0, <1>1, <1>2, IdleFields
<1>5. Past' BY <1>3, <1>4, PastStep
<1>6. Knows(t)'
  <2>1. thread'[t].pc = "idle" /\ t \notin spoiled' BY <1>1, <1>2, IdleFields
  <2>2. \A f, st : Holds(thread'[t], FALSE, f) /\ Dated(thread'[t], FALSE, f) /\ Put(thread'[t], FALSE, st)
    BY <2>1 DEF Holds, Dated, Put
  <2> QED BY <2>1, <2>2, Zenon DEF Knows, Holds, Dated, Put
<1>7. ASSUME NEW u \in Threads, u # t PROVE Knows(u)'
  <2>1. thread'[u] = thread[u] /\ (u \in spoiled' <=> u \in spoiled) /\ u[1] \in Procs
    BY <1>1, <1>2, <1>7, ThreadProc
  <2>2. store'[u[1]].policy = store[u[1]].policy BY <1>1, <2>1
  <2> QED BY <1>1, <2>1, <2>2, OtherKnows, Zenon
<1>8. PollAgrees'
  <2>1. \A u \in Threads : u[1] # q => thread'[u] = thread[u] BY <1>2
  <2>2. \A x \in Procs \ {q} : x \in apart' <=> x \in apart BY <1>1
  <2>3. \/ q \in apart'
        \/ file'.again
        \/ store'[q].mtime = file'.mtime => store'[q].policy = file'.policy
    BY <1>0, <1>1 DEF Knows, Dated, Put
  <2> QED BY <1>1, <1>3, <2>1, <2>2, <2>3, OthersAgree
<1>9. \A u \in Threads : Knows(u)' BY <1>6, <1>7, Zenon
<1> QED BY <1>5, <1>8, <1>9, Zenon DEF PollInv

\* Each job keeps what the poll relies on.
LEMMA PollJob ==
  ASSUME PollInv, Shape', NEW t \in Threads, Job(t) \/ Install(t) \/ \E p \in Policies : Reload(t, p)
  PROVE  PollInv'
<1> DEFINE q == t[1]
<1>0. /\ Shape /\ Knows(t) /\ file.mtime \in Nat /\ thread[t].mtime \in 0..file.mtime
  BY DEF PollInv, Past
<1>s. thread[t].pc \in {"idle", "load"} => ~Swapped(t) /\ t \notin spoiled
  BY <1>0 DEF Knows, Swapped
<1>1. ASSUME NEW p \in Policies, Reload(t, p) PROVE PollInv'
  <2>1. PICK r : Moves(t, r) /\ r.job = "reload" /\ r.pc = "swap" /\ r.policy = p /\ r.mtime = 0
    BY <1>0, <1>1, ReloadEffect, Zenon
  <2>2. UNCHANGED <<file, store, spoiled, apart>> /\ MayStart(t)
    BY <1>0, <1>1, ReloadEffect, Zenon
  <2>3. ~Swapped(t) /\ t \notin spoiled BY <1>s, <2>2 DEF MayStart
  <2>4. /\ Holds(r, t \in spoiled', file) /\ Dated(r, t \in spoiled', file)
        /\ Put(r, t \in spoiled', store[q]) /\ r.mtime \in 0..file.mtime
    BY <1>0, <2>1 DEF Holds, Dated, Put
  <2>5. t \notin spoiled' BY <2>2, <2>3
  <2> QED BY <2>1, <2>2, <2>3, <2>4, <2>5, PollQuiet, Zenon
<1>2. ASSUME Refresh(t) PROVE PollInv'
  <2>1. PICK r : Moves(t, r) /\ r.job = "refresh" /\ r.pc = "load" /\ r.mtime = file.mtime
    BY <1>0, <1>2, RefreshEffect, Zenon
  <2>2. UNCHANGED <<file, store, spoiled, apart>> /\ MayStart(t)
    BY <1>0, <1>2, RefreshEffect, Zenon
  <2>3. ~Swapped(t) /\ t \notin spoiled BY <1>s, <2>2 DEF MayStart
  <2>4. Holds(r, t \in spoiled', file) /\ Dated(r, t \in spoiled', file) /\ Put(r, t \in spoiled', store[q])
    BY <2>1, KnowsEmpty
  <2>5. t \notin spoiled' /\ r.mtime \in 0..file.mtime BY <1>0, <2>1, <2>2, <2>3
  <2> QED BY <2>1, <2>2, <2>3, <2>4, <2>5, PollQuiet, Zenon
<1>3. ASSUME Install(t) PROVE PollInv'
  <2>1. PICK r : Moves(t, r) /\ r.job = "install" /\ r.pc = "load" /\ r.mtime = 0
    BY <1>0, <1>3, InstallEffect, Zenon
  <2>2. UNCHANGED <<file, store, spoiled, apart>> /\ MayStart(t)
    BY <1>0, <1>3, InstallEffect, Zenon
  <2>3. ~Swapped(t) /\ t \notin spoiled BY <1>s, <2>2 DEF MayStart
  <2>4. Holds(r, t \in spoiled', file) /\ Dated(r, t \in spoiled', file) /\ Put(r, t \in spoiled', store[q])
    BY <2>1, KnowsEmpty
  <2>5. t \notin spoiled' /\ r.mtime \in 0..file.mtime BY <1>0, <2>1, <2>2, <2>3
  <2> QED BY <2>1, <2>2, <2>3, <2>4, <2>5, PollQuiet, Zenon
<1>4. ASSUME LoadFile(t) PROVE PollInv'
  <2>1. PICK r : Loads(t, r) BY <1>0, <1>4, LoadFileEffect, Zenon
  <2>2. /\ thread[t].pc = "load" /\ thread[t].job \in {"refresh", "boot", "install"}
        /\ UNCHANGED <<file, store, apart>>
    BY <1>0, <1>4, LoadFileEffect, Zenon
  <2>3. ~Swapped(t) /\ t \notin spoiled BY <1>s, <2>2
  <2>4. /\ Moves(t, r) /\ r.mtime \in {thread[t].mtime, 0}
        /\ \/ r.pc = "swap" /\ r.policy = file.policy /\ spoiled' = spoiled
           \/ r.pc = "seed" /\ spoiled' = spoiled
           \/ r.pc = "idle" /\ spoiled' = spoiled
           \/ r.pc = "swap" /\ r.job \in {"boot", "install"} /\ spoiled' = spoiled \cup {t}
    BY <2>1, IdleFields DEF Loads, Installs
  <2>5. /\ Holds(r, t \in spoiled', file) /\ Dated(r, t \in spoiled', file)
        /\ Put(r, t \in spoiled', store[q])
    BY <2>4 DEF Holds, Dated, Put
  <2>6. /\ r.mtime \in 0..file.mtime /\ spoiled' \in {spoiled, spoiled \cup {t}}
        /\ t \in spoiled' => r.pc \notin {"idle", "load"}
    BY <1>0, <2>3, <2>4
  <2> QED BY <2>2, <2>3, <2>4, <2>5, <2>6, PollQuiet, Zenon
<1> QED BY <1>1, <1>2, <1>3, <1>4, PollSwap, PollPersist, PollStat, PollRecord, Zenon DEF Job

\* The invariant of the poll is inductive (one action per case).
LEMMA PollStep == PollInv /\ [Next]_vars => PollInv'
<1> SUFFICES ASSUME PollInv, [Next]_vars PROVE PollInv' OBVIOUS
<1>0. Shape /\ Shape' BY ShapeStep DEF PollInv
<1>1. CASE Authorize \/ EditDir \/ ReloadCedar \/ UNCHANGED vars
  <2>1. UNCHANGED <<file, store, thread, spoiled, apart>> BY <1>0, <1>1, ShapeAside, Zenon DEF Aside
  <2>2. Past' BY <2>1, Zenon DEF PollInv, Past
  <2>3. \A t \in Threads : Knows(t)' BY <2>1, Zenon DEF PollInv, Knows, Holds, Dated, Put
  <2>4. PollAgrees' BY <2>1, Zenon DEF PollInv, PollAgrees, Swapped
  <2> QED BY <1>0, <2>2, <2>3, <2>4, Zenon DEF PollInv
<1>2. ASSUME NEW t \in Threads, Job(t) \/ Restart(t) \/ Install(t) \/ \E p \in Policies : Reload(t, p)
      PROVE  PollInv'
  BY <1>0, <1>2, PollJob, PollRestart, Zenon
<1> QED BY <1>1, <1>2, Zenon DEF Next

\* However reloads, polls, installs, restarts, failed reads and failed writes
\* overlap, for every number of processes and threads: a process between jobs
\* that takes the file's present mtime as applied runs the file's policy, unless
\* its last job failed on the file or was crossed by another, or the file was
\* written twice within one mtime (reload_global_local_pdp, install_local_pdp,
\* maybe_refresh_from_policy_file, configure_policy_poll).
THEOREM PollsAlwaysAgree == Spec => []PollsAgree
<1>1. Init => PollInv BY PollInit
<1>2. PollInv /\ [Next]_vars => PollInv' BY PollStep
<1>3. PollInv => PollsAgree
  <2> SUFFICES ASSUME PollInv PROVE TypeOK /\ PollAgrees BY DEF PollsAgree
  <2>1. Shape /\ Past /\ PollAgrees BY DEF PollInv
  <2>2. file.policy \in Policies \cup {None} /\ apart \subseteq Procs BY <2>1 DEF Shape, FileRec
  <2>3. \A q \in Procs : store[q].policy \in Policies /\ store[q].mtime \in 0..file.mtime
    BY <2>1 DEF Shape, StoreRec, Past
  <2>4. \A t \in Threads :
           /\ thread[t].pc \in {"idle", "load", "seed", "swap", "persist", "stat", "record"}
           /\ t \in spoiled => thread[t].pc # "idle"
    BY <2>1 DEF Shape, ThreadRec, PollInv, Knows
  <2>5. cedar.loaded \/ cedar.permits = {} BY <2>1, CedarFields, Zenon DEF Shape
  <2> QED BY <2>1, <2>2, <2>3, <2>4, <2>5, Zenon DEF TypeOK
<1> QED BY <1>1, <1>2, <1>3, PTL DEF Spec

\* Once Cedar policies are loaded, only the start of a process leaves it without
\* any: no reload does, however the directory looks (reload_from_dir).
THEOREM CedarAlwaysKept == Spec => CedarKept
<1>1. Init => Shape BY InitShape
<1>2. Shape /\ [Next]_vars => Shape' BY ShapeStep
<1>3. ASSUME Shape, [Next]_vars, cedar.loaded, ~cedar'.loaded
      PROVE  \E t \in Threads : thread'[t].job = "boot"
  <2>1. cedar' # cedar /\ cedar' # CedarReload(dir) BY <1>3, CedarReloadType, Zenon
  <2>2. PICK t \in Threads : Restart(t)
    <3>1. ~Authorize /\ ~EditDir /\ ~ReloadCedar /\ ~UNCHANGED vars
      BY <2>1, AuthorizeOnly, Zenon DEF Deciding, EditDir, ReloadCedar, vars
    <3>2. ASSUME NEW t \in Threads, Job(t) \/ Install(t) \/ \E p \in Policies : Reload(t, p)
          PROVE  cedar' \in {cedar, CedarReload(dir)}
      <4>1. ASSUME NEW p \in Policies, Reload(t, p) PROVE cedar' \in {cedar, CedarReload(dir)}
        BY <1>3, <4>1, ReloadEffect, Zenon
      <4>2. Swap(t) => cedar' \in {cedar, CedarReload(dir)} BY DEF Swap
      <4>3. Refresh(t) \/ Install(t) \/ LoadFile(t) \/ Persist(t) \/ Stat(t) \/ Record(t) => cedar' = cedar
        BY Zenon DEF Refresh, Install, LoadFile, Persist, Stat, Record
      <4> QED BY <3>2, <4>1, <4>2, <4>3, Zenon DEF Job
    <3> QED BY <1>3, <2>1, <3>1, <3>2, Zenon DEF Next
  <2>3. thread'[t].job = "boot" BY <1>3, <2>2, RestartEffect, Zenon
  <2> QED BY <2>3
<1>4. Shape /\ [Next]_vars =>
        [(cedar.loaded /\ ~cedar'.loaded) => \E t \in Threads : thread'[t].job = "boot"]_vars
  BY <1>3, Zenon
<1> QED BY <1>1, <1>2, <1>4, PTL DEF Spec, CedarKept

-----------------------------------------------------------------------------
(* Decisions made while policies are reloaded                               *)

(* The types of a request.  A statement is one that arrived, or one whose      *)
(* action was filled in; what is put on a result comes from some policy.       *)
Arrived == UNION {Statements[b] : b \in Backends}
Stmts == Arrived \cup {[s EXCEPT !.action = a] : s \in Arrived,
                                                 a \in {x.action : x \in Arrived} \cup {"other"}}
Snaps == [policy : Policies, engine : BOOLEAN]
Filters == {{}} \cup {collect_row_filter(Content[p], s) : p \in Policies, s \in Stmts}
Masks == {{}} \cup {collect_mask_specs(Content[p], s) : p \in Policies, s \in Stmts}
Caps == {<<>>} \cup {Content[p].max_rows : p \in Policies}
Watermarks == {FALSE} \cup {Content[p].watermark : p \in Policies}
Pcs == {"table", "cedar", "remote", "time", "risk", "column", "acl", "filter", "mask", "watermark", "done"}
OutRec ==
  [verdict : {"allow", "deny", "ticket"}, rewritten : BOOLEAN, filter : Filters, masks : Masks,
   max_rows : Caps, watermark : Watermarks]
ReqRec ==
  [pc : Pcs, stmt : Stmts, p : Policies, force : SUBSET Snaps, cedars : SUBSET Cedars,
   paid : Nat, out : OutRec]

(* Two requests about the same statement, decided by the same snapshots. *)
Same(q, r) ==
  /\ r.stmt = q.stmt /\ r.p = q.p /\ r.force = q.force /\ r.cedars = q.cedars

\* The request at the next gate.
LEMMA GoFields ==
  ASSUME req \in ReqRec, NEW x \in Pcs
  PROVE  /\ Go(x) \in ReqRec /\ Go(x).pc = x /\ Same(req, Go(x))
         /\ Go(x).paid = req.paid /\ Go(x).out = req.out
BY DEF ReqRec, Go, Same

\* The request at its end.
LEMMA EndFields ==
  ASSUME req \in ReqRec, NEW v \in {"allow", "deny", "ticket"}
  PROVE  /\ End(v) \in ReqRec /\ End(v).pc = "done" /\ Same(req, End(v))
         /\ End(v).paid = req.paid /\ End(v).out.verdict = v
         /\ End(v).out.filter = req.out.filter /\ End(v).out.masks = req.out.masks
         /\ End(v).out.max_rows = req.out.max_rows
<1> DEFINE o == [req.out EXCEPT !.verdict = v]
<1>1. req.out \in OutRec BY DEF ReqRec
<1>2. /\ o \in OutRec /\ o.verdict = v /\ o.filter = req.out.filter /\ o.masks = req.out.masks
      /\ o.max_rows = req.out.max_rows
  BY <1>1 DEF OutRec
<1>3. End(v) = [req EXCEPT !.pc = "done", !.out = o] BY DEF End
<1> HIDE DEF o
<1>4. End(v).out = o BY <1>3 DEF ReqRec
<1>5. /\ End(v) \in ReqRec /\ End(v).pc = "done" /\ Same(req, End(v)) /\ End(v).paid = req.paid
  BY <1>2, <1>3, Zenon DEF ReqRec, Same, Pcs
<1> QED BY <1>2, <1>4, <1>5, Zenon

\* A ticket pays for one gate.
LEMMA PaidFields ==
  ASSUME req \in ReqRec, NEW x \in Pcs
  PROVE  LET r == [Go(x) EXCEPT !.paid = @ + 1]
         IN  /\ r \in ReqRec /\ r.pc = x /\ Same(req, r) /\ r.paid = req.paid + 1 /\ r.out = req.out
BY GoFields DEF ReqRec, Same

(* A request is about what is current: the snapshot and the Cedar store of now *)
(* are among those in force, and so is the policy it began with.               *)
Current ==
  /\ req \in ReqRec
  /\ Snapshot(store[Here]) \in req.force /\ cedar \in req.cedars
  /\ \E f \in req.force : f.policy = req.p

AfterTable == Pcs \ {"table", "done"}
AfterCedar == AfterTable \ {"cedar", "remote"}
AfterTime == AfterCedar \ {"time"}
AfterRisk == AfterTime \ {"risk"}
ToAnswer == {"filter", "mask", "watermark"}

(* What a request has behind it at each gate. *)
Staged ==
  /\ req.pc \in AfterTable => TablePassed /\ req.stmt.command = "query"
  /\ req.pc = "cedar" => backend = "cedar"
  /\ req.pc = "remote" => backend \in {"remote", "remote_open"}
  /\ req.pc \in AfterCedar => CedarPassed
  /\ req.pc \in AfterTime => TimePassed
  /\ req.pc \in AfterRisk => RiskPassed
  /\ req.pc = "acl" => req.stmt.parsed \/ req.stmt.objects # {}
  /\ req.pc \in ToAnswer => AclPassed /\ CapInForce
  /\ req.pc \in {"mask", "watermark"} => FilterInForce
  /\ req.pc = "watermark" => MasksKept
  /\ req.pc \notin {"mask", "watermark", "done"} => req.out.filter = {}
  /\ req.pc # "done" => req.out.verdict = "allow"
  /\ req.paid > 0 => Asked

Sound == Current /\ Staged /\ DecidedInForce

(* A step after which the request is about the same statement and at least the *)
(* same snapshots.                                                            *)
Grows ==
  /\ backend' = backend /\ req'.stmt = req.stmt /\ req'.p = req.p
  /\ req.force \subseteq req'.force /\ req.cedars \subseteq req'.cedars
  /\ req.paid \in Nat /\ req'.paid \in Nat /\ req.paid <= req'.paid

\* A gate that was passed stays passed, and so with a refusal.
LEMMA GatesKept ==
  ASSUME Grows
  PROVE  /\ (TablePassed => TablePassed') /\ (CedarPassed => CedarPassed')
         /\ (TimePassed => TimePassed') /\ (RiskPassed => RiskPassed') /\ (AclPassed => AclPassed')
         /\ (Asked => Asked') /\ (Refused => Refused')
<1>0. req.paid > 0 => req'.paid > 0 BY DEF Grows
<1>1. TablePassed => TablePassed' BY Zenon DEF Grows, TablePassed
<1>2. CedarPassed => CedarPassed' BY Zenon DEF Grows, CedarPassed
<1>3. TimePassed => TimePassed' BY <1>0, Zenon DEF Grows, TimePassed
<1>4. RiskPassed => RiskPassed' BY <1>0, Zenon DEF Grows, RiskPassed
<1>5. AclPassed => AclPassed' BY Zenon DEF Grows, AclPassed
<1>6. Asked => Asked'
  <2>1. \A f : Asks(f) => Asks(f)' BY Zenon DEF Grows, Asks
  <2> QED BY <2>1, Zenon DEF Grows, Asked
<1>7. Refused => Refused'
  <2>1. \A f, c : Refuses(f, c) => Refuses(f, c)' BY Zenon DEF Grows, Refuses
  <2>2. \A f : FailsClosed(f) => FailsClosed(f)' BY Zenon DEF Grows, FailsClosed
  <2> QED BY <2>1, <2>2, Zenon DEF Grows, Refused
<1> QED BY <1>1, <1>2, <1>3, <1>4, <1>5, <1>6, <1>7, Zenon

\* What is on the result stays bound by a snapshot that was in force.
LEMMA BoundsKept ==
  ASSUME Grows
  PROVE  /\ CapInForce /\ req'.out.max_rows = req.out.max_rows => CapInForce'
         /\ FilterInForce /\ req'.out.filter = req.out.filter => FilterInForce'
         /\ MasksKept /\ req'.out.masks = req.out.masks => MasksKept'
         /\ WatermarkInForce /\ req'.out.watermark = req.out.watermark => WatermarkInForce'
<1>1. CapInForce /\ req'.out.max_rows = req.out.max_rows => CapInForce'
  BY Zenon DEF Grows, CapInForce
<1>2. FilterInForce /\ req'.out.filter = req.out.filter => FilterInForce'
  BY Zenon DEF Grows, FilterInForce
<1>3. MasksKept /\ req'.out.masks = req.out.masks => MasksKept' BY Zenon DEF Grows, MasksKept
<1>4. WatermarkInForce /\ req'.out.watermark = req.out.watermark => WatermarkInForce'
  BY Zenon DEF Grows, WatermarkInForce
<1> QED BY <1>1, <1>2, <1>3, <1>4

\* A reload leaves a decision as sound as it was.
LEMMA SoundGrows ==
  ASSUME Staged, DecidedInForce, Grows, req'.pc = req.pc, req'.out = req.out, req'.paid = req.paid
  PROVE  Staged' /\ DecidedInForce'
<1>1. /\ (TablePassed => TablePassed') /\ (CedarPassed => CedarPassed')
      /\ (TimePassed => TimePassed') /\ (RiskPassed => RiskPassed') /\ (AclPassed => AclPassed')
      /\ (Asked => Asked') /\ (Refused => Refused')
  BY GatesKept
<1>2. /\ (CapInForce => CapInForce') /\ (FilterInForce => FilterInForce')
      /\ (MasksKept => MasksKept') /\ (WatermarkInForce => WatermarkInForce')
  BY BoundsKept, Zenon
<1>3. backend' = backend /\ req'.stmt = req.stmt BY DEF Grows
<1>4. Staged' BY <1>1, <1>2, <1>3 DEF Staged
<1>5. DecidedInForce' BY <1>1, <1>2, <1>3 DEF DecidedInForce
<1> QED BY <1>4, <1>5

\* A policy without column rules denies no column.
LEMMA NoColumnRules == \A p, s : ~has_column_rules(p) => evaluate_column_acl(p, s) # "deny"
<1> SUFFICES ASSUME NEW p, NEW s, ~has_column_rules(p) PROVE evaluate_column_acl(p, s) # "deny"
  OBVIOUS
<1>1. \A o : ColumnRules(p, s, o) = {} BY DEF has_column_rules, ColumnRules
<1>2. ~StarDenied(p, s) BY <1>1, Zenon DEF StarDenied
<1>3. DeniedColumns(p, s) = {} BY <1>1, Zenon DEF DeniedColumns
<1> QED BY <1>2, <1>3 DEF evaluate_column_acl

\* What is current is among what is in force.
LEMMA InForce ==
  ASSUME Shape, Current
  PROVE  \E f \in req.force, c \in req.cedars :
            f.policy = Load.policy /\ f.engine = Load.engine /\ c = cedar
<1> DEFINE f == Snapshot(store[Here])
<1>1. f.policy = Load.policy /\ f.engine = Load.engine BY Zenon DEF Load, Snapshot
<1>2. f \in req.force /\ cedar \in req.cedars BY DEF Current
<1> HIDE DEF f
<1> QED BY <1>1, <1>2, Zenon

\* A step of a decision is about the same statement and the same snapshots.
LEMMA DecideKeeps ==
  ASSUME Current, Deciding, req' \in ReqRec, Same(req, req'), req.paid <= req'.paid
  PROVE  Current' /\ Grows
<1>1. backend' = backend /\ store' = store /\ cedar' = cedar BY Zenon DEF Deciding
<1>2. Current' BY <1>1, Zenon DEF Current, Same, Snapshot
<1>3. req.paid \in Nat /\ req'.paid \in Nat BY DEF ReqRec, Current
<1>4. Grows BY <1>1, <1>3 DEF Grows, Same
<1> QED BY <1>2, <1>4

\* A gate turns a statement away.
LEMMA EndRefused ==
  ASSUME Sound, Deciding, NEW v \in {"deny", "ticket"}, req' = End(v),
         backend \in {"remote", "remote_open"} \/ Refused
  PROVE  Sound'
<1>0. Current /\ req \in ReqRec BY DEF Sound, Current
<1>1. /\ req' \in ReqRec /\ req'.pc = "done" /\ Same(req, req') /\ req'.paid = req.paid
      /\ req'.out.verdict = v
  BY <1>0, EndFields
<1>2. req.paid <= req'.paid BY <1>0, <1>1 DEF ReqRec
<1>3. Current' /\ Grows BY <1>0, <1>1, <1>2, DecideKeeps, Zenon
<1>4. Asked => Asked' BY <1>3, GatesKept
<1>5. Refused => Refused' BY <1>3, GatesKept
<1>6. req'.paid > 0 => Asked' BY <1>1, <1>4 DEF Sound, Staged
<1>7. backend' = backend BY Zenon DEF Deciding
<1>8. Staged' BY <1>1, <1>6 DEF Staged, AfterTable, AfterCedar, AfterTime, AfterRisk, ToAnswer
<1>9. DecidedInForce' BY <1>1, <1>5, <1>6, <1>7 DEF DecidedInForce
<1> QED BY <1>3, <1>8, <1>9, Zenon DEF Sound

\* The gate of the tables.
LEMMA SoundTable == ASSUME Shape, Sound, Deciding, AtTable PROVE Sound'
<1>0. Current /\ req \in ReqRec /\ req.pc = "table" BY DEF Sound, Current, AtTable
<1>f. PICK f \in req.force, c \in req.cedars :
            f.policy = Load.policy /\ f.engine = Load.engine /\ c = cedar
  BY <1>0, InForce
<1>1. CASE evaluate(Loaded, req.stmt)
  <2>1. Refuses(f, c) BY <1>1, <1>f, Zenon DEF Refuses, Loaded
  <2>2. Refused BY <1>f, <2>1, Zenon DEF Refused
  <2>3. req' = End("deny") BY <1>1, Zenon DEF AtTable
  <2> QED BY <2>2, <2>3, EndRefused
<1>2. CASE ~evaluate(Loaded, req.stmt)
  <2>1. TablePassed BY <1>2, <1>f, Zenon DEF TablePassed, Loaded
  <2>2. req.out.verdict = "allow" /\ req.out.filter = {} /\ (req.paid > 0 => Asked)
    BY <1>0 DEF Sound, Staged
  <2>3. CASE req.stmt.command # "query"
    <3>1. req' = End("allow") BY <1>2, <2>3, Zenon DEF AtTable
    <3>2. /\ req' \in ReqRec /\ req'.pc = "done" /\ Same(req, req') /\ req'.paid = req.paid
          /\ req'.out.verdict = "allow"
      BY <1>0, <3>1, EndFields
    <3>3. req.paid <= req'.paid BY <1>0, <3>2 DEF ReqRec
    <3>4. Current' /\ Grows BY <1>0, <3>2, <3>3, DecideKeeps, Zenon
    <3>5. TablePassed' /\ (Asked => Asked') BY <2>1, <3>4, GatesKept
    <3>6. req'.stmt.command # "query" BY <2>3, <3>2 DEF Same
    <3>7. req'.paid > 0 => Asked' BY <2>2, <3>2, <3>5
    <3>8. Staged' BY <3>2, <3>7 DEF Staged, AfterTable, AfterCedar, AfterTime, AfterRisk, ToAnswer
    <3>9. DecidedInForce' BY <3>2, <3>5, <3>6, <3>7 DEF DecidedInForce
    <3> QED BY <3>4, <3>8, <3>9, Zenon DEF Sound
  <2>4. CASE req.stmt.command = "query"
    <3> DEFINE x == IF backend = "cedar" THEN "cedar" ELSE IF backend = "local" THEN "time" ELSE "remote"
    <3>1. req' = Go(x) BY <1>2, <2>4, Zenon DEF AtTable
    <3>2. /\ x \in {"cedar", "time", "remote"} /\ (x = "cedar" => backend = "cedar")
          /\ (x = "remote" => backend \in {"remote", "remote_open"})
          /\ (x = "time" => backend = "local")
      BY DEF Shape, Backends
    <3> HIDE DEF x
    <3>3. x \in Pcs BY <3>2 DEF Pcs
    <3>4. req' \in ReqRec /\ req'.pc = x /\ Same(req, req') /\ req'.paid = req.paid /\ req'.out = req.out
      BY <1>0, <3>1, <3>3, GoFields
    <3>5. req.paid <= req'.paid BY <1>0, <3>4 DEF ReqRec
    <3>6. Current' /\ Grows BY <1>0, <3>4, <3>5, DecideKeeps, Zenon
    <3>7. TablePassed' /\ (Asked => Asked') BY <2>1, <3>6, GatesKept
    <3>8. req'.stmt.command = "query" /\ backend' = backend BY <2>4, <3>4, <3>6 DEF Same, Grows
    <3>9. x = "time" => CedarPassed' BY <3>2, <3>8 DEF CedarPassed
    <3>10. Staged'
      BY <2>2, <3>2, <3>4, <3>7, <3>8, <3>9 DEF Staged, AfterTable, AfterCedar, AfterTime, AfterRisk, ToAnswer
    <3>11. DecidedInForce' BY <3>2, <3>4 DEF DecidedInForce
    <3> QED BY <3>6, <3>10, <3>11, Zenon DEF Sound
  <2> QED BY <2>3, <2>4
<1> QED BY <1>1, <1>2

\* A gate lets a statement go on to the next one.
LEMMA GoesOn ==
  ASSUME Sound, Deciding, NEW x \in Pcs, req' = Go(x)
  PROVE  /\ req' \in ReqRec /\ req'.pc = x /\ req'.stmt = req.stmt /\ req'.out = req.out
         /\ Current' /\ Grows /\ backend' = backend /\ (req'.paid > 0 => Asked')
<1>0. Current /\ req \in ReqRec BY DEF Sound, Current
<1>1. req' \in ReqRec /\ req'.pc = x /\ Same(req, req') /\ req'.paid = req.paid /\ req'.out = req.out
  BY <1>0, GoFields
<1>2. req.paid <= req'.paid BY <1>0, <1>1 DEF ReqRec
<1>3. Current' /\ Grows BY <1>0, <1>1, <1>2, DecideKeeps, Zenon
<1>4. Asked => Asked' BY <1>3, GatesKept
<1>5. req'.paid > 0 => Asked' BY <1>1, <1>4 DEF Sound, Staged
<1> QED BY <1>1, <1>3, <1>5 DEF Same, Grows

\* The gate of Cedar.
LEMMA SoundCedar == ASSUME Shape, Sound, Deciding, AtCedar PROVE Sound'
<1>0. Current /\ req \in ReqRec /\ req.pc = "cedar" BY DEF Sound, Current, AtCedar
<1>s. /\ TablePassed /\ req.stmt.command = "query" /\ backend = "cedar"
      /\ req.out.filter = {} /\ req.out.verdict = "allow"
  BY <1>0 DEF Sound, Staged, AfterTable, Pcs
<1>f. PICK f \in req.force, c \in req.cedars :
            f.policy = Load.policy /\ f.engine = Load.engine /\ c = cedar
  BY <1>0, InForce
<1>1. CASE evaluate_cedar(Load.engine, cedar, req.stmt)
  <2>1. Refuses(f, c) BY <1>1, <1>f, <1>s, Zenon DEF Refuses
  <2>2. Refused BY <1>f, <2>1, Zenon DEF Refused
  <2>3. req' = End("deny") BY <1>1, Zenon DEF AtCedar
  <2> QED BY <2>2, <2>3, EndRefused
<1>2. CASE ~evaluate_cedar(Load.engine, cedar, req.stmt)
  <2>1. CedarPassed BY <1>2, <1>f, Zenon DEF CedarPassed
  <2>2. req' = Go("time") /\ "time" \in Pcs BY <1>2 DEF AtCedar, Pcs
  <2>3. /\ req' \in ReqRec /\ req'.pc = "time" /\ req'.stmt = req.stmt /\ req'.out = req.out
        /\ Current' /\ Grows /\ backend' = backend /\ (req'.paid > 0 => Asked')
    BY <2>2, GoesOn
  <2>4. TablePassed' /\ CedarPassed' BY <1>s, <2>1, <2>3, GatesKept
  <2>5. Staged'
    BY <1>s, <2>3, <2>4 DEF Staged, AfterTable, AfterCedar, AfterTime, AfterRisk, ToAnswer
  <2>6. DecidedInForce' BY <2>3 DEF DecidedInForce
  <2> QED BY <2>3, <2>5, <2>6, Zenon DEF Sound
<1> QED BY <1>1, <1>2

\* The gate of the remote decision point.
LEMMA SoundRemote == ASSUME Shape, Sound, Deciding, AtRemote PROVE Sound'
<1>0. Current /\ req \in ReqRec /\ req.pc = "remote" BY DEF Sound, Current, AtRemote
<1>s. /\ TablePassed /\ req.stmt.command = "query" /\ backend \in {"remote", "remote_open"}
      /\ req.out.filter = {} /\ req.out.verdict = "allow"
  BY <1>0 DEF Sound, Staged, AfterTable, Pcs
<1>1. CASE req' = End("deny") BY <1>1, <1>s, EndRefused
<1>2. CASE req' = Go("time")
  <2>1. "time" \in Pcs BY DEF Pcs
  <2>2. /\ req' \in ReqRec /\ req'.pc = "time" /\ req'.stmt = req.stmt /\ req'.out = req.out
        /\ Current' /\ Grows /\ backend' = backend /\ (req'.paid > 0 => Asked')
    BY <1>2, <2>1, GoesOn
  <2>3. TablePassed' BY <1>s, <2>2, GatesKept
  <2>4. CedarPassed' BY <1>s, <2>2 DEF CedarPassed
  <2>5. Staged'
    BY <1>s, <2>2, <2>3, <2>4 DEF Staged, AfterTable, AfterCedar, AfterTime, AfterRisk, ToAnswer
  <2>6. DecidedInForce' BY <2>2 DEF DecidedInForce
  <2> QED BY <2>2, <2>5, <2>6, Zenon DEF Sound
<1> QED BY <1>1, <1>2, Zenon DEF AtRemote

\* A gate that may ask for a ticket: it is not asked for, or paid, or the end.
LEMMA TicketGate ==
  ASSUME Sound, Deciding, NEW asked, NEW x \in Pcs, req' = Ticketed(asked, x), asked # <<>> => Asked
  PROVE  \/ asked # <<>> /\ ~Pays(req.stmt, asked[1]) /\ req' = End("ticket")
         \/ /\ req' \in ReqRec /\ req'.pc = x /\ req'.stmt = req.stmt /\ req'.out = req.out
            /\ Current' /\ Grows /\ backend' = backend /\ (req'.paid > 0 => Asked')
            /\ (asked = <<>> \/ req'.paid > 0)
<1>0. Current /\ req \in ReqRec BY DEF Sound, Current
<1>1. CASE asked = <<>>
  <2>1. req' = Go(x) BY <1>1, Zenon DEF Ticketed
  <2> QED BY <1>1, <2>1, GoesOn, Zenon
<1>2. CASE asked # <<>> /\ Pays(req.stmt, asked[1])
  <2> DEFINE r == [Go(x) EXCEPT !.paid = @ + 1]
  <2>1. req' = r BY <1>2, Zenon DEF Ticketed
  <2>2. r \in ReqRec /\ r.pc = x /\ Same(req, r) /\ r.paid = req.paid + 1 /\ r.out = req.out
    BY <1>0, PaidFields
  <2> HIDE DEF r
  <2>3. req.paid <= req'.paid /\ req'.paid > 0 BY <1>0, <2>1, <2>2 DEF ReqRec
  <2>4. Current' /\ Grows BY <1>0, <2>1, <2>2, <2>3, DecideKeeps, Zenon
  <2>5. Asked' BY <1>2, <2>4, GatesKept
  <2> QED BY <2>1, <2>2, <2>3, <2>4, <2>5 DEF Same, Grows
<1>3. CASE asked # <<>> /\ ~Pays(req.stmt, asked[1])
  BY <1>3, Zenon DEF Ticketed
<1> QED BY <1>1, <1>2, <1>3, Zenon

\* The gate of the time windows.
LEMMA SoundTime == ASSUME Shape, Sound, Deciding, AtTime PROVE Sound'
<1> DEFINE asked == evaluate_time_rules(Loaded, req.stmt)
<1>0. Current /\ req \in ReqRec /\ req.pc = "time" BY DEF Sound, Current, AtTime
<1>s. /\ TablePassed /\ req.stmt.command = "query" /\ CedarPassed
      /\ req.out.filter = {} /\ req.out.verdict = "allow"
  BY <1>0 DEF Sound, Staged, AfterTable, AfterCedar, Pcs
<1>f. PICK f \in req.force, c \in req.cedars :
            f.policy = Load.policy /\ f.engine = Load.engine /\ c = cedar
  BY <1>0, InForce
<1>e. asked = evaluate_time_rules(Content[f.policy], req.stmt) BY <1>f, Zenon DEF Loaded
<1>r. req' = IF asked = <<"deny">> THEN End("deny") ELSE Ticketed(asked, "risk") BY Zenon DEF AtTime
<1> HIDE DEF asked
<1>a. asked # <<>> => Asked BY <1>e, <1>f, Zenon DEF Asked, Asks
<1>b. asked # <<>> /\ ~(asked # <<"deny">> /\ Pays(req.stmt, asked[1])) => Refused
  <2>1. asked # <<>> /\ ~(asked # <<"deny">> /\ Pays(req.stmt, asked[1])) => Refuses(f, c)
    BY <1>e, <1>s, Zenon DEF Refuses
  <2> QED BY <1>f, <2>1, Zenon DEF Refused
<1>1. CASE asked = <<"deny">>
  <2>1. asked # <<>> BY <1>1
  <2> QED BY <1>1, <1>b, <1>r, <2>1, EndRefused, Zenon
<1>2. CASE asked # <<"deny">>
  <2>1. req' = Ticketed(asked, "risk") /\ "risk" \in Pcs BY <1>2, <1>r DEF Pcs
  <2>2. CASE asked # <<>> /\ ~Pays(req.stmt, asked[1]) /\ req' = End("ticket")
    BY <1>b, <2>2, EndRefused, Zenon
  <2>3. CASE /\ req' \in ReqRec /\ req'.pc = "risk" /\ req'.stmt = req.stmt /\ req'.out = req.out
             /\ Current' /\ Grows /\ backend' = backend /\ (req'.paid > 0 => Asked')
             /\ (asked = <<>> \/ req'.paid > 0)
    <3>1. TablePassed' /\ CedarPassed' BY <1>s, <2>3, GatesKept
    <3>2. f \in req'.force BY <2>3 DEF Grows
    <3>3. TimePassed' BY <1>2, <1>e, <2>3, <3>2, Zenon DEF TimePassed
    <3>4. Staged'
      BY <1>s, <2>3, <3>1, <3>3 DEF Staged, AfterTable, AfterCedar, AfterTime, AfterRisk, ToAnswer
    <3>5. DecidedInForce' BY <2>3 DEF DecidedInForce
    <3> QED BY <2>3, <3>4, <3>5, Zenon DEF Sound
  <2> QED BY <1>a, <2>1, <2>2, <2>3, TicketGate, Zenon
<1> QED BY <1>1, <1>2

\* The gate of the high-risk statements.
LEMMA SoundRisk == ASSUME Shape, Sound, Deciding, AtRisk PROVE Sound'
<1> DEFINE asked == match_high_risk(Loaded, req.stmt)
<1>0. Current /\ req \in ReqRec /\ req.pc = "risk" BY DEF Sound, Current, AtRisk
<1>s. /\ TablePassed /\ req.stmt.command = "query" /\ CedarPassed /\ TimePassed
      /\ req.out.filter = {} /\ req.out.verdict = "allow"
  BY <1>0 DEF Sound, Staged, AfterTable, AfterCedar, AfterTime, Pcs
<1>f. PICK f \in req.force, c \in req.cedars :
            f.policy = Load.policy /\ f.engine = Load.engine /\ c = cedar
  BY <1>0, InForce
<1>e. asked = match_high_risk(Content[f.policy], req.stmt) BY <1>f, Zenon DEF Loaded
<1>r. req' = Ticketed(asked, "column") /\ "column" \in Pcs BY DEF AtRisk, Pcs
<1> HIDE DEF asked
<1>a. asked # <<>> => Asked BY <1>e, <1>f, Zenon DEF Asked, Asks
<1>1. CASE asked # <<>> /\ ~Pays(req.stmt, asked[1]) /\ req' = End("ticket")
  <2>1. Refuses(f, c) BY <1>1, <1>e, <1>s, Zenon DEF Refuses
  <2>2. Refused BY <1>f, <2>1, Zenon DEF Refused
  <2> QED BY <1>1, <2>2, EndRefused, Zenon
<1>2. CASE /\ req' \in ReqRec /\ req'.pc = "column" /\ req'.stmt = req.stmt /\ req'.out = req.out
           /\ Current' /\ Grows /\ backend' = backend /\ (req'.paid > 0 => Asked')
           /\ (asked = <<>> \/ req'.paid > 0)
  <2>1. TablePassed' /\ CedarPassed' /\ TimePassed' BY <1>s, <1>2, GatesKept
  <2>2. f \in req'.force BY <1>2 DEF Grows
  <2>3. RiskPassed' BY <1>e, <1>2, <2>2, Zenon DEF RiskPassed
  <2>4. Staged'
    BY <1>s, <1>2, <2>1, <2>3 DEF Staged, AfterTable, AfterCedar, AfterTime, AfterRisk, ToAnswer
  <2>5. DecidedInForce' BY <1>2 DEF DecidedInForce
  <2> QED BY <1>2, <2>4, <2>5, Zenon DEF Sound
<1> QED BY <1>a, <1>r, <1>1, <1>2, TicketGate, Zenon

(* The request on its way to the result: the cap of the first snapshot is on it. *)
Capped(r) ==
  /\ r \in ReqRec /\ Same(req, r) /\ r.paid = req.paid
  /\ r.pc = IF req.stmt.action = "select" THEN "filter" ELSE "done"
  /\ r.out.max_rows = Content[req.p].max_rows
  /\ r.out.filter = req.out.filter /\ r.out.verdict = req.out.verdict

\* ToResult puts it there.
LEMMA ResultFields ==
  ASSUME req \in ReqRec
  PROVE  Capped(ToResult)
<1> DEFINE o == [req.out EXCEPT !.max_rows = Content[req.p].max_rows]
           c == [req EXCEPT !.out = o]
<1>1. req.out \in OutRec /\ req.p \in Policies BY DEF ReqRec
<1>2. Content[req.p].max_rows \in Caps BY <1>1 DEF Caps
<1>3. /\ o \in OutRec /\ o.max_rows = Content[req.p].max_rows /\ o.filter = req.out.filter
      /\ o.verdict = req.out.verdict
  BY <1>1, <1>2 DEF OutRec
<1>4. ToResult = IF req.stmt.action = "select" THEN [c EXCEPT !.pc = "filter"] ELSE [c EXCEPT !.pc = "done"]
  BY DEF ToResult
<1> HIDE DEF o
<1>5. c \in ReqRec /\ Same(req, c) /\ c.paid = req.paid /\ c.out = o
  BY <1>3 DEF ReqRec, Same
<1> HIDE DEF c
<1>6. ASSUME NEW x \in {"filter", "done"}
      PROVE  /\ [c EXCEPT !.pc = x] \in ReqRec /\ Same(req, [c EXCEPT !.pc = x])
             /\ [c EXCEPT !.pc = x].paid = req.paid /\ [c EXCEPT !.pc = x].pc = x
             /\ [c EXCEPT !.pc = x].out = o
  BY <1>5 DEF ReqRec, Same, Pcs
<1>7. CASE req.stmt.action = "select" BY <1>3, <1>4, <1>6, <1>7 DEF Capped
<1>8. CASE req.stmt.action # "select" BY <1>3, <1>4, <1>6, <1>8 DEF Capped
<1> QED BY <1>7, <1>8

\* The column gate may have rewritten the SELECT list.
LEMMA RewrittenFields ==
  ASSUME req \in ReqRec, NEW b \in BOOLEAN
  PROVE  Capped([ToResult EXCEPT !.out.rewritten = b])
<1> DEFINE c == ToResult
           o == [c.out EXCEPT !.rewritten = b]
           r == [c EXCEPT !.out = o]
<1>1. Capped(c) BY ResultFields
<1> HIDE DEF c
<1>2. c \in ReqRec /\ c.out \in OutRec BY <1>1 DEF Capped, ReqRec
<1>3. /\ o \in OutRec /\ o.max_rows = c.out.max_rows /\ o.filter = c.out.filter
      /\ o.verdict = c.out.verdict
  BY <1>2 DEF OutRec
<1>4. [c EXCEPT !.out.rewritten = b] = r OBVIOUS
<1> HIDE DEF o
<1>5. r \in ReqRec /\ Same(c, r) /\ r.paid = c.paid /\ r.pc = c.pc /\ r.out = o
  BY <1>2, <1>3 DEF ReqRec, Same
<1> HIDE DEF r
<1>6. Capped(r) BY <1>1, <1>3, <1>5 DEF Capped, Same
<1> QED BY <1>4, <1>6 DEF c

\* A statement that has passed every gate but those of the result.
LEMMA SoundResult ==
  ASSUME Sound, Deciding, req.pc \in {"column", "acl"}, Capped(req'), AclPassed
  PROVE  Sound'
<1>0. Current /\ req \in ReqRec BY DEF Sound, Current
<1>s. /\ TablePassed /\ req.stmt.command = "query" /\ CedarPassed /\ TimePassed /\ RiskPassed
      /\ req.out.filter = {} /\ req.out.verdict = "allow" /\ (req.paid > 0 => Asked)
  BY DEF Sound, Staged, AfterTable, AfterCedar, AfterTime, AfterRisk, Pcs
<1>1. req' \in ReqRec /\ Same(req, req') /\ req'.paid = req.paid BY DEF Capped
<1>2. req.paid <= req'.paid BY <1>0, <1>1 DEF ReqRec
<1>3. Current' /\ Grows BY <1>0, <1>1, <1>2, DecideKeeps, Zenon
<1>4. TablePassed' /\ CedarPassed' /\ TimePassed' /\ RiskPassed' /\ AclPassed' /\ (Asked => Asked')
  BY <1>s, <1>3, GatesKept
<1>5. CapInForce'
  <2>1. PICK f \in req.force : f.policy = req.p BY <1>0 DEF Current
  <2>2. f \in req'.force /\ req'.out.max_rows = Content[f.policy].max_rows
    BY <1>3, <2>1 DEF Grows, Capped
  <2> QED BY <2>2, Zenon DEF CapInForce
<1>6. /\ req'.out.filter = {} /\ req'.out.verdict = "allow" /\ req'.stmt = req.stmt
      /\ req'.pc \in {"filter", "done"} /\ (req'.pc = "done" => req.stmt.action # "select")
  BY <1>s DEF Capped, Same
<1>7. req'.paid > 0 => Asked' BY <1>s, <1>1, <1>4, Zenon
<1>8. Staged'
  BY <1>s, <1>4, <1>5, <1>6, <1>7 DEF Staged, AfterTable, AfterCedar, AfterTime, AfterRisk, ToAnswer
<1>9. DecidedInForce' BY <1>4, <1>5, <1>6, <1>7 DEF DecidedInForce
<1> QED BY <1>3, <1>8, <1>9, Zenon DEF Sound

\* Whether there are column rules.
LEMMA SoundColumn == ASSUME Shape, Sound, Deciding, AtColumn PROVE Sound'
<1>0. Current /\ req \in ReqRec /\ req.pc = "column" BY Zenon DEF Sound, Current, AtColumn
<1>s. /\ TablePassed /\ req.stmt.command = "query" /\ CedarPassed /\ TimePassed /\ RiskPassed
      /\ req.out.filter = {} /\ req.out.verdict = "allow"
  BY <1>0 DEF Sound, Staged, AfterTable, AfterCedar, AfterTime, AfterRisk, Pcs
<1>f. PICK f \in req.force, c \in req.cedars :
            f.policy = Load.policy /\ f.engine = Load.engine /\ c = cedar
  BY <1>0, InForce
<1>1. CASE ~has_column_rules(Loaded)
  <2>1. req' = ToResult BY <1>1, Zenon DEF AtColumn
  <2>2. evaluate_column_acl(Content[f.policy], req.stmt) # "deny"
    BY <1>f, <1>1, NoColumnRules, Zenon DEF Loaded
  <2>3. AclPassed BY <1>f, <2>2, Zenon DEF AclPassed
  <2>4. Capped(req') BY <1>0, <2>1, ResultFields
  <2> QED BY <1>0, <2>3, <2>4, SoundResult
<1>2. CASE has_column_rules(Loaded) /\ (req.stmt.parsed \/ req.stmt.objects # {})
  <2>1. req' = Go("acl") /\ "acl" \in Pcs BY <1>2 DEF AtColumn, Pcs
  <2>2. /\ req' \in ReqRec /\ req'.pc = "acl" /\ req'.stmt = req.stmt /\ req'.out = req.out
        /\ Current' /\ Grows /\ backend' = backend /\ (req'.paid > 0 => Asked')
    BY <2>1, GoesOn
  <2>3. TablePassed' /\ CedarPassed' /\ TimePassed' /\ RiskPassed' BY <1>s, <2>2, GatesKept
  <2>4. req'.stmt.parsed \/ req'.stmt.objects # {} BY <1>2, <2>2
  <2>5. Staged'
    BY <1>s, <2>2, <2>3, <2>4 DEF Staged, AfterTable, AfterCedar, AfterTime, AfterRisk, ToAnswer
  <2>6. DecidedInForce' BY <2>2 DEF DecidedInForce
  <2> QED BY <2>2, <2>5, <2>6, Zenon DEF Sound
<1>3. CASE has_column_rules(Loaded) /\ ~(req.stmt.parsed \/ req.stmt.objects # {})
  <2>1. CASE Content[req.p].fail_closed
    <3>1. req' = End("deny") BY <1>3, <2>1, Zenon DEF AtColumn
    <3>2. FailsClosed(f) BY <1>3, <1>s, <2>1 DEF FailsClosed
    <3>3. Refused BY <1>f, <3>2, Zenon DEF Refused
    <3> QED BY <3>1, <3>3, EndRefused
  <2>2. CASE ~Content[req.p].fail_closed
    <3>1. req' = ToResult BY <1>3, <2>2, Zenon DEF AtColumn
    <3>2. AclPassed BY <1>3 DEF AclPassed
    <3>3. Capped(req') BY <1>0, <3>1, ResultFields
    <3> QED BY <1>0, <3>2, <3>3, SoundResult
  <2> QED BY <2>1, <2>2
<1> QED BY <1>1, <1>2, <1>3

\* The column gate.
LEMMA SoundAcl == ASSUME Shape, Sound, Deciding, AtAcl PROVE Sound'
<1> DEFINE acl == evaluate_column_acl(Loaded, req.stmt)
<1>0. Current /\ req \in ReqRec /\ req.pc = "acl" BY DEF Sound, Current, AtAcl
<1>s. req.stmt.command = "query" /\ (req.stmt.parsed \/ req.stmt.objects # {})
  BY <1>0 DEF Sound, Staged, AfterTable, Pcs
<1>f. PICK f \in req.force, c \in req.cedars :
            f.policy = Load.policy /\ f.engine = Load.engine /\ c = cedar
  BY <1>0, InForce
<1>e. acl = evaluate_column_acl(Content[f.policy], req.stmt) BY <1>f, Zenon DEF Loaded
<1>1. CASE acl = "deny"
  <2>1. has_column_rules(Content[f.policy]) BY <1>1, <1>e, NoColumnRules, Zenon
  <2>2. Refuses(f, c) BY <1>1, <1>e, <1>s, <2>1, Zenon DEF Refuses
  <2>3. Refused BY <1>f, <2>2, Zenon DEF Refused
  <2>4. req' = End("deny") BY <1>1, Zenon DEF AtAcl
  <2> QED BY <2>3, <2>4, EndRefused
<1>2. CASE acl # "deny"
  <2>1. req' = [ToResult EXCEPT !.out.rewritten = (acl = "rewrite")] BY <1>2, Zenon DEF AtAcl
  <2>2. (acl = "rewrite") \in BOOLEAN OBVIOUS
  <2>3. AclPassed BY <1>2, <1>e, <1>f, Zenon DEF AclPassed
  <2> HIDE DEF acl
  <2>4. Capped(req') BY <1>0, <2>1, <2>2, RewrittenFields, Zenon
  <2> QED BY <1>0, <2>3, <2>4, SoundResult
<1> QED BY <1>1, <1>2

\* The gate of the row filter.
LEMMA SoundFilter == ASSUME Shape, Sound, Deciding, AtFilter PROVE Sound'
<1> DEFINE filter == collect_row_filter(Loaded, req.stmt)
<1>0. Current /\ req \in ReqRec /\ req.pc = "filter" BY DEF Sound, Current, AtFilter
<1>s. /\ TablePassed /\ req.stmt.command = "query" /\ CedarPassed /\ TimePassed /\ RiskPassed
      /\ AclPassed /\ CapInForce /\ req.out.filter = {} /\ req.out.verdict = "allow"
      /\ (req.paid > 0 => Asked)
  BY <1>0 DEF Sound, Staged, AfterTable, AfterCedar, AfterTime, AfterRisk, ToAnswer, Pcs
<1>f. PICK f \in req.force, c \in req.cedars :
            f.policy = Load.policy /\ f.engine = Load.engine /\ c = cedar
  BY <1>0, InForce
<1>e. filter = collect_row_filter(Content[f.policy], req.stmt) BY <1>f, Zenon DEF Loaded
<1>t. filter \in Filters
  <2>1. f.policy \in Policies /\ req.stmt \in Stmts BY <1>0, <1>f DEF ReqRec, Snaps
  <2> QED BY <1>e, <2>1 DEF Filters
<1>r. req' = IF filter = {} THEN Go("mask")
             ELSE IF req.stmt.filterable THEN [Go("mask") EXCEPT !.out.filter = filter]
             ELSE IF Content[req.p].fail_closed THEN End("deny") ELSE Go("mask")
  BY Zenon DEF AtFilter
<1> HIDE DEF filter
<1>m. "mask" \in Pcs BY DEF Pcs
<1>1. ASSUME req' \in ReqRec, req'.pc = "mask", Same(req, req'), req'.paid = req.paid,
             req'.out.max_rows = req.out.max_rows, req'.out.verdict = req.out.verdict,
             req.stmt.filterable => req'.out.filter = filter
      PROVE  Sound'
  <2>1. req.paid <= req'.paid BY <1>0, <1>1 DEF ReqRec
  <2>2. Current' /\ Grows BY <1>0, <1>1, <2>1, DecideKeeps, Zenon
  <2>3. /\ TablePassed' /\ CedarPassed' /\ TimePassed' /\ RiskPassed' /\ AclPassed'
        /\ (Asked => Asked')
    BY <1>s, <2>2, GatesKept
  <2>4. CapInForce' BY <1>1, <1>s, <2>2, BoundsKept
  <2>5. req'.stmt = req.stmt /\ f \in req'.force BY <1>1 DEF Same
  <2>6. FilterInForce' BY <1>1, <1>e, <2>5 DEF FilterInForce
  <2>7. req'.paid > 0 => Asked' BY <1>s, <1>1, <2>3
  <2>8. Staged'
    BY <1>s, <1>1, <2>3, <2>4, <2>5, <2>6, <2>7, Zenon
       DEF Staged, AfterTable, AfterCedar, AfterTime, AfterRisk, ToAnswer
  <2>9. DecidedInForce' BY <1>1 DEF DecidedInForce
  <2> QED BY <2>2, <2>8, <2>9, Zenon DEF Sound
<1>g. /\ Go("mask") \in ReqRec /\ Go("mask").pc = "mask" /\ Same(req, Go("mask"))
      /\ Go("mask").paid = req.paid /\ Go("mask").out = req.out
  BY <1>0, <1>m, GoFields
<1>2. CASE req' = Go("mask") /\ (req.stmt.filterable => filter = {})
  BY <1>1, <1>2, <1>g, <1>s
<1>3. CASE req' = [Go("mask") EXCEPT !.out.filter = filter]
  <2> DEFINE o == [req.out EXCEPT !.filter = filter]
  <2>1. req.out \in OutRec BY <1>0 DEF ReqRec
  <2>2. /\ o \in OutRec /\ o.filter = filter /\ o.max_rows = req.out.max_rows
        /\ o.verdict = req.out.verdict
    BY <1>t, <2>1 DEF OutRec
  <2>3. req' = [Go("mask") EXCEPT !.out = o] BY <1>3, <1>g
  <2> HIDE DEF o
  <2>4. /\ req' \in ReqRec /\ req'.pc = "mask" /\ Same(req, req') /\ req'.paid = req.paid /\ req'.out = o
    BY <1>g, <2>2, <2>3 DEF ReqRec, Same
  <2> QED BY <1>1, <2>2, <2>4
<1>4. CASE /\ req' = End("deny") /\ filter # {} /\ ~req.stmt.filterable /\ Content[req.p].fail_closed
  <2>1. FailsClosed(f) BY <1>4, <1>e, <1>s DEF FailsClosed
  <2>2. Refused BY <1>f, <2>1, Zenon DEF Refused
  <2> QED BY <1>4, <2>2, EndRefused
<1> QED BY <1>r, <1>2, <1>3, <1>4, Zenon

\* The masks.
LEMMA SoundMask == ASSUME Shape, Sound, Deciding, AtMask PROVE Sound'
<1> DEFINE masks == collect_mask_specs(Loaded, req.stmt)
           o == [req.out EXCEPT !.masks = masks]
<1>0. Current /\ req \in ReqRec /\ req.pc = "mask" BY DEF Sound, Current, AtMask
<1>s. /\ TablePassed /\ req.stmt.command = "query" /\ CedarPassed /\ TimePassed /\ RiskPassed
      /\ AclPassed /\ CapInForce /\ FilterInForce /\ req.out.verdict = "allow"
      /\ (req.paid > 0 => Asked)
  BY <1>0 DEF Sound, Staged, AfterTable, AfterCedar, AfterTime, AfterRisk, ToAnswer, Pcs
<1>f. PICK f \in req.force, c \in req.cedars :
            f.policy = Load.policy /\ f.engine = Load.engine /\ c = cedar
  BY <1>0, InForce
<1>e. masks = collect_mask_specs(Content[f.policy], req.stmt) BY <1>f, Zenon DEF Loaded
<1>t. masks \in Masks
  <2>1. f.policy \in Policies /\ req.stmt \in Stmts BY <1>0, <1>f DEF ReqRec, Snaps
  <2> QED BY <1>e, <2>1 DEF Masks
<1>r. req' = [Go("watermark") EXCEPT !.out.masks = masks] BY Zenon DEF AtMask
<1> HIDE DEF masks
<1>m. "watermark" \in Pcs BY DEF Pcs
<1>g. /\ Go("watermark") \in ReqRec /\ Go("watermark").pc = "watermark" /\ Same(req, Go("watermark"))
      /\ Go("watermark").paid = req.paid /\ Go("watermark").out = req.out
  BY <1>0, <1>m, GoFields
<1>1. req.out \in OutRec BY <1>0 DEF ReqRec
<1>2. /\ o \in OutRec /\ o.masks = masks /\ o.filter = req.out.filter
      /\ o.max_rows = req.out.max_rows /\ o.verdict = req.out.verdict
  BY <1>t, <1>1 DEF OutRec
<1>3. req' = [Go("watermark") EXCEPT !.out = o] BY <1>r, <1>g
<1> HIDE DEF o
<1>4. /\ req' \in ReqRec /\ req'.pc = "watermark" /\ Same(req, req') /\ req'.paid = req.paid
      /\ req'.out = o
  BY <1>g, <1>2, <1>3 DEF ReqRec, Same
<1>5. req.paid <= req'.paid BY <1>0, <1>4 DEF ReqRec
<1>6. Current' /\ Grows BY <1>0, <1>4, <1>5, DecideKeeps, Zenon
<1>7. /\ TablePassed' /\ CedarPassed' /\ TimePassed' /\ RiskPassed' /\ AclPassed'
      /\ (Asked => Asked')
  BY <1>s, <1>6, GatesKept
<1>8. CapInForce' /\ FilterInForce' BY <1>s, <1>2, <1>4, <1>6, BoundsKept
<1>9. req'.stmt = req.stmt /\ f \in req'.force BY <1>4 DEF Same
<1>10. MasksKept' BY <1>e, <1>2, <1>4, <1>9 DEF MasksKept
<1>11. req'.paid > 0 => Asked' BY <1>s, <1>4, <1>7
<1>12. req'.out.verdict = "allow" BY <1>s, <1>2, <1>4
<1>13. Staged'
  BY <1>s, <1>4, <1>7, <1>8, <1>9, <1>10, <1>11, <1>12
     DEF Staged, AfterTable, AfterCedar, AfterTime, AfterRisk, ToAnswer
<1>14. DecidedInForce' BY <1>4 DEF DecidedInForce
<1> QED BY <1>6, <1>13, <1>14, Zenon DEF Sound

\* The watermark, and the end of an allowed SELECT.
LEMMA SoundWatermark == ASSUME Shape, Sound, Deciding, AtWatermark PROVE Sound'
<1> DEFINE e == End("allow")
           o == [e.out EXCEPT !.watermark = Loaded.watermark]
<1>0. Current /\ req \in ReqRec /\ req.pc = "watermark" BY DEF Sound, Current, AtWatermark
<1>s. /\ TablePassed /\ req.stmt.command = "query" /\ CedarPassed /\ TimePassed /\ RiskPassed
      /\ AclPassed /\ CapInForce /\ FilterInForce /\ MasksKept /\ (req.paid > 0 => Asked)
  BY <1>0 DEF Sound, Staged, AfterTable, AfterCedar, AfterTime, AfterRisk, ToAnswer, Pcs
<1>f. PICK f \in req.force, c \in req.cedars :
            f.policy = Load.policy /\ f.engine = Load.engine /\ c = cedar
  BY <1>0, InForce
<1>w. Loaded.watermark = Content[f.policy].watermark BY <1>f, Zenon DEF Loaded
<1>t. Loaded.watermark \in Watermarks
  <2>1. f.policy \in Policies BY <1>0, <1>f DEF ReqRec, Snaps
  <2> QED BY <1>w, <2>1, Zenon DEF Watermarks
<1>r. req' = [e EXCEPT !.out.watermark = Loaded.watermark] BY Zenon DEF AtWatermark
<1>g. /\ e \in ReqRec /\ e.pc = "done" /\ Same(req, e) /\ e.paid = req.paid
      /\ e.out.verdict = "allow" /\ e.out.filter = req.out.filter /\ e.out.masks = req.out.masks
      /\ e.out.max_rows = req.out.max_rows
  BY <1>0, EndFields
<1> HIDE DEF e
<1>1. e.out \in OutRec BY <1>g DEF ReqRec
<1>2. /\ o \in OutRec /\ o.masks = e.out.masks /\ o.filter = e.out.filter
      /\ o.max_rows = e.out.max_rows /\ o.verdict = e.out.verdict
  BY <1>t, <1>1 DEF OutRec
<1>u. o.watermark = Loaded.watermark BY <1>1, Zenon DEF OutRec
<1>3. req' = [e EXCEPT !.out = o] BY <1>r, <1>g
<1> HIDE DEF o
<1>4. req' \in ReqRec /\ req'.pc = "done" /\ Same(e, req') /\ req'.paid = e.paid /\ req'.out = o
  BY <1>g, <1>2, <1>3 DEF ReqRec, Same
<1>5. Same(req, req') /\ req'.paid = req.paid BY <1>4, <1>g DEF Same
<1>6. req.paid <= req'.paid BY <1>0, <1>5 DEF ReqRec
<1>7. Current' /\ Grows BY <1>0, <1>4, <1>5, <1>6, DecideKeeps, Zenon
<1>8. /\ TablePassed' /\ CedarPassed' /\ TimePassed' /\ RiskPassed' /\ AclPassed'
      /\ (Asked => Asked')
  BY <1>s, <1>7, GatesKept
<1>9. CapInForce' /\ FilterInForce' /\ MasksKept'
  BY <1>s, <1>2, <1>4, <1>g, <1>7, BoundsKept
<1>10. f \in req'.force BY <1>5 DEF Same
<1>11. WatermarkInForce' BY <1>w, <1>u, <1>4, <1>10, Zenon DEF WatermarkInForce
<1>12. req'.paid > 0 => Asked' BY <1>s, <1>5, <1>8
<1>13. req'.out.verdict = "allow" BY <1>2, <1>4, <1>g
<1>14. Staged' BY <1>4, <1>12, Zenon DEF Staged, AfterTable, AfterCedar, AfterTime, AfterRisk, ToAnswer
<1>15. DecidedInForce' BY <1>8, <1>9, <1>11, <1>12, <1>13, Zenon DEF DecidedInForce
<1> QED BY <1>7, <1>14, <1>15, Zenon DEF Sound

(* The request that has just arrived, decided at once or sent to the gates. *)
First(r) ==
  /\ r \in ReqRec /\ r.p = Load.policy /\ r.force = {Snapshot(store[Here])} /\ r.cedars = {cedar}
  /\ r.paid = 0 /\ r.out.filter = {}

\* The request before the first gate.
LEMMA FirstFields ==
  ASSUME Shape, NEW s \in Stmts
  PROVE  LET r == [pc |-> "table", stmt |-> s, p |-> Load.policy, force |-> {Snapshot(store[Here])},
                   cedars |-> {cedar}, paid |-> 0, out |-> Allow]
         IN  First(r) /\ r.stmt = s /\ r.pc = "table" /\ r.out = Allow
<1> DEFINE n == Snapshot(store[Here])
           r == [pc |-> "table", stmt |-> s, p |-> Load.policy, force |-> {n}, cedars |-> {cedar},
                 paid |-> 0, out |-> Allow]
<1>1. store[Here] \in StoreRec /\ cedar \in Cedars BY HereAssumption DEF Shape
<1>2. n \in Snaps /\ Load.policy \in Policies BY <1>1 DEF Snapshot, Snaps, StoreRec, Load
<1>3. Allow \in OutRec BY DEF Allow, OutRec, Filters, Masks, Caps, Watermarks
<1>4. Allow.filter = {} BY DEF Allow
<1> HIDE DEF n
<1>5. r \in ReqRec BY <1>1, <1>2, <1>3 DEF ReqRec, Pcs
<1>6. /\ r.p = Load.policy /\ r.force = {n} /\ r.cedars = {cedar} /\ r.paid = 0 /\ r.stmt = s
      /\ r.pc = "table" /\ r.out = Allow
  OBVIOUS
<1> HIDE DEF r
<1>7. First(r) BY <1>4, <1>5, <1>6, Zenon DEF First, n
<1> QED BY <1>6, <1>7, Zenon DEF r, n

\* The first snapshot is current.
LEMMA FirstCurrent ==
  ASSUME Shape, Deciding, First(req')
  PROVE  Current' /\ ~(req'.paid > 0)
<1>1. store' = store /\ cedar' = cedar BY Zenon DEF Deciding
<1>2. Snapshot(store'[Here]) \in req'.force /\ cedar' \in req'.cedars BY <1>1, Zenon DEF First
<1>3. Snapshot(store[Here]).policy = req'.p BY Zenon DEF First, Snapshot, Load
<1>4. \E f \in req'.force : f.policy = req'.p BY <1>3, Zenon DEF First
<1>5. Current' BY <1>2, <1>4, Zenon DEF First, Current
<1>6. ~(req'.paid > 0) BY DEF First
<1> QED BY <1>5, <1>6

\* A statement arrives.
LEMMA SoundBegin == ASSUME Shape, Deciding, Begin PROVE Sound' /\ req'.pc # "idle"
<1> DEFINE r(s) == [pc |-> "table", stmt |-> s, p |-> Load.policy, force |-> {Snapshot(store[Here])},
                    cedars |-> {cedar}, paid |-> 0, out |-> Allow]
           ends(s, v, rows) == [r(s) EXCEPT !.pc = "done", !.out.verdict = v, !.out.max_rows = rows]
<1>1. PICK s \in Statements[backend] :
         req' = CASE s.command = "control" -> ends(s, "allow", <<>>)
                  [] s.command = "execute" ->
                       IF Loaded.fail_closed THEN ends(s, "deny", <<>>)
                       ELSE ends(s, "allow", Loaded.max_rows)
                  [] /\ s.command = "query" /\ Loaded.fail_closed
                     /\ s.action = None \/ (~s.parsed /\ s.objects = {}) -> ends(s, "deny", <<>>)
                  [] OTHER -> [r(s) EXCEPT !.stmt.action = IF @ = None THEN "other" ELSE @]
  BY Zenon DEF Begin
<1>2. s \in Arrived /\ s \in Stmts BY DEF Shape, Arrived, Stmts
<1>3. First(r(s)) /\ r(s).stmt = s /\ r(s).pc = "table" /\ r(s).out = Allow
  BY <1>2, FirstFields, Zenon
<1>w. Load.policy \in Policies
  <2>1. store[Here] \in StoreRec BY HereAssumption DEF Shape
  <2> QED BY <2>1 DEF Load, StoreRec
<1>x. <<>> \in Caps /\ Loaded.max_rows \in Caps BY <1>w DEF Caps, Loaded
<1> HIDE DEF r
<1>4. ASSUME NEW v \in {"allow", "deny"}, NEW rows \in Caps
      PROVE  /\ First(ends(s, v, rows)) /\ ends(s, v, rows).stmt = s
             /\ ends(s, v, rows).pc = "done" /\ ends(s, v, rows).out.verdict = v
  <2> DEFINE o == [r(s).out EXCEPT !.verdict = v, !.max_rows = rows]
             e == [r(s) EXCEPT !.pc = "done", !.out = o]
  <2>1. r(s) \in ReqRec /\ r(s).out \in OutRec BY <1>3, Zenon DEF First, ReqRec
  <2>2. o \in OutRec /\ o.verdict = v /\ o.filter = r(s).out.filter BY <2>1, Zenon DEF OutRec
  <2>3. ends(s, v, rows) = e OBVIOUS
  <2> HIDE DEF o
  <2>4. /\ e \in ReqRec /\ e.pc = "done" /\ Same(r(s), e) /\ e.paid = r(s).paid /\ e.out = o
    BY <2>1, <2>2, Zenon DEF ReqRec, Same, Pcs
  <2> HIDE DEF e
  <2>5. First(e) /\ e.stmt = s BY <1>3, <2>2, <2>4 DEF First, Same
  <2> QED BY <2>2, <2>3, <2>4, <2>5, Zenon
<1>5. ASSUME NEW v \in {"allow", "deny"}, NEW rows \in Caps, req' = ends(s, v, rows),
             \/ s.command \in {"control", "execute"}
             \/ /\ v = "deny" /\ s.command = "query" /\ Loaded.fail_closed
                /\ s.action = None \/ (~s.parsed /\ s.objects = {})
      PROVE  Sound' /\ req'.pc # "idle"
  <2>1. First(req') /\ req'.stmt = s /\ req'.pc = "done" /\ req'.out.verdict = v
    BY <1>4, <1>5, Zenon
  <2>2. Current' /\ ~(req'.paid > 0) BY <2>1, FirstCurrent
  <2>3. Staged' BY <2>1, <2>2 DEF Staged, AfterTable, AfterCedar, AfterTime, AfterRisk, ToAnswer
  <2>4. CASE s.command \in {"control", "execute"}
    <3>1. DecidedInForce' BY <2>1, <2>4 DEF DecidedInForce
    <3> QED BY <2>1, <2>2, <2>3, <3>1 DEF Sound
  <2>5. CASE /\ v = "deny" /\ s.command = "query" /\ Loaded.fail_closed
             /\ s.action = None \/ (~s.parsed /\ s.objects = {})
    <3>1. Content[req'.p].fail_closed BY <2>1, <2>5, Zenon DEF First, Loaded
    <3>2. \A f : FailsClosed(f)' BY <2>1, <2>5, <3>1, Zenon DEF FailsClosed
    <3>3. Snapshot(store[Here]) \in req'.force /\ cedar \in req'.cedars BY <2>1 DEF First
    <3>4. Refused' BY <3>2, <3>3, Zenon DEF Refused
    <3>5. DecidedInForce' BY <2>1, <2>2, <2>5, <3>4 DEF DecidedInForce
    <3> QED BY <2>1, <2>2, <2>3, <3>5 DEF Sound
  <2> QED BY <1>5, <2>4, <2>5
<1>6. CASE req' = [r(s) EXCEPT !.stmt.action = IF @ = None THEN "other" ELSE @]
  <2> DEFINE a == IF s.action = None THEN "other" ELSE s.action
             m == [s EXCEPT !.action = a]
             e == [r(s) EXCEPT !.stmt = m]
  <2>1. m \in Stmts BY <1>2 DEF Stmts
  <2>2. req' = e BY <1>3, <1>6
  <2> HIDE DEF m
  <2>3. r(s) \in ReqRec BY <1>3 DEF First
  <2>4. /\ e \in ReqRec /\ e.pc = "table" /\ e.p = r(s).p /\ e.force = r(s).force
        /\ e.cedars = r(s).cedars /\ e.paid = r(s).paid /\ e.out = Allow
    BY <1>3, <2>1, <2>3 DEF ReqRec
  <2> HIDE DEF e
  <2>5. First(req') /\ req'.pc = "table" /\ req'.out = Allow BY <1>3, <2>2, <2>4 DEF First
  <2>6. Current' /\ ~(req'.paid > 0) BY <2>5, FirstCurrent
  <2>7. Allow.verdict = "allow" /\ Allow.filter = {} BY DEF Allow
  <2>8. Staged' BY <2>5, <2>6, <2>7 DEF Staged, AfterTable, AfterCedar, AfterTime, AfterRisk, ToAnswer
  <2>9. DecidedInForce' BY <2>5 DEF DecidedInForce
  <2> QED BY <2>5, <2>6, <2>8, <2>9 DEF Sound
<1> HIDE DEF ends
<1>7. CASE s.command = "control"
  <2>1. req' = ends(s, "allow", <<>>) BY <1>1, <1>7
  <2> QED BY <1>5, <1>7, <1>x, <2>1
<1>8. CASE s.command = "execute"
  <2>1. req' = IF Loaded.fail_closed THEN ends(s, "deny", <<>>) ELSE ends(s, "allow", Loaded.max_rows)
    BY <1>1, <1>8
  <2> QED BY <1>5, <1>8, <1>x, <2>1
<1>9. CASE /\ s.command = "query" /\ Loaded.fail_closed
           /\ s.action = None \/ (~s.parsed /\ s.objects = {})
  <2>1. req' = ends(s, "deny", <<>>) BY <1>1, <1>9
  <2> QED BY <1>5, <1>9, <1>x, <2>1
<1> QED BY <1>1, <1>6, <1>7, <1>8, <1>9

\* A reload, a swap or nothing happens to a request in hand.
LEMMA SoundElsewhere ==
  ASSUME Sound, backend' = backend, req' \in ReqRec, req'.pc = req.pc, req'.stmt = req.stmt,
         req'.p = req.p, req'.out = req.out, req'.paid = req.paid,
         req.force \subseteq req'.force, req.cedars \subseteq req'.cedars,
         Snapshot(store'[Here]) \in req'.force, cedar' \in req'.cedars
  PROVE  Sound'
<1>1. req.paid \in Nat BY DEF Sound, Current, ReqRec
<1>2. Grows BY <1>1 DEF Grows
<1>3. Staged' /\ DecidedInForce' BY <1>2, SoundGrows DEF Sound
<1>4. \E f \in req'.force : f.policy = req'.p BY Zenon DEF Sound, Current
<1>5. Current' BY <1>4, Zenon DEF Current
<1> QED BY <1>3, <1>5 DEF Sound

\* It stays as it is when neither the snapshot nor the Cedar store changes.
LEMMA SoundUntouched ==
  ASSUME Sound, UNCHANGED <<backend, req, cedar>>, Snapshot(store'[Here]) = Snapshot(store[Here])
  PROVE  Sound'
<1>1. req \in ReqRec /\ Snapshot(store[Here]) \in req.force /\ cedar \in req.cedars
  BY DEF Sound, Current
<1>2. Snapshot(store'[Here]) \in req'.force /\ cedar' \in req'.cedars BY <1>1
<1> QED BY <1>1, <1>2, SoundElsewhere

\* A reload of the Cedar store joins what was in force.
LEMMA SoundCedars ==
  ASSUME Sound, cedar' \in Cedars, req' = [req EXCEPT !.cedars = @ \cup {cedar'}],
         backend' = backend, Snapshot(store'[Here]) = Snapshot(store[Here])
  PROVE  Sound'
<1>1. req \in ReqRec /\ Snapshot(store[Here]) \in req.force BY DEF Sound, Current
<1> DEFINE r == [req EXCEPT !.cedars = @ \cup {cedar'}]
<1>2. /\ r \in ReqRec /\ r.pc = req.pc /\ r.stmt = req.stmt /\ r.p = req.p /\ r.out = req.out
      /\ r.paid = req.paid /\ r.force = req.force /\ r.cedars = req.cedars \cup {cedar'}
  BY <1>1 DEF ReqRec
<1>3. req' = r OBVIOUS
<1> HIDE DEF r
<1>4. cedar' \in req'.cedars /\ req.cedars \subseteq req'.cedars BY <1>2, <1>3
<1>5. Snapshot(store'[Here]) \in req'.force BY <1>1, <1>2, <1>3, Zenon
<1> QED BY <1>2, <1>3, <1>4, <1>5, SoundElsewhere

\* A new snapshot joins what was in force, and with it what Cedar holds now.
LEMMA SoundForce ==
  ASSUME Sound, NEW n \in Snaps, Snapshot(store'[Here]) = n, cedar' \in Cedars, backend' = backend,
         req' = [[req EXCEPT !.force = @ \cup {n}] EXCEPT !.cedars = @ \cup {cedar'}]
  PROVE  Sound'
<1>1. req \in ReqRec BY DEF Sound, Current
<1> DEFINE f == [req EXCEPT !.force = @ \cup {n}]
           r == [f EXCEPT !.cedars = @ \cup {cedar'}]
<1>2. /\ f \in ReqRec /\ f.pc = req.pc /\ f.stmt = req.stmt /\ f.p = req.p /\ f.out = req.out
      /\ f.paid = req.paid /\ f.force = req.force \cup {n} /\ f.cedars = req.cedars
  BY <1>1 DEF ReqRec
<1> HIDE DEF f
<1>3. /\ r \in ReqRec /\ r.pc = f.pc /\ r.stmt = f.stmt /\ r.p = f.p /\ r.out = f.out
      /\ r.paid = f.paid /\ r.force = f.force /\ r.cedars = f.cedars \cup {cedar'}
  BY <1>2 DEF ReqRec
<1>4. req' = r BY DEF f
<1> HIDE DEF r
<1>5. Snapshot(store'[Here]) \in req'.force /\ req.force \subseteq req'.force BY <1>2, <1>3, <1>4
<1>6. cedar' \in req'.cedars /\ req.cedars \subseteq req'.cedars BY <1>2, <1>3, <1>4
<1>7. /\ req' \in ReqRec /\ req'.pc = req.pc /\ req'.stmt = req.stmt /\ req'.p = req.p
      /\ req'.out = req.out /\ req'.paid = req.paid
  BY <1>2, <1>3, <1>4
<1> QED BY <1>5, <1>6, <1>7, SoundElsewhere

DecideInv == Shape /\ (req.pc # "idle" => Sound)

\* One gate after the other.
LEMMA DecideAuthorize ==
  ASSUME DecideInv, Shape', Authorize
  PROVE  DecideInv'
<1>0. Shape /\ (req.pc # "idle" => Sound) BY DEF DecideInv
<1>1. Deciding BY AuthorizeOnly
<1>2. CASE Begin
  <2>1. Sound' /\ req'.pc # "idle" BY <1>0, <1>1, <1>2, SoundBegin
  <2> QED BY <2>1, Zenon DEF DecideInv
<1>3. CASE Answer
  <2>1. req'.pc = "idle" BY <1>3 DEF Answer, NoRequest
  <2> QED BY <2>1, Zenon DEF DecideInv
<1>4. CASE \/ AtTable \/ AtCedar \/ AtRemote \/ AtTime \/ AtRisk \/ AtColumn \/ AtAcl
           \/ AtFilter \/ AtMask \/ AtWatermark
  <2>1. req.pc # "idle"
    <3>1. AtTable \/ AtCedar \/ AtRemote \/ AtTime \/ AtRisk => req.pc # "idle"
      BY Zenon DEF AtTable, AtCedar, AtRemote, AtTime, AtRisk
    <3>2. AtColumn \/ AtAcl \/ AtFilter \/ AtMask \/ AtWatermark => req.pc # "idle"
      BY DEF AtColumn, AtAcl, AtFilter, AtMask, AtWatermark
    <3> QED BY <1>4, <3>1, <3>2
  <2>2. Sound'
    BY <1>0, <1>1, <1>4, <2>1, SoundTable, SoundCedar, SoundRemote, SoundTime, SoundRisk,
       SoundColumn, SoundAcl, SoundFilter, SoundMask, SoundWatermark, Zenon
  <2> QED BY <2>2, Zenon DEF DecideInv
<1> QED BY <1>2, <1>3, <1>4, Zenon DEF Authorize

\* The snapshot that a swap makes current.
LEMMA SwapSnapshot ==
  ASSUME Shape, NEW t \in Threads, Swap(t)
  PROVE  \E e \in BOOLEAN :
            /\ Snapshot(store'[t[1]]) = [policy |-> thread[t].policy, engine |-> e]
            /\ req' = IF req.pc # "idle"
                      THEN [InForceNow(t[1], thread[t].policy, e) EXCEPT !.cedars = @ \cup {cedar'}]
                      ELSE req
<1> DEFINE e == IF Installs(t) /\ backend = "cedar" THEN dir # <<>> ELSE thread[t].engine
           s == [store[t[1]] EXCEPT !.policy = thread[t].policy, !.engine = e]
<1>1. thread[t] \in ThreadRec /\ store[t[1]] \in StoreRec /\ t[1] \in Procs
  BY ThreadProc DEF Shape
<1>2. e \in BOOLEAN BY <1>1, Zenon DEF ThreadRec
<1>3. store' = [store EXCEPT ![t[1]].policy = thread[t].policy, ![t[1]].engine = e]
  BY Zenon DEF Swap
<1>r. req' = IF req.pc # "idle"
             THEN [InForceNow(t[1], thread[t].policy, e) EXCEPT !.cedars = @ \cup {cedar'}]
             ELSE req
  BY DEF Swap
<1> HIDE DEF e
<1>4. s.policy = thread[t].policy /\ s.engine = e BY <1>1 DEF StoreRec
<1>5. store'[t[1]] = s BY <1>1, <1>3, Zenon DEF Shape
<1> HIDE DEF s
<1>6. Snapshot(store'[t[1]]) = [policy |-> thread[t].policy, engine |-> e]
  BY <1>4, <1>5, Zenon DEF Snapshot
<1> QED BY <1>2, <1>r, <1>6, Zenon

\* What goes on with the policies while a request is decided.
LEMMA DecideJob ==
  ASSUME DecideInv, Shape', NEW t \in Threads, Job(t) \/ Install(t) \/ \E p \in Policies : Reload(t, p)
  PROVE  DecideInv'
<1>0. Shape /\ (req.pc # "idle" => Sound) /\ Here \in Procs /\ cedar' \in Cedars
  BY HereAssumption DEF DecideInv, Shape
<1>1. ASSUME UNCHANGED <<backend, store, cedar, req>> PROVE DecideInv'
  <2>1. req.pc # "idle" => Sound' BY <1>0, <1>1, SoundUntouched
  <2> QED BY <1>1, <2>1, Zenon DEF DecideInv
<1>2. ASSUME NEW p \in Policies, Reload(t, p) PROVE DecideInv'
  <2>1. UNCHANGED <<backend, store>> BY <1>0, <1>2, ReloadEffect, Zenon
  <2>2. CASE t[1] = Here /\ backend = "cedar" /\ req.pc # "idle"
    <3>1. cedar' = CedarReload(dir) /\ req' = [req EXCEPT !.cedars = @ \cup {CedarReload(dir)}]
      BY <1>2, <2>2, Zenon DEF Reload
    <3>2. req' = [req EXCEPT !.cedars = @ \cup {cedar'}] BY <3>1, Zenon
    <3>3. Sound' BY <1>0, <2>1, <2>2, <3>2, SoundCedars
    <3> QED BY <3>3, Zenon DEF DecideInv
  <2>3. CASE req.pc = "idle"
    <3>1. req' = req BY <1>2, <2>3, Zenon DEF Reload
    <3> QED BY <2>3, <3>1, Zenon DEF DecideInv
  <2>4. CASE ~(t[1] = Here /\ backend = "cedar")
    <3>1. req' = req /\ cedar' = cedar BY <1>2, <2>4, Zenon DEF Reload
    <3> QED BY <1>1, <2>1, <3>1
  <2> QED BY <2>2, <2>3, <2>4
<1>3. Refresh(t) \/ Install(t) \/ LoadFile(t) \/ Persist(t) \/ Stat(t) => UNCHANGED <<backend, store, cedar, req>>
  BY Zenon DEF Refresh, Install, LoadFile, Persist, Stat
<1>4. ASSUME Swap(t) PROVE DecideInv'
  <2>1. PICK e \in BOOLEAN :
            /\ Snapshot(store'[t[1]]) = [policy |-> thread[t].policy, engine |-> e]
            /\ req' = IF req.pc # "idle"
                      THEN [InForceNow(t[1], thread[t].policy, e) EXCEPT !.cedars = @ \cup {cedar'}]
                      ELSE req
    BY <1>0, <1>4, SwapSnapshot, Zenon
  <2>2. /\ \A q \in Procs \ {t[1]} : store'[q] = store[q]
        /\ thread[t].policy \in Policies /\ backend' = backend
    BY <1>0, <1>4, SwapEffect, Zenon
  <2>3. CASE t[1] = Here /\ req.pc # "idle"
    <3> DEFINE n == [policy |-> thread[t].policy, engine |-> e]
    <3>1. req' = [[req EXCEPT !.force = @ \cup {n}] EXCEPT !.cedars = @ \cup {cedar'}]
      BY <2>1, <2>3, Zenon DEF InForceNow
    <3>2. n \in Snaps BY <2>2 DEF Snaps
    <3>3. Snapshot(store'[Here]) = n BY <2>1, <2>3, Zenon
    <3> HIDE DEF n
    <3>4. Sound' BY <1>0, <2>2, <2>3, <3>1, <3>2, <3>3, SoundForce
    <3> QED BY <3>4, Zenon DEF DecideInv
  <2>4. CASE req.pc = "idle"
    <3>1. req' = req BY <2>1, <2>4, Zenon
    <3> QED BY <2>4, <3>1, Zenon DEF DecideInv
  <2>5. CASE t[1] # Here /\ req.pc # "idle"
    <3>1. req' = [req EXCEPT !.cedars = @ \cup {cedar'}] BY <2>1, <2>5, Zenon DEF InForceNow
    <3>2. Snapshot(store'[Here]) = Snapshot(store[Here]) BY <1>0, <2>2, <2>5
    <3>3. Sound' BY <1>0, <2>2, <2>5, <3>1, <3>2, SoundCedars
    <3> QED BY <3>3, Zenon DEF DecideInv
  <2> QED BY <2>3, <2>4, <2>5
<1>5. ASSUME Record(t) PROVE DecideInv'
  <2>1. /\ UNCHANGED <<backend, cedar, req>>
        /\ store'[t[1]].policy = store[t[1]].policy /\ store'[t[1]].engine = store[t[1]].engine
        /\ \A q \in Procs \ {t[1]} : store'[q] = store[q]
    BY <1>0, <1>5, RecordEffect, Zenon
  <2>2. Snapshot(store'[Here]) = Snapshot(store[Here])
    BY <1>0, <2>1, Zenon DEF Snapshot
  <2>3. req.pc # "idle" => Sound' BY <1>0, <2>1, <2>2, SoundUntouched
  <2> QED BY <2>1, <2>3, Zenon DEF DecideInv
<1> QED BY <1>1, <1>2, <1>3, <1>4, <1>5, Zenon DEF Job

\* A process that starts anew has no request in hand.
LEMMA DecideRestart ==
  ASSUME DecideInv, Shape', NEW t \in Threads, Restart(t)
  PROVE  DecideInv'
<1>0. Shape /\ (req.pc # "idle" => Sound) /\ Here \in Procs
  BY HereAssumption DEF DecideInv
<1>1. (\A q \in Procs \ {t[1]} : store'[q] = store[q]) /\ backend' = backend
  BY <1>0, RestartEffect, Zenon
<1>2. CASE t[1] = Here
  <2>1. req'.pc = "idle" BY <1>2 DEF Restart, NoRequest
  <2> QED BY <2>1, Zenon DEF DecideInv
<1>3. CASE t[1] # Here
  <2>1. req' = req /\ cedar' = cedar BY <1>3, Zenon DEF Restart
  <2>2. store'[Here] = store[Here] BY <1>0, <1>1, <1>3
  <2>3. req.pc # "idle" => Sound' BY <1>0, <1>1, <2>1, <2>2, SoundUntouched
  <2> QED BY <2>1, <2>3, Zenon DEF DecideInv
<1> QED BY <1>2, <1>3

\* The invariant of the decisions is inductive (one action per case).
LEMMA DecideStep == DecideInv /\ [Next]_vars => DecideInv'
<1> SUFFICES ASSUME DecideInv, [Next]_vars PROVE DecideInv' OBVIOUS
<1>0. Shape /\ Shape' /\ (req.pc # "idle" => Sound) BY ShapeStep DEF DecideInv
<1>1. CASE Authorize BY <1>0, <1>1, DecideAuthorize
<1>2. ASSUME NEW t \in Threads, Job(t) \/ Restart(t) \/ Install(t) \/ \E p \in Policies : Reload(t, p)
      PROVE  DecideInv'
  BY <1>0, <1>2, DecideJob, DecideRestart, Zenon
<1>3. CASE EditDir \/ UNCHANGED vars
  <2>1. UNCHANGED <<backend, store, thread, cedar, req>> BY <1>3, Zenon DEF EditDir, vars
  <2>2. req.pc # "idle" => Sound' BY <1>0, <2>1, SoundUntouched
  <2> QED BY <1>0, <2>1, <2>2, Zenon DEF DecideInv
<1>4. CASE ReloadCedar
  <2>1. UNCHANGED <<backend, store, thread>> BY <1>4, Zenon DEF ReloadCedar
  <2>2. req' = IF req.pc # "idle" THEN [req EXCEPT !.cedars = @ \cup {cedar'}] ELSE req
    BY <1>4, Zenon DEF ReloadCedar
  <2>3. CASE req.pc = "idle"
    <3>1. req' = req BY <2>2, <2>3
    <3> QED BY <1>0, <2>1, <2>3, <3>1, Zenon DEF DecideInv
  <2>4. CASE req.pc # "idle"
    <3>1. req' = [req EXCEPT !.cedars = @ \cup {cedar'}] BY <2>2, <2>4
    <3>2. cedar' \in Cedars BY <1>0 DEF Shape
    <3>3. Sound' BY <1>0, <2>1, <2>4, <3>1, <3>2, SoundCedars
    <3> QED BY <1>0, <3>3, Zenon DEF DecideInv
  <2> QED BY <2>3, <2>4
<1> QED BY <1>1, <1>2, <1>3, <1>4, Zenon DEF Next

\* Whatever reloads, refreshes, restarts and Cedar reloads run meanwhile, and
\* however they overlap: every gate an allowed statement has passed let it pass
\* by a snapshot that was in force while it was decided, and so with its row
\* cap, row filter, masks and watermark, and with what turned a statement away
\* (authorize_command_with_objects, which calls load() once per gate).
THEOREM DecisionsAlwaysInForce == Spec => []DecidedInForce
<1>1. Init => DecideInv
  <2> SUFFICES ASSUME Init PROVE DecideInv OBVIOUS
  <2>1. Shape BY InitShape
  <2>2. req.pc = "idle" BY DEF Init, NoRequest
  <2> QED BY <2>1, <2>2 DEF DecideInv
<1>2. DecideInv /\ [Next]_vars => DecideInv' BY DecideStep
<1>3. DecideInv => DecidedInForce
  <2>1. CASE req.pc = "idle" BY <2>1 DEF DecidedInForce
  <2>2. CASE req.pc # "idle" BY <2>2 DEF DecideInv, Sound
  <2> QED BY <2>1, <2>2
<1> QED BY <1>1, <1>2, <1>3, PTL DEF Spec

==============================================================================
