--------------------------- MODULE ControlProofs ----------------------------
(***************************************************************************)
(* Proofs about two parts of the control plane.  Of Vault, for every        *)
(* backend, every set of lifetimes and of concurrent installers, and every  *)
(* bound; of Portal, for every format, result, window and cap.              *)
(***************************************************************************)
EXTENDS Vault, Portal, FiniteSetTheorems, TLAPS

-----------------------------------------------------------------------------
(* The leases of the vault                                                 *)

USE VaultAssumption

Lease == [exp : Nat, revoked : BOOLEAN, secret : BOOLEAN]
IdUpTo(n, t) == (1..t) \X (1..n)

(* What holds of every copy f of the leases, whatever failed: the names that *)
(* n operations can have given out by t, no password of a revoked lease, and *)
(* in a sealed store the password of every other one.                        *)
SoundLease(r, st) ==
  /\ r \in Lease /\ ~(r.revoked /\ r.secret)
  /\ st = "sealed" => r.revoked \/ r.secret
Sound(f, n, t, st) == \A id \in DOMAIN f : id \in IdUpTo(n, t) /\ SoundLease(f[id], st)

(* What a copy that lacks the last change of the leases of s says of the     *)
(* others: every revocation, and every lease as its holder was told.         *)
Clean(f, s, w) == \A id \in DOMAIN f : id \in w \ s => f[id].revoked
Kept(f, s, g, w, t) ==
  \A id \in DOMAIN g \ (w \cup s) :
    g[id] >= t => id \in DOMAIN f /\ ~f[id].revoked /\ f[id].exp = g[id]
Current(f, s, g, w, t) == Clean(f, s, w) /\ Kept(f, s, g, w, t)

Above(f, n) == \A id \in DOMAIN f : id[2] < n

(* What callers were told by t: a lease of this instant has not expired.     *)
Promised(g, t) ==
  \A id \in DOMAIN g : g[id] \in Nat /\ id[1] \in 1..t /\ (id[1] = t => g[id] >= t)

Numbers ==
  /\ now \in 1..MaxClock /\ saves \in 0..MaxSaves /\ saving \in Nat
  /\ seq \in 1..(saves + 1)
  /\ Promised(granted, now)
  /\ DOMAIN loaded = Installers /\ DOMAIN unread = Installers

Read(i) == loaded[i][1]

Copies ==
  /\ Sound(leases, saves, now, store) /\ Above(leases, seq)
  /\ Sound(disk, saves, now, store) /\ (store = "memory" => DOMAIN disk = {})
  /\ \A id \in DOMAIN disk : disk[id].secret => store = "sealed"
  /\ \A i \in Installers : loaded[i] # None =>
       /\ Sound(Read(i).leases, saves, now, store) /\ Read(i).seq \in 1..(saves + 1)
       /\ Above(Read(i).leases, Read(i).seq)

(* Each copy is current but for what it lacks.                               *)
Agreement ==
  /\ Current(leases, behind, granted, withdrawn, now)
  /\ store # "memory" => Current(disk, unsaved, granted, withdrawn, now)
  /\ \A i \in Installers : loaded[i] # None =>
       Current(Read(i).leases, unread[i], granted, withdrawn, now)

VaultInv == Numbers /\ Copies /\ Agreement

-----------------------------------------------------------------------------
(* A set of numbers up to a bound has a greatest one.                        *)
LEMMA MaxFact ==
  ASSUME NEW n \in Nat, NEW S \in SUBSET (0..n), S # {}
  PROVE  Max(S) \in S /\ \A m \in S : m <= Max(S)
<1> DEFINE gaps == {n - m : m \in S}
           R == {ss \in Nat \X Nat : ss[1] < ss[2]}
<1>0. IsWellFoundedOn(R, Nat)
  BY NatLessThanWellFounded DEF OpToRel
<1>1. gaps \subseteq Nat /\ gaps # {}
  <2>1. PICK m \in S : TRUE
    BY Zenon
  <2>2. n - m \in gaps /\ \A k \in S : n - k \in Nat
    OBVIOUS
  <2> QED
    BY <2>2
<1>2. PICK d \in gaps : \A e \in gaps : ~ (<<e, d>> \in R)
  <2> HIDE DEF gaps, R
  <2> QED
    BY Zenon, <1>0, <1>1, WFMin
<1>3. PICK x \in S : d = n - x
  OBVIOUS
<1>4. ASSUME NEW m \in S PROVE x >= m
  <2>1. n - m \in Nat /\ d \in Nat /\ ~ (<<n - m, d>> \in R)
    BY <1>1, <1>2
  <2> QED
    BY <1>3, <2>1
<1>5. Max(S) \in S /\ \A m \in S : Max(S) >= m
  BY Zenon, <1>4 DEF Max
<1> QED
  BY <1>5

(* A renewal by nothing lasts one unit.                                      *)
LEMMA RenewalFact == ASSUME NEW ttl \in Ttls PROVE Max({ttl, 1}) \in Nat \ {0}
<1>1. ttl + 1 \in Nat /\ {ttl, 1} \in SUBSET (0..(ttl + 1)) /\ {ttl, 1} # {}
  OBVIOUS
<1> QED
  BY <1>1, MaxFact

(* What a map that is read into a store makes of the sequence                *)
(* (load_from_disk).                                                         *)
LEMMA LoadFact ==
  ASSUME NEW f, NEW st, NEW n \in Nat, NEW t, Sound(f, n, t, st)
  PROVE  /\ load_from_disk(f).leases = f /\ load_from_disk(f).seq \in 1..(n + 1)
         /\ Above(f, load_from_disk(f).seq)
<1> DEFINE S == {1} \cup {id[2] + 1 : id \in DOMAIN f}
<1>1. S \in SUBSET (0..(n + 1)) /\ S # {} /\ S \subseteq 1..(n + 1)
  BY DEF Sound, IdUpTo
<1>2. Max(S) \in S /\ \A m \in S : m <= Max(S)
  <2> HIDE DEF S
  <2>1. n + 1 \in Nat
    OBVIOUS
  <2> QED
    BY <1>1, <2>1, MaxFact, Zenon
<1>3. \A id \in DOMAIN f : id[2] \in Nat /\ id[2] + 1 <= Max(S)
  BY <1>2 DEF Sound, IdUpTo
<1>4. load_from_disk(f) = [leases |-> f, seq |-> Max(S)]
  BY DEF load_from_disk
<1> HIDE DEF S
<1>5. Max(S) \in 1..(n + 1) /\ \A id \in DOMAIN f : id[2] < Max(S)
  <2>1. Max(S) \in 1..(n + 1)
    BY Zenon, <1>1, <1>2
  <2>2. \A a \in Nat, b \in 1..(n + 1) : a + 1 <= b => a < b
    OBVIOUS
  <2> QED
    BY Zenon, <1>3, <2>1, <2>2
<1> QED
  BY <1>4, <1>5 DEF Above

-----------------------------------------------------------------------------
(* Maps of leases                                                            *)

LEMMA SoundMore ==
  ASSUME NEW f, NEW st, NEW m \in Nat, NEW n \in Nat, m <= n, NEW t \in Nat, NEW u \in Nat, t <= u,
         Sound(f, m, t, st)
  PROVE  Sound(f, n, u, st)
BY DEF Sound, IdUpTo

LEMMA SoundWith ==
  ASSUME NEW f, NEW st, NEW n, NEW t, Sound(f, n, t, st), NEW id \in IdUpTo(n, t), NEW r,
         SoundLease(r, st)
  PROVE  Sound(With(f, id, r), n, t, st) /\ Sound([f EXCEPT ![id] = r], n, t, st)
BY DEF Sound, With

LEMMA SoundRestrict ==
  ASSUME NEW f, NEW st, NEW n, NEW t, Sound(f, n, t, st), NEW S \in SUBSET DOMAIN f
  PROVE  Sound(Restrict(f, S), n, t, st)
BY DEF Sound, Restrict

(* A map that is written says the same, without the passwords when the file  *)
(* is not sealed (write_file_locked).                                        *)
LEMMA WrittenSound ==
  ASSUME NEW n, NEW t, Sound(leases, n, t, store)
  PROVE  /\ DOMAIN write_file_locked(leases) = DOMAIN leases
         /\ \A id \in DOMAIN leases :
              /\ write_file_locked(leases)[id].revoked = leases[id].revoked
              /\ write_file_locked(leases)[id].exp = leases[id].exp
              /\ write_file_locked(leases)[id].secret => store = "sealed"
         /\ Sound(write_file_locked(leases), n, t, store)
<1> DEFINE ls == write_file_locked(leases)
<1>1. DOMAIN ls = DOMAIN leases
  BY DEF write_file_locked
<1>2. ASSUME NEW id \in DOMAIN leases
      PROVE  /\ ls[id].revoked = leases[id].revoked /\ ls[id].exp = leases[id].exp
             /\ ls[id].secret => store = "sealed"
             /\ SoundLease(ls[id], store)
  <2>1. SoundLease(leases[id], store)
    BY DEF Sound
  <2>2. ls[id] = [leases[id] EXCEPT !.secret = leases[id].secret /\ store = "sealed"]
    BY DEF write_file_locked
  <2> QED
    BY <2>1, <2>2 DEF SoundLease, Lease
<1>3. Sound(ls, n, t, store)
  BY <1>1, <1>2 DEF Sound
<1> QED
  BY <1>1, <1>2, <1>3

-----------------------------------------------------------------------------
(* The copies keep their shape                                               *)

(* An operation that leaves a sound map leaves sound copies (Saved is what   *)
(* every operation of the admin API does at its end).                        *)
LEMMA SavedCopies ==
  ASSUME Numbers, Copies, NEW ls, NEW ids, Saved(ls, ids), Sound(ls, saves + 1, now, store),
         seq' \in 1..(saves + 2), Above(ls, seq'), Promised(granted', now)
  PROVE  Numbers' /\ Copies'
<1>1. /\ saves \in Nat /\ saves + 1 \in Nat /\ saves <= saves + 1 /\ saves' = saves + 1
      /\ now \in Nat /\ now <= now /\ now' = now /\ store' = store /\ disk' = disk /\ loaded' = loaded /\ leases' = ls
  BY DEF Saved, Numbers
<1>2. Numbers'
  BY <1>1 DEF Saved, Numbers
<1>3. Sound(disk, saves + 1, now, store)
  BY <1>1, SoundMore DEF Copies
<1>4. ASSUME NEW i \in Installers, loaded[i] # None
      PROVE  /\ Sound(Read(i).leases, saves + 1, now, store)
             /\ Read(i).seq \in 1..(saves + 2)
             /\ Above(Read(i).leases, Read(i).seq)
  <2>1. /\ Sound(Read(i).leases, saves, now, store) /\ Read(i).seq \in 1..(saves + 1)
        /\ Above(Read(i).leases, Read(i).seq)
    BY <1>4 DEF Copies
  <2>2. Sound(Read(i).leases, saves + 1, now, store)
    BY <1>1, <2>1, SoundMore
  <2> QED
    BY <1>1, <2>1, <2>2
<1>5. \A i \in Installers : Read(i)' = Read(i)
  BY <1>1 DEF Read
<1>6. saves' + 1 = saves + 2
  BY <1>1
<1> QED
  BY <1>1, <1>2, <1>3, <1>4, <1>5, <1>6 DEF Copies

(* The store that with_file makes of the file, or a new one.                 *)
LEMMA FreshFact ==
  ASSUME Numbers, Copies
  PROVE  /\ Sound(Fresh.leases, saves, now, store) /\ Fresh.seq \in 1..(saves + 1)
         /\ Above(Fresh.leases, Fresh.seq)
         /\ DOMAIN Fresh.leases = DOMAIN disk /\ (store # "memory" => Fresh.leases = disk)
<1>0. saves \in Nat
  BY DEF Numbers
<1>1. CASE store = "memory"
  <2>1. Fresh.leases = NoLeases /\ Fresh.seq = 1 /\ DOMAIN NoLeases = {}
    BY <1>1 DEF Fresh, New, NoLeases
  <2> QED
    BY <1>0, <1>1, <2>1 DEF Copies, Sound, Above
<1>2. CASE store # "memory"
  <2>1. Fresh = load_from_disk(disk)
    BY <1>2 DEF Fresh
  <2> QED
    BY <1>0, <1>2, <2>1, LoadFact DEF Copies
<1> QED
  BY <1>1, <1>2

(* Every step keeps the shape of every copy.                                 *)
LEMMA CopiesStep == Numbers /\ Copies /\ [VaultNext]_vaultVars => Numbers' /\ Copies'
<1> SUFFICES ASSUME Numbers, Copies, [VaultNext]_vaultVars PROVE Numbers' /\ Copies'
  OBVIOUS
<1>0. /\ saves \in Nat /\ saves + 1 \in Nat /\ saves <= saves + 1 /\ now \in Nat /\ seq \in Nat
      /\ saving \in Nat /\ now <= now
  BY DEF Numbers
<1>1. CASE UNCHANGED vaultVars
  BY <1>1 DEF vaultVars, told, lacks, Numbers, Copies, Read
<1>2. CASE Tick
  <2>1. /\ now' = now + 1 /\ now' \in 1..MaxClock /\ now + 1 \in Nat /\ now <= now + 1
        /\ saves <= saves
        /\ UNCHANGED <<store, seq, leases, disk, saving, loaded, saves, granted, unread>>
    BY <1>0, <1>2 DEF Tick, Numbers, told, lacks
  <2>2. Promised(granted, now + 1)
    BY <1>0 DEF Numbers, Promised
  <2>3. \A i : Read(i)' = Read(i)
    BY <2>1, Zenon DEF Read
  <2>4. \A f : Sound(f, saves, now, store) => Sound(f, saves, now + 1, store)
    BY <1>0, <2>1, SoundMore
  <2>5. Numbers'
    BY <2>1, <2>2 DEF Numbers
  <2> QED
    BY <2>1, <2>3, <2>4, <2>5 DEF Copies
<1>3. CASE prune_expired
  <2>1. Sound(leases, saves + 1, now, store) /\ Pruned \in SUBSET DOMAIN leases
    BY <1>0, SoundMore DEF Copies, Pruned
  <2>2. Sound(Restrict(leases, Pruned), saves + 1, now, store)
    BY <1>0, <2>1, SoundRestrict
  <2>3. seq' = seq /\ granted' = granted /\ Saved(Restrict(leases, Pruned), {})
    BY <1>3 DEF prune_expired, told
  <2>4. Above(Restrict(leases, Pruned), seq')
    BY <2>1, <2>3 DEF Copies, Above, Restrict
  <2>5. seq' \in 1..(saves + 2) /\ Promised(granted', now)
    BY <2>3 DEF Numbers
  <2> QED
    BY <2>2, <2>3, <2>4, <2>5, SavedCopies
<1>4. CASE persist
  <2>1. saving' \in Nat /\ UNCHANGED <<store, now, seq, leases, loaded, saves, granted, unread>>
    BY <1>0, <1>4 DEF persist, told
  <2>2. Numbers'
    BY <2>1 DEF Numbers
  <2>3. disk' = disk \/ (store # "memory" /\ disk' = write_file_locked(leases))
    BY <1>4 DEF persist
  <2>4. /\ Sound(disk', saves, now, store) /\ (store = "memory" => DOMAIN disk' = {})
        /\ \A id \in DOMAIN disk' : disk'[id].secret => store = "sealed"
    BY <1>0, <2>3, WrittenSound DEF Copies
  <2> QED
    BY <2>1, <2>2, <2>4 DEF Copies, Read
<1>5. CASE Restart
  <2>1. /\ UNCHANGED <<store, now, disk, granted>>
        /\ leases' = Fresh.leases /\ seq' = Fresh.seq /\ saving' = 0
        /\ saves' = saves + 1 /\ saves' \in 0..MaxSaves /\ DOMAIN unread' = Installers
        /\ DOMAIN loaded' = Installers /\ \A i \in Installers : loaded'[i] = None
    BY <1>0, <1>5 DEF Restart, told, Numbers
  <2>2. Sound(leases', saves + 1, now, store) /\ Sound(disk, saves + 1, now, store)
    BY <1>0, <2>1, FreshFact, SoundMore DEF Copies
  <2>3. seq' \in 1..(saves + 1) /\ Above(leases', seq')
    BY <2>1, FreshFact
  <2>4. Numbers'
    BY <1>0, <2>1, <2>3 DEF Numbers
  <2> QED
    BY <2>1, <2>2, <2>3, <2>4 DEF Copies
<1>6. ASSUME NEW ttl \in Ttls, issue_lease(ttl) PROVE Numbers' /\ Copies'
  <2> DEFINE id == <<now, seq>>
             r == [exp |-> now + ttl, revoked |-> FALSE, secret |-> TRUE]
  <2>1. /\ seq' = seq + 1 /\ Saved(With(leases, id, r), {id}) /\ granted' = With(granted, id, now + ttl)
    BY <1>6 DEF issue_lease
  <2>2. id \in IdUpTo(saves + 1, now) /\ SoundLease(r, store) /\ now + ttl \in Nat
    BY DEF Numbers, IdUpTo, SoundLease, Lease
  <2>3. Sound(With(leases, id, r), saves + 1, now, store)
    <3> HIDE DEF id, r
    <3>1. Sound(leases, saves + 1, now, store)
      BY <1>0, SoundMore DEF Copies
    <3> QED
      BY <1>0, <2>2, <3>1, SoundWith, Zenon
  <2>4. Promised(granted', now)
    <3>1. now + ttl >= now /\ id[1] \in 1..now
      BY DEF Numbers
    <3> HIDE DEF id
    <3> QED
      BY <1>0, <2>1, <2>2, <3>1 DEF With, Numbers, Promised
  <2>5. Above(With(leases, id, r), seq')
    <3>1. \A x \in DOMAIN leases : x[2] \in Nat /\ x[2] < seq
      BY DEF Copies, Above, Sound, IdUpTo
    <3>2. id[2] < seq' /\ \A x \in DOMAIN leases : x[2] < seq'
      BY <1>0, <2>1, <3>1
    <3> HIDE DEF id, r
    <3>3. DOMAIN With(leases, id, r) = DOMAIN leases \cup {id}
      BY DEF With
    <3> QED
      BY Zenon, <3>2, <3>3 DEF Above
  <2>6. seq' \in 1..(saves + 2)
    BY <2>1 DEF Numbers
  <2> HIDE DEF id, r
  <2> QED
    BY <2>1, <2>3, <2>4, <2>5, <2>6, SavedCopies
<1>7. ASSUME NEW id \in DOMAIN leases, revoke(id) PROVE Numbers' /\ Copies'
  <2> DEFINE r == [exp |-> now, revoked |-> TRUE, secret |-> FALSE]
  <2>1. Saved([leases EXCEPT ![id] = r], {id}) /\ seq' = seq /\ granted' = granted
    BY <1>7 DEF revoke
  <2>2. SoundLease(r, store)
    BY <1>0 DEF SoundLease, Lease
  <2> HIDE DEF r
  <2>3. Sound(leases, saves + 1, now, store) /\ id \in IdUpTo(saves + 1, now)
    BY <1>0, SoundMore DEF Copies, Sound
  <2>4. Sound([leases EXCEPT ![id] = r], saves + 1, now, store)
    BY <1>0, <2>2, <2>3, SoundWith
  <2>5. Above([leases EXCEPT ![id] = r], seq')
    BY <2>1 DEF Copies, Above
  <2>6. seq' \in 1..(saves + 2) /\ Promised(granted', now)
    BY <2>1 DEF Numbers
  <2> QED
    BY <2>1, <2>4, <2>5, <2>6, SavedCopies
<1>8. ASSUME NEW id \in DOMAIN leases, NEW ttl \in Ttls, renew(id, ttl) PROVE Numbers' /\ Copies'
  <2> DEFINE e == now + Max({ttl, 1})
             r == [leases[id] EXCEPT !.exp = e]
  <2>1. /\ Saved([leases EXCEPT ![id] = r], {id} \ withdrawn) /\ seq' = seq /\ granted' = With(granted, id, e)
    BY <1>8 DEF renew
  <2>2. e \in Nat /\ e >= now
    BY <1>0, RenewalFact
  <2> HIDE DEF e
  <2>3. SoundLease(leases[id], store)
    BY DEF Copies, Sound
  <2>4. SoundLease(r, store)
    BY <2>2, <2>3 DEF SoundLease, Lease
  <2> HIDE DEF r
  <2>5. Sound(leases, saves + 1, now, store) /\ id \in IdUpTo(saves + 1, now)
    BY <1>0, SoundMore DEF Copies, Sound
  <2>6. Sound([leases EXCEPT ![id] = r], saves + 1, now, store)
    BY <1>0, <2>4, <2>5, SoundWith
  <2>7. Above([leases EXCEPT ![id] = r], seq')
    BY <2>1 DEF Copies, Above
  <2>8. seq' \in 1..(saves + 2) /\ Promised(granted', now)
    <3>1. id[1] \in 1..now
      BY <2>5 DEF IdUpTo
    <3> QED
      BY <1>0, <2>1, <2>2, <3>1 DEF Numbers, With, Promised
  <2> QED
    BY <2>1, <2>6, <2>7, <2>8, SavedCopies
<1>9. ASSUME NEW i \in Installers, install_vault_store(i) PROVE Numbers' /\ Copies'
  <2>1. /\ UNCHANGED <<store, now, seq, leases, disk, saving, saves, granted>>
        /\ loaded' = [loaded EXCEPT ![i] = <<Fresh>>] /\ DOMAIN unread' = Installers
    BY <1>9 DEF install_vault_store, told, Numbers
  <2>2. Read(i)' = Fresh /\ \A j \in Installers : j # i => loaded'[j] = loaded[j]
    BY <2>1 DEF Read, Numbers
  <2>3. Numbers'
    BY <2>1 DEF Numbers
  <2> QED
    BY <2>1, <2>2, <2>3, FreshFact DEF Copies, Read
<1>10. ASSUME NEW i \in Installers, reconfigure_from(i) PROVE Numbers' /\ Copies'
  <2>1. /\ UNCHANGED <<store, now, disk, saving, saves, granted>>
        /\ loaded[i] # None /\ leases' = Read(i).leases /\ seq' = Read(i).seq
        /\ loaded' = [loaded EXCEPT ![i] = None] /\ DOMAIN unread' = Installers
    BY <1>10 DEF reconfigure_from, told, Read, Numbers
  <2>2. Sound(leases', saves, now, store) /\ seq' \in 1..(saves + 1) /\ Above(leases', seq')
    BY <2>1 DEF Copies
  <2>3. loaded'[i] = None /\ \A j \in Installers : j # i => loaded'[j] = loaded[j]
    BY <2>1 DEF Numbers
  <2>4. Numbers'
    BY <2>1, <2>2 DEF Numbers
  <2> QED
    BY <2>1, <2>2, <2>3, <2>4 DEF Copies, Read
<1> QED
  BY <1>1, <1>2, <1>3, <1>4, <1>5, <1>6, <1>7, <1>8, <1>9, <1>10 DEF VaultNext

-----------------------------------------------------------------------------
(* The copies agree with what the callers were told                          *)

(* What callers were told of leases other than those of ids stays, but for   *)
(* the expiry of a revoked one.                                              *)
Same(g, w, h, v, ids) ==
  /\ v \ ids \subseteq w /\ w \ ids \subseteq v
  /\ \A x \in DOMAIN h \ (v \cup ids) : x \in DOMAIN g /\ h[x] = g[x]

(* A copy that an operation leaves alone lacks the leases it changed.        *)
LEMMA LacksMore ==
  ASSUME NEW f, NEW s, NEW g, NEW w, NEW h, NEW v, NEW ids, NEW t,
         Current(f, s, g, w, t), Same(g, w, h, v, ids)
  PROVE  Current(f, s \cup ids, h, v, t)
<1>1. Clean(f, s \cup ids, v)
  BY DEF Current, Clean, Same
<1>2. Kept(f, s \cup ids, h, v, t)
  BY DEF Current, Kept, Same
<1> QED
  BY <1>1, <1>2 DEF Current

(* An operation after which the map is current leaves the agreement: its     *)
(* save is outstanding, and who has read the file lacks what it changed.     *)
LEMMA SavedAgreement ==
  ASSUME Numbers, Agreement, NEW ls, NEW ids, Saved(ls, ids),
         Same(granted, withdrawn, granted', withdrawn', ids),
         Current(ls, behind \ ids, granted', withdrawn', now)
  PROVE  Agreement'
<1>1. /\ UNCHANGED <<store, now, disk, loaded>> /\ leases' = ls
      /\ behind' = behind \ ids /\ unsaved' = unsaved \cup ids
      /\ \A i \in Installers : loaded[i] # None => unread'[i] = unread[i] \cup ids
  BY DEF Saved
<1>2. store # "memory" => Current(disk, unsaved \cup ids, granted', withdrawn', now)
  BY LacksMore DEF Agreement
<1>3. \A i \in Installers : loaded[i] # None =>
        Current(Read(i).leases, unread[i] \cup ids, granted', withdrawn', now)
  BY LacksMore DEF Agreement
<1>4. \A i : Read(i)' = Read(i)
  BY <1>1, Zenon DEF Read
<1> QED
  BY <1>1, <1>2, <1>3, <1>4 DEF Agreement

(* A copy that was current stays so when the clock goes on.                  *)
LEMMA CurrentLater ==
  ASSUME NEW f, NEW s, NEW g, NEW w, NEW t \in Nat, Current(f, s, g, w, t),
         \A id \in DOMAIN g : g[id] \in Nat
  PROVE  Current(f, s, g, w, t + 1)
<1>1. \A id \in DOMAIN g : g[id] >= t + 1 => g[id] >= t
  OBVIOUS
<1> QED
  BY <1>1 DEF Current, Kept

(* The store that is made new or from the file lacks what Missing says.      *)
LEMMA FreshCurrent ==
  ASSUME Numbers, Copies, Agreement
  PROVE  Current(Fresh.leases, Missing, granted, withdrawn, now)
<1>1. CASE store = "memory"
  <2>1. DOMAIN Fresh.leases = {} /\ Missing = DOMAIN granted
    BY <1>1, FreshFact DEF Copies, Missing
  <2> QED
    BY <2>1, Zenon DEF Current, Clean, Kept
<1>2. CASE store # "memory"
  <2>1. Fresh.leases = disk /\ Missing = unsaved
    BY <1>2, FreshFact DEF Missing
  <2> QED
    BY <1>2, <2>1 DEF Agreement
<1> QED
  BY <1>1, <1>2

(* Every step keeps the agreement.                                           *)
LEMMA AgreementStep ==
  Numbers /\ Copies /\ Agreement /\ [VaultNext]_vaultVars => Agreement'
<1> SUFFICES ASSUME Numbers, Copies, Agreement, [VaultNext]_vaultVars PROVE Agreement'
  OBVIOUS
<1>0. now \in Nat /\ \A id \in DOMAIN granted : granted[id] \in Nat
  BY DEF Numbers, Promised
<1>a. Current(leases, behind, granted, withdrawn, now)
  BY DEF Agreement
<1>1. CASE UNCHANGED vaultVars
  BY <1>1 DEF vaultVars, told, lacks, Agreement, Read
<1>2. CASE Tick
  <2>1. now' = now + 1 /\ UNCHANGED <<store, leases, disk, loaded, told, lacks>>
    BY <1>2 DEF Tick
  <2>2. \A i : Read(i)' = Read(i)
    BY <2>1, Zenon DEF Read
  <2>3. \A f, s : Current(f, s, granted, withdrawn, now) => Current(f, s, granted, withdrawn, now + 1)
    BY <1>0, CurrentLater
  <2> QED
    BY <2>1, <2>2, <2>3 DEF Agreement, told, lacks
<1>3. CASE prune_expired
  <2>1. Saved(Restrict(leases, Pruned), {}) /\ granted' = granted /\ withdrawn' = withdrawn
    BY <1>3 DEF prune_expired, told
  <2>2. Same(granted, withdrawn, granted', withdrawn', {})
    BY <2>1 DEF Same
  <2>3. Clean(Restrict(leases, Pruned), behind \ {}, withdrawn)
    BY <1>a DEF Current, Clean, Restrict, Pruned
  <2>4. Kept(Restrict(leases, Pruned), behind \ {}, granted, withdrawn, now)
    BY <1>a DEF Current, Kept, Restrict, Pruned, is_active
  <2>5. Current(Restrict(leases, Pruned), behind \ {}, granted', withdrawn', now)
    BY <2>1, <2>3, <2>4 DEF Current
  <2> QED
    BY <2>1, <2>2, <2>5, SavedAgreement
<1>4. CASE persist
  <2>1. UNCHANGED <<store, now, leases, loaded, granted, withdrawn, behind, unread>>
    BY <1>4 DEF persist, told
  <2>2. \/ disk' = disk /\ unsaved' = unsaved
        \/ disk' = write_file_locked(leases) /\ unsaved' = behind
    BY <1>4 DEF persist
  <2>3. Current(write_file_locked(leases), behind, granted, withdrawn, now)
    <3>1. saves \in Nat /\ Sound(leases, saves, now, store)
      BY DEF Numbers, Copies
    <3>2. DOMAIN write_file_locked(leases) = DOMAIN leases
          /\ \A id \in DOMAIN leases :
               /\ write_file_locked(leases)[id].revoked = leases[id].revoked
               /\ write_file_locked(leases)[id].exp = leases[id].exp
      BY <3>1, WrittenSound
    <3> QED
      BY <1>a, <3>2 DEF Current, Clean, Kept
  <2>4. \A i : Read(i)' = Read(i)
    BY <2>1 DEF Read
  <2> QED
    BY <2>1, <2>2, <2>3, <2>4 DEF Agreement
<1>5. CASE Restart
  <2>1. /\ UNCHANGED <<store, now, disk, granted, withdrawn, unsaved>>
        /\ leases' = Fresh.leases /\ behind' = Missing
        /\ \A i \in Installers : loaded'[i] = None
    BY <1>5 DEF Restart, told
  <2> QED
    BY <2>1, FreshCurrent DEF Agreement
<1>6. ASSUME NEW ttl \in Ttls, issue_lease(ttl) PROVE Agreement'
  <2> DEFINE id == <<now, seq>>
             e == now + ttl
             r == [exp |-> e, revoked |-> FALSE, secret |-> TRUE]
             ls == With(leases, id, r)
  <2>1. /\ Saved(ls, {id}) /\ granted' = With(granted, id, e) /\ withdrawn' = withdrawn \ {id}
    BY <1>6 DEF issue_lease
  <2>2. ~r.revoked /\ r.exp = e
    OBVIOUS
  <2> HIDE DEF id, e, r
  <2>3. /\ DOMAIN ls = DOMAIN leases \cup {id} /\ ls[id] = r
        /\ \A x \in DOMAIN leases : x # id => ls[x] = leases[x]
        /\ DOMAIN granted' = DOMAIN granted \cup {id} /\ granted'[id] = e
        /\ \A x \in DOMAIN granted : x # id => granted'[x] = granted[x]
    BY <2>1 DEF With
  <2> HIDE DEF ls
  <2>4. Same(granted, withdrawn, granted', withdrawn', {id})
    BY <2>1, <2>3 DEF Same
  <2>5. Clean(ls, behind \ {id}, withdrawn')
    BY <1>a, <2>1, <2>3 DEF Current, Clean
  <2>6. Kept(ls, behind \ {id}, granted', withdrawn', now)
    <3> SUFFICES ASSUME NEW x \in DOMAIN granted' \ (withdrawn' \cup (behind \ {id})), granted'[x] >= now
                 PROVE  x \in DOMAIN ls /\ ~ls[x].revoked /\ ls[x].exp = granted'[x]
      BY DEF Kept
    <3>1. CASE x = id
      BY <2>2, <2>3, <3>1
    <3>2. CASE x # id
      BY <1>a, <2>1, <2>3, <3>2 DEF Current, Kept
    <3> QED
      BY <3>1, <3>2
  <2>7. Current(ls, behind \ {id}, granted', withdrawn', now)
    BY <2>5, <2>6 DEF Current
  <2> QED
    BY <2>1, <2>4, <2>7, SavedAgreement
<1>7. ASSUME NEW id \in DOMAIN leases, revoke(id) PROVE Agreement'
  <2> DEFINE r == [exp |-> now, revoked |-> TRUE, secret |-> FALSE]
             ls == [leases EXCEPT ![id] = r]
  <2>1. Saved(ls, {id}) /\ granted' = granted /\ withdrawn' = withdrawn \cup {id}
    BY <1>7 DEF revoke
  <2>2. r.revoked
    OBVIOUS
  <2> HIDE DEF r
  <2>3. DOMAIN ls = DOMAIN leases /\ ls[id] = r /\ \A x \in DOMAIN leases : x # id => ls[x] = leases[x]
    OBVIOUS
  <2> HIDE DEF ls
  <2>4. Same(granted, withdrawn, granted', withdrawn', {id})
    BY <2>1 DEF Same
  <2>5. Current(ls, behind \ {id}, granted', withdrawn', now)
    BY <1>a, <2>1, <2>2, <2>3 DEF Current, Clean, Kept
  <2> QED
    BY <2>1, <2>4, <2>5, SavedAgreement
<1>8. ASSUME NEW id \in DOMAIN leases, NEW ttl \in Ttls, renew(id, ttl) PROVE Agreement'
  <2> DEFINE e == now + Max({ttl, 1})
             ls == [leases EXCEPT ![id].exp = e]
             ids == {id} \ withdrawn
  <2>1. /\ Saved(ls, ids) /\ granted' = With(granted, id, e) /\ withdrawn' = withdrawn
        /\ ~leases[id].revoked
    BY <1>8 DEF renew
  <2> HIDE DEF e
  <2>2. leases[id] \in Lease
    BY Zenon DEF Copies, Sound, SoundLease
  <2>3. /\ DOMAIN ls = DOMAIN leases /\ ls[id].revoked = leases[id].revoked /\ ls[id].exp = e
        /\ \A x \in DOMAIN leases : x # id => ls[x] = leases[x]
        /\ DOMAIN granted' = DOMAIN granted \cup {id} /\ granted'[id] = e
        /\ \A x \in DOMAIN granted : x # id => granted'[x] = granted[x]
    BY <2>1, <2>2 DEF With, Lease
  <2> HIDE DEF ls
  <2>4. Same(granted, withdrawn, granted', withdrawn', ids)
    BY <2>1, <2>3 DEF Same
  <2>5. Clean(ls, behind \ ids, withdrawn')
    BY <1>a, <2>1, <2>3 DEF Current, Clean
  <2>6. Kept(ls, behind \ ids, granted', withdrawn', now)
    <3> SUFFICES ASSUME NEW x \in DOMAIN granted' \ (withdrawn' \cup (behind \ ids)), granted'[x] >= now
                 PROVE  x \in DOMAIN ls /\ ~ls[x].revoked /\ ls[x].exp = granted'[x]
      BY DEF Kept
    <3>1. CASE x = id
      BY <2>1, <2>3, <3>1
    <3>2. CASE x # id
      BY <1>a, <2>1, <2>3, <3>2 DEF Current, Kept
    <3> QED
      BY <3>1, <3>2
  <2>7. Current(ls, behind \ ids, granted', withdrawn', now)
    BY <2>5, <2>6 DEF Current
  <2> HIDE DEF ids
  <2> QED
    BY <2>1, <2>4, <2>7, SavedAgreement
<1>9. ASSUME NEW i \in Installers, install_vault_store(i) PROVE Agreement'
  <2>1. /\ UNCHANGED <<store, now, leases, disk, granted, withdrawn, behind, unsaved>>
        /\ loaded' = [loaded EXCEPT ![i] = <<Fresh>>] /\ unread' = [unread EXCEPT ![i] = Missing]
    BY <1>9 DEF install_vault_store, told
  <2>2. /\ Read(i)' = Fresh /\ unread'[i] = Missing
        /\ \A j \in Installers : j # i => loaded'[j] = loaded[j] /\ unread'[j] = unread[j]
    BY <2>1 DEF Read, Numbers
  <2> QED
    BY <2>1, <2>2, FreshCurrent DEF Agreement, Read
<1>10. ASSUME NEW i \in Installers, reconfigure_from(i) PROVE Agreement'
  <2>1. /\ UNCHANGED <<store, now, disk, granted, withdrawn, unsaved>>
        /\ loaded[i] # None /\ leases' = Read(i).leases /\ behind' = unread[i]
        /\ loaded' = [loaded EXCEPT ![i] = None] /\ unread' = [unread EXCEPT ![i] = {}]
    BY <1>10 DEF reconfigure_from, told, Read
  <2>2. /\ loaded'[i] = None
        /\ \A j \in Installers : j # i => loaded'[j] = loaded[j] /\ unread'[j] = unread[j]
    BY <2>1 DEF Numbers
  <2> QED
    BY <2>1, <2>2 DEF Agreement, Read
<1> QED
  BY <1>1, <1>2, <1>3, <1>4, <1>5, <1>6, <1>7, <1>8, <1>9, <1>10 DEF VaultNext

-----------------------------------------------------------------------------
(* The inductive invariant implies what the vault promises.                  *)
LEMMA InvariantSuffices == VaultInv => LeasesKept
<1> SUFFICES ASSUME Numbers, Copies, Agreement PROVE LeasesKept
  BY DEF VaultInv
<1>1. VaultTypeOK
  <2>1. ASSUME NEW f, Sound(f, saves, now, store), NEW id \in DOMAIN f
        PROVE  id \in (1..MaxClock) \X (1..MaxSaves) /\ f[id] \in Lease
    BY <2>1 DEF Sound, SoundLease, IdUpTo, Numbers
  <2>2. now \in 1..MaxClock /\ seq \in 1..(MaxSaves + 1)
    BY DEF Numbers
  <2> QED
    BY <2>1, <2>2 DEF VaultTypeOK, Copies, Lease
<1>2. RevokedForGood
  BY DEF RevokedForGood, get_valid_lease, is_active, Agreement, Current, Clean
<1>3. ValidUntilTold
  BY DEF ValidUntilTold, get_valid_lease, is_active, Agreement, Current, Kept
<1>4. SecretsOnDisk
  <2> SUFFICES ASSUME NEW id \in DOMAIN disk, disk[id].secret
               PROVE  store = "sealed" /\ (id \in withdrawn => id \in unsaved)
    BY DEF SecretsOnDisk
  <2>1. store = "sealed" /\ store # "memory" /\ ~disk[id].revoked
    BY DEF Copies, Sound, SoundLease
  <2> QED
    BY <2>1 DEF Agreement, Current, Clean
<1>5. SealedUsable
  BY Zenon DEF SealedUsable, get_valid_lease, backend_identity, is_active, Copies, Sound, SoundLease
<1>6. FreshIds
  <2> DEFINE id == <<now, seq>>
  <2>1. id[1] = now /\ id[2] = seq /\ ~(seq < seq)
    BY DEF Numbers
  <2> HIDE DEF id
  <2>2. id \notin DOMAIN leases
    BY <2>1 DEF Copies, Above
  <2>3. ASSUME id \in DOMAIN granted, id \notin withdrawn \cup behind PROVE FALSE
    <3>1. granted[id] >= now
      BY <2>1, <2>3 DEF Numbers, Promised
    <3> QED
      BY <2>2, <2>3, <3>1 DEF Agreement, Current, Kept
  <2> QED
    BY <2>2, <2>3 DEF FreshIds, id
<1> QED
  BY <1>1, <1>2, <1>3, <1>4, <1>5, <1>6 DEF LeasesKept

\* Through renewals, prunes, saves that fail, installs that overlap and
\* restarts, the vault keeps a revocation for good and a lease until the time its
\* holder was told, except for the leases whose last change was not in the copy
\* that an install or a restart put in force; and always the passwords out of an
\* unsealed file, a sealed lease usable and the names in the store single
\* (VaultStore and install_vault_store).
THEOREM LeasesAlwaysKept == VaultSpec => []LeasesKept
<1>1. VaultInit => VaultInv
  <2> SUFFICES ASSUME VaultInit PROVE VaultInv
    OBVIOUS
  <2>1. DOMAIN NoLeases = {} /\ DOMAIN granted = {} /\ withdrawn = {}
        /\ \A i \in Installers : loaded[i] = None
    BY DEF VaultInit, NoLeases
  <2>2. Numbers
    <3>1. now \in 1..MaxClock /\ saves \in 0..MaxSaves /\ saving \in Nat /\ seq \in 1..(saves + 1)
      BY DEF VaultInit
    <3>2. DOMAIN unread = Installers /\ DOMAIN loaded = Installers
      BY Zenon DEF VaultInit
    <3> QED
      BY <2>1, <3>1, <3>2 DEF Numbers, Promised
  <2>3. Copies
    BY <2>1 DEF VaultInit, Copies, Sound, Above
  <2>4. Agreement
    BY <2>1 DEF VaultInit, Agreement, Current, Clean, Kept
  <2> QED
    BY <2>2, <2>3, <2>4 DEF VaultInv
<1>2. VaultInv /\ [VaultNext]_vaultVars => VaultInv'
  BY CopiesStep, AgreementStep DEF VaultInv
<1> QED
  BY <1>1, <1>2, InvariantSuffices, PTL DEF VaultSpec

HIDE VaultAssumption

-----------------------------------------------------------------------------
(* The body of a portal answer                                             *)

Row == {MaskedRow(i) : i \in Nat}
Kinds == {"meta", "header", "prefix", "rows", "mark", "trailer", "document"}
PartRec == [kind : Kinds, rows : Seq(Row)]
              \cup [kind : Kinds, rows : Seq(Row), count : Nat, cut : BOOLEAN]

(* The rows at the places of the body are the first n of the result, in      *)
(* order and each of them masked.                                            *)
Lined(n) ==
  /\ \A p \in Places : \E i \in 1..n : RowAt(p) = MaskedRow(i)
  /\ \A i \in 1..n : \E p \in Places : RowAt(p) = MaskedRow(i)
  /\ \A p, q \in Places :
       p[1] < q[1] \/ (p[1] = q[1] /\ p[2] < q[2]) => RowAt(p).row < RowAt(q).row

(* The request and the task.                                                 *)
Asked ==
  /\ fmt \in Formats /\ max_total \in Nat /\ policyCap \in Nat /\ window \in Nat
  /\ result \in 0..MaxRows /\ pulled \in 0..result /\ body \in Seq(PartRec)
  /\ source \in {"stream", "complete", "done", "error"} /\ client \in {"reading", "gone"}
  /\ stage \in {"open", "pull", "truncated", "drain", "close", "cut", "end"}

(* Where the task is and what it has behind it.                              *)
Task ==
  /\ stage = "open" => /\ body = <<>> /\ pulled = 0 /\ client = "reading"
                       /\ source \in {"stream", "complete"}
  /\ stage \in {"pull", "truncated", "drain"} => source = "stream"
  /\ stage \in {"close", "cut", "end"} => source \in {"done", "error"}
  /\ stage \in {"pull", "truncated", "close", "cut"} => client = "reading"
  /\ stage \in {"truncated", "cut"} => pulled = max_total
  /\ stage = "close" /\ source = "done" => pulled = result
  /\ stage # "end" => /\ pulled <= max_total
                      /\ \A k \in 1..Len(body) : body[k].kind \notin {"trailer", "document"}

(* A client that still reads was sent all that was taken from the backend.   *)
Sent == \E n \in 0..pulled : Lined(n) /\ (client = "reading" => n = pulled)

(* What the last part says.                                                  *)
Told ==
  /\ (body # <<>> /\ body[1].kind # "document") => pulled <= max_total
  /\ \A k \in 1..Len(body) : body[k].kind = "trailer" =>
       /\ client = "reading" /\ body[k].count = pulled
       /\ ~body[k].cut /\ source = "done" => pulled = result
       /\ body[k].cut => pulled = max_total

PortalInv == Asked /\ Task /\ Sent /\ Told

\* The lesser and the greater of two numbers.
LEMMA MinPair ==
  ASSUME NEW a \in Int, NEW b \in Int
  PROVE  Min({a, b}) \in Int /\ Min({a, b}) \in {a, b} /\ Min({a, b}) <= a /\ Min({a, b}) <= b
<1>1. \E x \in {a, b} : \A y \in {a, b} : x =< y
  <2>1. CASE a <= b BY <2>1
  <2>2. CASE b < a BY <2>2
  <2> QED BY <2>1, <2>2
<1>2. Min({a, b}) \in {a, b} /\ \A y \in {a, b} : Min({a, b}) =< y BY <1>1, Zenon DEF Min
<1> QED BY <1>2

LEMMA MaxPair ==
  ASSUME NEW a \in Int, NEW b \in Int
  PROVE  Max({a, b}) \in Int /\ Max({a, b}) \in {a, b} /\ Max({a, b}) >= a /\ Max({a, b}) >= b
<1>1. \E x \in {a, b} : \A y \in {a, b} : x >= y
  <2>1. CASE a >= b BY <2>1
  <2>2. CASE b > a BY <2>2
  <2> QED BY <2>1, <2>2
<1>2. Max({a, b}) \in {a, b} /\ \A y \in {a, b} : Max({a, b}) >= y BY <1>1, Zenon DEF Max
<1> QED BY <1>2

\* A masked row has its number.
LEMMA RowNumber == \A i : MaskedRow(i).row = i
BY DEF MaskedRow

\* Where the rows are.
LEMMA PlaceFacts ==
  \A p : p \in Places <=>
     \E k \in 1..Len(body) : \E i \in 1..Len(body[k].rows) : p = <<k, i>>
BY DEF Places

LEMMA PlaceFactsNext ==
  \A p : p \in Places' <=>
     \E k \in 1..Len(body') : \E i \in 1..Len(body'[k].rows) : p = <<k, i>>
BY DEF Places

\* A body whose rows are the first n has n of them.
LEMMA LinedCount ==
  ASSUME NEW n \in Nat, Lined(n), body \in Seq(PartRec)
  PROVE  Count = n /\ {RowAt(p) : p \in Places} = {MaskedRow(i) : i \in 1..n}
<1> DEFINE g == [i \in 1..n |-> CHOOSE p \in Places : RowAt(p) = MaskedRow(i)]
<1>1. \A i \in 1..n : g[i] \in Places /\ RowAt(g[i]) = MaskedRow(i)
  <2> SUFFICES ASSUME NEW i \in 1..n PROVE g[i] \in Places /\ RowAt(g[i]) = MaskedRow(i)
    OBVIOUS
  <2>1. \E p \in Places : RowAt(p) = MaskedRow(i) BY Zenon DEF Lined
  <2>2. g[i] = CHOOSE p \in Places : RowAt(p) = MaskedRow(i) OBVIOUS
  <2> QED BY <2>1, <2>2, Zenon
<1>2. g \in [1..n -> Places] BY <1>1, Zenon
<1> HIDE DEF g
<1>3. \A i, j \in 1..n : g[i] = g[j] => i = j
  <2> SUFFICES ASSUME NEW i \in 1..n, NEW j \in 1..n, g[i] = g[j] PROVE i = j OBVIOUS
  <2>1. MaskedRow(i).row = MaskedRow(j).row BY <1>1, Zenon
  <2> QED BY <2>1, RowNumber
<1>4. \A p, q \in Places : RowAt(p) = RowAt(q) => p = q
  <2> SUFFICES ASSUME NEW p \in Places, NEW q \in Places, RowAt(p) = RowAt(q) PROVE p = q
    OBVIOUS
  <2>1. PICK i \in 1..n : RowAt(p) = MaskedRow(i) BY Zenon DEF Lined
  <2>2. RowAt(p).row = i /\ RowAt(q).row = i /\ i \in Nat BY <2>1, RowNumber
  <2>3. /\ p[1] \in Nat /\ p[2] \in Nat /\ p = <<p[1], p[2]>>
        /\ q[1] \in Nat /\ q[2] \in Nat /\ q = <<q[1], q[2]>>
    BY PlaceFacts
  <2>4. ~(RowAt(p).row < RowAt(q).row) /\ ~(RowAt(q).row < RowAt(p).row) BY <2>2
  <2>5. /\ ~(p[1] < q[1] \/ (p[1] = q[1] /\ p[2] < q[2]))
        /\ ~(q[1] < p[1] \/ (q[1] = p[1] /\ q[2] < p[2]))
    BY <2>4, Zenon DEF Lined
  <2>6. p[1] = q[1] /\ p[2] = q[2] BY <2>3, <2>5
  <2> QED BY <2>3, <2>6, Zenon
<1>5. \A p \in Places : \E i \in 1..n : g[i] = p
  <2> SUFFICES ASSUME NEW p \in Places PROVE \E i \in 1..n : g[i] = p OBVIOUS
  <2>1. PICK i \in 1..n : RowAt(p) = MaskedRow(i) BY Zenon DEF Lined
  <2>2. g[i] = p BY <1>1, <1>4, <2>1, Zenon
  <2> QED BY <2>2
<1>6. g \in Bijection(1..n, Places)
  BY <1>2, <1>3, <1>5, Zenon DEF Bijection, Injection, Surjection, IsInjective
<1>7. ExistsBijection(1..n, Places) BY <1>6, Zenon DEF ExistsBijection
<1>8. IsFiniteSet(1..n) /\ Cardinality(1..n) = n BY FS_Interval
<1>9. Cardinality(Places) = n BY <1>7, <1>8, FS_Bijection, Zenon
<1>10. {RowAt(p) : p \in Places} = {MaskedRow(i) : i \in 1..n} BY Zenon DEF Lined
<1> QED BY <1>9, <1>10, Zenon DEF Count

\* The invariant says what the property asks for.
LEMMA PortalSuffices == PortalInv => BodySound
<1> SUFFICES ASSUME PortalInv PROVE BodySound OBVIOUS
<1>0. Asked /\ Task /\ Told BY DEF PortalInv
<1>1. PICK n \in 0..pulled : Lined(n) /\ (client = "reading" => n = pulled) BY DEF PortalInv, Sent
<1>2. n \in Nat /\ pulled \in Nat /\ n <= pulled /\ pulled \in 0..MaxRows
  BY <1>0, <1>1, PortalAssumption DEF Asked
<1>3. Count = n /\ {RowAt(p) : p \in Places} = {MaskedRow(i) : i \in 1..n}
  BY <1>0, <1>1, <1>2, LinedCount, Zenon DEF Asked
<1>4. BodyIsPrefix BY <1>1, <1>2, <1>3 DEF BodyIsPrefix, Lined
<1>5. StreamWithinCap BY <1>0, <1>2, <1>3 DEF StreamWithinCap, Told, Asked
<1>6. BackendDrained BY <1>0 DEF BackendDrained, Task
<1>7. TrailerTells BY <1>0, <1>1, <1>3, Zenon DEF TrailerTells, Told
<1> QED BY <1>2, <1>4, <1>5, <1>6, <1>7 DEF BodySound

\* A part without rows adds no place.
LEMMA AppendBare ==
  ASSUME NEW n \in Nat, Lined(n), body \in Seq(PartRec), NEW r \in PartRec,
         r.rows = <<>>, body' = Append(body, r)
  PROVE  Lined(n)'
<1>0. PICK l \in Nat : l = Len(body) OBVIOUS
<1>1. /\ Len(body') = l + 1 /\ body'[l + 1] = r
      /\ \A k \in 1..l : body'[k] = body[k]
  BY <1>0
<1>2. \A p : p \in Places' <=> p \in Places
  <2>1. \A p : p \in Places' <=>
           \E k \in 1..(l + 1) : \E i \in 1..Len(body'[k].rows) : p = <<k, i>>
    BY <1>1, PlaceFactsNext
  <2>2. \A k : k \in 1..(l + 1) <=> k \in 1..l \/ k = l + 1 BY <1>1
  <2>3. \A i : i \notin 1..Len(r.rows) OBVIOUS
  <2>4. \A p : p \in Places <=> \E k \in 1..l : \E i \in 1..Len(body[k].rows) : p = <<k, i>>
    BY <1>0, PlaceFacts, Zenon
  <2>5. \A k \in 1..(l + 1) : \A i : i \in 1..Len(body'[k].rows) => k \in 1..l /\ body'[k] = body[k]
    BY <1>1, <2>2, <2>3, Zenon
  <2>6. \A k \in 1..l : k \in 1..(l + 1) /\ body'[k] = body[k] BY <1>1, <2>2, Zenon
  <2> QED BY <2>1, <2>4, <2>5, <2>6, Zenon
<1>3. \A p \in Places : RowAt(p)' = RowAt(p)
  <2> SUFFICES ASSUME NEW p \in Places PROVE RowAt(p)' = RowAt(p) OBVIOUS
  <2>1. p[1] \in 1..l BY <1>0, PlaceFacts
  <2> QED BY <1>1, <2>1, Zenon DEF RowAt
<1>4. Places' = Places BY <1>2, Zenon
<1> QED BY <1>3, <1>4, Zenon DEF Lined

\* A window of rows goes on where the body ended.
LEMMA AppendWindow ==
  ASSUME NEW n \in Nat, Lined(n), body \in Seq(PartRec), NEW m \in Nat, NEW r \in PartRec,
         r.rows = Masked(n, n + m), body' = Append(body, r)
  PROVE  Lined(n + m)'
<1>0. PICK l \in Nat : l = Len(body) OBVIOUS
<1>1. /\ Len(body') = l + 1 /\ body'[l + 1] = r /\ l \in Nat
      /\ \A k \in 1..l : body'[k] = body[k]
  BY <1>0
<1>2. Len(r.rows) = m /\ \A i \in 1..m : r.rows[i] = MaskedRow(n + i) BY DEF Masked
<1>3. \A p : p \in Places' <=> p \in Places \/ \E i \in 1..m : p = <<l + 1, i>>
  <2>1. \A p : p \in Places' <=>
           \E k \in 1..(l + 1) : \E i \in 1..Len(body'[k].rows) : p = <<k, i>>
    BY <1>1, PlaceFactsNext
  <2>2. \A k : k \in 1..(l + 1) <=> k \in 1..l \/ k = l + 1 BY <1>1
  <2>3. \A p : p \in Places <=> \E k \in 1..l : \E i \in 1..Len(body[k].rows) : p = <<k, i>>
    BY <1>0, PlaceFacts, Zenon
  <2> QED BY <1>1, <1>2, <2>1, <2>2, <2>3, Zenon
<1>4. \A p \in Places : RowAt(p)' = RowAt(p) /\ p[1] \in 1..l
  <2> SUFFICES ASSUME NEW p \in Places PROVE RowAt(p)' = RowAt(p) /\ p[1] \in 1..l OBVIOUS
  <2>1. p[1] \in 1..l BY <1>0, PlaceFacts
  <2> QED BY <1>1, <2>1, Zenon DEF RowAt
<1>5. \A i \in 1..m : /\ <<l + 1, i>> \in Places'
                      /\ RowAt(<<l + 1, i>>)' = MaskedRow(n + i)
  <2> SUFFICES ASSUME NEW i \in 1..m
               PROVE  <<l + 1, i>> \in Places' /\ RowAt(<<l + 1, i>>)' = MaskedRow(n + i)
    OBVIOUS
  <2>1. <<l + 1, i>>[1] = l + 1 /\ <<l + 1, i>>[2] = i OBVIOUS
  <2>2. RowAt(<<l + 1, i>>)' = r.rows[i] BY <1>1, <2>1, Zenon DEF RowAt
  <2> QED BY <1>2, <1>3, <2>2, Zenon
<1>6. \A p \in Places' : \E i \in 1..(n + m) : RowAt(p)' = MaskedRow(i)
  <2> SUFFICES ASSUME NEW p \in Places' PROVE \E i \in 1..(n + m) : RowAt(p)' = MaskedRow(i)
    OBVIOUS
  <2>1. CASE p \in Places
    <3>1. PICK i \in 1..n : RowAt(p) = MaskedRow(i) BY <2>1, Zenon DEF Lined
    <3>2. i \in 1..(n + m) OBVIOUS
    <3> QED BY <1>4, <2>1, <3>1, <3>2, Zenon
  <2>2. CASE \E i \in 1..m : p = <<l + 1, i>>
    <3>1. PICK i \in 1..m : p = <<l + 1, i>> BY <2>2
    <3>2. n + i \in 1..(n + m) OBVIOUS
    <3> QED BY <1>5, <3>1, <3>2, Zenon
  <2> QED BY <1>3, <2>1, <2>2, Zenon
<1>7. \A i \in 1..(n + m) : \E p \in Places' : RowAt(p)' = MaskedRow(i)
  <2> SUFFICES ASSUME NEW i \in 1..(n + m) PROVE \E p \in Places' : RowAt(p)' = MaskedRow(i)
    OBVIOUS
  <2>1. CASE i \in 1..n
    <3>1. PICK p \in Places : RowAt(p) = MaskedRow(i) BY <2>1, Zenon DEF Lined
    <3> QED BY <1>3, <1>4, <3>1, Zenon
  <2>2. CASE i \notin 1..n
    <3>1. PICK j \in 1..m : i = n + j
      <4>1. i - n \in 1..m /\ i = n + (i - n) BY <2>2
      <4> QED BY <4>1
    <3> QED BY <1>5, <3>1, Zenon
  <2> QED BY <2>1, <2>2
<1>8. ASSUME NEW p \in Places', NEW q \in Places',
             p[1] < q[1] \/ (p[1] = q[1] /\ p[2] < q[2])
      PROVE  RowAt(p)'.row < RowAt(q)'.row
  <2>1. CASE p \in Places /\ q \in Places BY <1>4, <1>8, <2>1, Zenon DEF Lined
  <2>2. CASE p \in Places /\ \E i \in 1..m : q = <<l + 1, i>>
    <3>1. PICK i \in 1..m : q = <<l + 1, i>> BY <2>2
    <3>2. PICK j \in 1..n : RowAt(p) = MaskedRow(j) BY <2>2, Zenon DEF Lined
    <3>3. RowAt(p)' = MaskedRow(j) /\ RowAt(q)' = MaskedRow(n + i)
      BY <1>4, <1>5, <2>2, <3>1, <3>2, Zenon
    <3>4. RowAt(p)'.row = j /\ RowAt(q)'.row = n + i BY <3>3, RowNumber
    <3> QED BY <3>4
  <2>3. CASE (\E i \in 1..m : p = <<l + 1, i>>) /\ q \in Places
    <3>1. p[1] = l + 1 /\ q[1] \in 1..l BY <1>4, <2>3
    <3> QED BY <1>1, <1>8, <3>1
  <2>4. CASE (\E i \in 1..m : p = <<l + 1, i>>) /\ (\E i \in 1..m : q = <<l + 1, i>>)
    <3>1. PICK i \in 1..m : p = <<l + 1, i>> BY <2>4
    <3>2. PICK j \in 1..m : q = <<l + 1, j>> BY <2>4
    <3>3. i < j BY <1>1, <1>8, <3>1, <3>2
    <3>4. RowAt(p)'.row = n + i /\ RowAt(q)'.row = n + j BY <1>5, <3>1, <3>2, RowNumber
    <3> QED BY <3>3, <3>4
  <2> QED BY <1>3, <2>1, <2>2, <2>3, <2>4, Zenon
<1> QED BY <1>6, <1>7, <1>8, Zenon DEF Lined

\* Nothing is in an empty body, and one part is all of its rows.
LEMMA LinedEmpty == ASSUME body = <<>> PROVE Lined(0) /\ body \in Seq(PartRec)
<1>1. Places = {} BY DEF Places
<1>2. \A i : i \notin 1..0 OBVIOUS
<1>3. Lined(0) BY <1>1, <1>2, Zenon DEF Lined
<1> QED BY <1>3

\* Rows that were masked are rows of a part.
LEMMA MaskedRows == \A a, b \in Nat : Masked(a, a + b) \in Seq(Row)
<1> SUFFICES ASSUME NEW a \in Nat, NEW b \in Nat PROVE Masked(a, a + b) \in Seq(Row) BY Zenon
<1>1. Masked(a, a + b) = [i \in 1..b |-> MaskedRow(a + i)]
  <2>1. (a + b) - a = b OBVIOUS
  <2> QED BY <2>1, Zenon DEF Masked
<1>2. \A i \in 1..b : MaskedRow(a + i) \in Row
  <2> SUFFICES ASSUME NEW i \in 1..b PROVE MaskedRow(a + i) \in Row OBVIOUS
  <2>1. a + i \in Nat OBVIOUS
  <2> QED BY <2>1, Zenon DEF Row
<1>3. [i \in 1..b |-> MaskedRow(a + i)] \in [1..b -> Row] BY <1>2, Zenon
<1> QED BY <1>1, <1>3

\* Parts are parts.
LEMMA BarePart ==
  ASSUME NEW kind \in Kinds
  PROVE  /\ Part(kind, <<>>) \in PartRec /\ Part(kind, <<>>).rows = <<>>
         /\ Part(kind, <<>>).kind = kind
<1>1. <<>> \in Seq(Row) OBVIOUS
<1>2. Part(kind, <<>>) \in [kind : Kinds, rows : Seq(Row)] BY <1>1, Zenon DEF Part
<1> QED BY <1>2 DEF Part, PartRec

LEMMA RowsPart ==
  ASSUME NEW a \in Nat, NEW b \in Nat
  PROVE  LET r == Part("rows", Masked(a, a + b))
         IN  r \in PartRec /\ r.rows = Masked(a, a + b) /\ r.kind = "rows"
<1>1. Masked(a, a + b) \in Seq(Row) /\ "rows" \in Kinds BY MaskedRows, Zenon DEF Kinds
<1>2. Part("rows", Masked(a, a + b)) \in [kind : Kinds, rows : Seq(Row)] BY <1>1, Zenon DEF Part
<1> QED BY <1>2 DEF Part, PartRec

LEMMA LastPart ==
  ASSUME NEW kind \in Kinds, NEW rows \in Seq(Row), NEW count \in Nat, NEW cut \in BOOLEAN
  PROVE  LET r == [kind |-> kind, rows |-> rows, count |-> count, cut |-> cut]
         IN  r \in PartRec /\ r.rows = rows /\ r.kind = kind /\ r.count = count /\ r.cut = cut
<1> DEFINE r == [kind |-> kind, rows |-> rows, count |-> count, cut |-> cut]
<1>1. r \in [kind : Kinds, rows : Seq(Row), count : Nat, cut : BOOLEAN] BY Zenon
<1>2. r.rows = rows /\ r.kind = kind /\ r.count = count /\ r.cut = cut BY Zenon
<1> QED BY <1>1, <1>2, Zenon DEF PartRec

\* The invariant of the body is inductive (one action per case).
LEMMA PortalStep == PortalInv /\ [PortalNext]_portalVars => PortalInv'
<1> SUFFICES ASSUME PortalInv, [PortalNext]_portalVars PROVE PortalInv' OBVIOUS
<1>0. Asked /\ Task /\ Sent /\ Told BY DEF PortalInv
<1>1. PICK n \in 0..pulled : Lined(n) /\ (client = "reading" => n = pulled) BY <1>0 DEF Sent
<1>2. /\ n \in Nat /\ pulled \in Nat /\ max_total \in Nat /\ result \in Nat /\ body \in Seq(PartRec)
      /\ pulled <= result
  BY <1>0, PortalAssumption DEF Asked
<1>3. ASSUME UNCHANGED <<pulled, body, client>> PROVE Sent'
  <2>1. Places' = Places BY <1>3 DEF Places
  <2>2. \A p : RowAt(p)' = RowAt(p) BY <1>3, Zenon DEF RowAt
  <2>3. Lined(n)' BY <1>1, <2>1, <2>2, Zenon DEF Lined
  <2> QED BY <1>1, <1>3, <2>3, Zenon DEF Sent
<1>4. ASSUME UNCHANGED request PROVE max_total' = max_total BY <1>4 DEF request, max_total
<1>5. ASSUME NEW r \in PartRec, body' = Append(body, r)
      PROVE  /\ body' \in Seq(PartRec) /\ body' # <<>> /\ Len(body') = Len(body) + 1
             /\ body'[Len(body) + 1] = r /\ \A k \in 1..Len(body) : body'[k] = body[k]
             /\ body # <<>> => body'[1] = body[1]
             /\ body = <<>> => body'[1] = r
  BY <1>2, <1>5
<1>6. CASE Open
  <2>1. /\ stage = "open" /\ source = "stream" /\ UNCHANGED <<request, source, pulled>>
        /\ \E kind \in {"meta", "header", "prefix"} : Send(Part(kind, <<>>), "pull")
    BY <1>6 DEF Open, ndjson_meta, csv_header, json_prefix
  <2>2. PICK kind \in {"meta", "header", "prefix"} : Send(Part(kind, <<>>), "pull") BY <2>1
  <2>3. Part(kind, <<>>) \in PartRec /\ Part(kind, <<>>).rows = <<>> /\ Part(kind, <<>>).kind = kind
    BY BarePart DEF Kinds
  <2>4. body = <<>> /\ pulled = 0 /\ client = "reading" /\ max_total' = max_total
    BY <1>0, <1>4, <2>1 DEF Task
  <2>5. CASE body' = Append(body, Part(kind, <<>>)) /\ stage' = "pull" /\ client' = client
    <3>1. /\ body' \in Seq(PartRec) /\ Len(body') = Len(body) + 1 /\ body'[Len(body) + 1].kind = kind
          /\ \A k \in 1..Len(body) : body'[k] = body[k]
      BY <1>5, <2>3, <2>5
    <3>2. Lined(n)' BY <1>1, <1>2, <2>3, <2>5, AppendBare
    <3>3. Sent' BY <1>1, <2>1, <2>5, <3>2, Zenon DEF Sent
    <3>4. \A k \in 1..Len(body') : body'[k].kind \notin {"trailer", "document"} BY <2>2, <2>4, <3>1
    <3>5. Asked' BY <1>0, <2>1, <2>4, <2>5, <3>1 DEF Asked, request
    <3>6. Task' BY <1>2, <2>1, <2>4, <2>5, <3>4 DEF Task
    <3>7. Told' BY <1>2, <2>1, <2>4, <3>4 DEF Told
    <3> QED BY <3>3, <3>5, <3>6, <3>7 DEF PortalInv
  <2>6. CASE client' = "gone" /\ stage' = "drain" /\ body' = body
    <3>1. Places' = Places BY <2>6 DEF Places
    <3>2. \A p : RowAt(p)' = RowAt(p) BY <2>6, Zenon DEF RowAt
    <3>3. Lined(n)' BY <1>1, <3>1, <3>2, Zenon DEF Lined
    <3>4. Sent' BY <1>1, <2>1, <2>6, <3>3 DEF Sent
    <3>5. Asked' BY <1>0, <2>1, <2>4, <2>6 DEF Asked, request
    <3>6. Task' BY <1>2, <2>1, <2>4, <2>6 DEF Task
    <3>7. Told' BY <2>4, <2>6 DEF Told
    <3> QED BY <3>4, <3>5, <3>6, <3>7 DEF PortalInv
  <2> QED BY <2>2, <2>5, <2>6 DEF Send, Wrote, Gone
<1>7. CASE Pull
  <2>0. /\ stage = "pull" /\ source = "stream" /\ pulled < max_total /\ UNCHANGED request
        /\ client = "reading" /\ n = pulled /\ max_total' = max_total
        /\ \A k \in 1..Len(body) : body[k].kind \notin {"trailer", "document"}
    BY <1>0, <1>1, <1>4, <1>7 DEF Pull, Task
  <2>1. ASSUME pulled < result, NEW m \in 1..Min({Want, result - pulled}), pulled' = pulled + m,
               Send(Part("rows", Masked(pulled, pulled + m)), "pull"), source' = source
        PROVE  PortalInv'
    <3> DEFINE r == Part("rows", Masked(n, n + m))
    <3>1. m \in Nat /\ m <= result - pulled /\ m <= max_total - pulled
      <4> DEFINE a == Min({max_total - pulled, window})
                 c == Min({Want, result - pulled})
      <4>1. /\ window \in Int /\ max_total - pulled \in Int /\ max_total - pulled >= 1
            /\ result - pulled \in Int /\ 1 \in Int
        BY <1>0, <1>2, <2>0 DEF Asked
      <4>2. a \in Int /\ a <= max_total - pulled BY <4>1, MinPair, Zenon
      <4>3. Want = Max({a, 1}) BY Zenon DEF Want
      <4> HIDE DEF a
      <4>4. Want \in Int /\ Want \in {a, 1} BY <4>1, <4>2, <4>3, MaxPair, Zenon
      <4>5. Want <= max_total - pulled BY <4>1, <4>2, <4>4
      <4>6. c \in Int /\ c <= Want /\ c <= result - pulled BY <4>1, <4>4, MinPair, Zenon
      <4>7. m \in 1..c OBVIOUS
      <4> HIDE DEF c
      <4> QED BY <4>1, <4>4, <4>5, <4>6, <4>7
    <3>2. r \in PartRec /\ r.rows = Masked(n, n + m) /\ r.kind = "rows" BY <1>2, <3>1, RowsPart, Zenon
    <3>3. Send(r, "pull") BY <2>0, <2>1, Zenon
    <3>p. pulled' \in Nat /\ pulled' <= result /\ pulled' <= max_total /\ n <= pulled' /\ pulled' = n + m
      BY <1>2, <2>0, <2>1, <3>1
    <3> HIDE DEF r
    <3>4. CASE body' = Append(body, r) /\ stage' = "pull" /\ client' = client
      <4>1. /\ body' \in Seq(PartRec) /\ Len(body') = Len(body) + 1 /\ body'[Len(body) + 1].kind = "rows"
            /\ \A k \in 1..Len(body) : body'[k] = body[k]
        BY <1>5, <3>2, <3>4
      <4>2. Lined(n + m)' BY <1>1, <1>2, <3>1, <3>2, <3>4, AppendWindow
      <4>3. n + m \in 0..pulled' /\ n + m = pulled' BY <3>p
      <4>4. Sent' BY <4>2, <4>3, Zenon DEF Sent
      <4>5. \A k \in 1..Len(body') : body'[k].kind \notin {"trailer", "document"} BY <1>2, <2>0, <4>1
      <4>6. Asked' BY <1>0, <2>0, <2>1, <3>p, <3>4, <4>1 DEF Asked, request
      <4>7. Task' BY <2>0, <2>1, <3>p, <3>4, <4>5 DEF Task
      <4>8. Told' BY <2>0, <3>p, <4>5 DEF Told
      <4> QED BY <4>4, <4>6, <4>7, <4>8 DEF PortalInv
    <3>5. CASE client' = "gone" /\ stage' = "drain" /\ body' = body
      <4>1. Places' = Places BY <3>5 DEF Places
      <4>2. \A p : RowAt(p)' = RowAt(p) BY <3>5, Zenon DEF RowAt
      <4>3. Lined(n)' BY <1>1, <4>1, <4>2, Zenon DEF Lined
      <4>4. n \in 0..pulled' /\ client' # "reading" BY <1>2, <3>p, <3>5
      <4>5. Sent' BY <4>3, <4>4, Zenon DEF Sent
      <4>6. Asked' BY <1>0, <2>0, <2>1, <3>p, <3>5 DEF Asked, request
      <4>7. Task' BY <2>0, <2>1, <3>p, <3>5 DEF Task
      <4>8. Told' BY <2>0, <3>p, <3>5 DEF Told
      <4> QED BY <4>5, <4>6, <4>7, <4>8 DEF PortalInv
    <3> QED BY <3>3, <3>4, <3>5 DEF Send, Wrote, Gone
  <2>2. ASSUME stage' = "close", UNCHANGED <<pulled, body, client>>,
               source' = "error" \/ (source' = "done" /\ pulled = result)
        PROVE  PortalInv'
    <3>1. Sent' BY <1>3, <2>2
    <3>2. Asked' BY <1>0, <2>0, <2>2 DEF Asked, request
    <3>3. Task' BY <1>2, <2>0, <2>2 DEF Task, request
    <3>4. Told' BY <1>2, <2>0, <2>2 DEF Told
    <3> QED BY <3>1, <3>2, <3>3, <3>4 DEF PortalInv
  <2> QED BY <1>7, <2>1, <2>2 DEF Pull
<1>8. ASSUME Capped \/ Drain PROVE PortalInv'
  <2>1. UNCHANGED <<request, pulled, body, client>> /\ max_total' = max_total
    BY <1>4, <1>8 DEF Capped, Drain
  <2>2. Sent' BY <1>3, <2>1
  <2>3. /\ stage' \in {"truncated", "end", "cut"} /\ source' \in {"stream", "done", "error"}
        /\ stage' = "truncated" => source' = "stream" /\ client = "reading" /\ pulled = max_total
        /\ stage' = "cut" => client = "reading" /\ pulled = max_total
        /\ stage' # "truncated" => source' \in {"done", "error"}
        /\ stage # "end" /\ stage # "open"
    BY <1>0, <1>2, <1>8 DEF Capped, Drain, Task
  <2>4. \A k \in 1..Len(body) : body[k].kind \notin {"trailer", "document"} BY <1>0, <2>3 DEF Task
  <2>5. Asked' BY <1>0, <2>1, <2>3 DEF Asked, request
  <2>6. pulled <= max_total BY <1>0, <2>3 DEF Task
  <2>7. Task' BY <1>2, <2>1, <2>3, <2>4, <2>6 DEF Task
  <2>8. Told' BY <2>1, <2>4, <2>6 DEF Told
  <2> QED BY <2>2, <2>5, <2>7, <2>8 DEF PortalInv
<1>10. CASE Close
  <2>0. /\ stage \in {"close", "cut"} /\ stage' = "end" /\ UNCHANGED <<request, source, pulled, client>>
        /\ source \in {"done", "error"} /\ client = "reading" /\ pulled <= max_total
        /\ max_total' = max_total /\ n = pulled
        /\ \A k \in 1..Len(body) : body[k].kind \notin {"trailer", "document"}
    BY <1>0, <1>1, <1>4, <1>10 DEF Close, Task
  <2>t. /\ json_trailer \in PartRec /\ json_trailer.rows = <<>> /\ json_trailer.kind = "trailer"
        /\ json_trailer.count = pulled /\ json_trailer.cut = (stage = "cut")
    <3>1. "trailer" \in Kinds /\ (stage = "cut") \in BOOLEAN BY DEF Kinds
    <3>2. <<>> \in Seq(Row) OBVIOUS
    <3> QED BY <1>2, <3>1, <3>2, LastPart, Zenon DEF json_trailer
  <2>m. "mark" \in Kinds BY DEF Kinds
  <2>1. CASE body' = body
    <3>1. Sent' BY <1>3, <2>0, <2>1
    <3>2. Asked' BY <1>0, <2>0, <2>1 DEF Asked, request
    <3>3. Task' BY <2>0 DEF Task
    <3>4. Told' BY <2>0, <2>1 DEF Told
    <3> QED BY <3>1, <3>2, <3>3, <3>4 DEF PortalInv
  <2>2. ASSUME NEW r \in PartRec, r.rows = <<>>, body' = Append(body, r), r.kind \in {"trailer", "mark"},
               r.kind = "trailer" => r.count = pulled /\ (r.cut <=> stage = "cut")
        PROVE  PortalInv'
    <3>1. /\ body' \in Seq(PartRec) /\ Len(body') = Len(body) + 1 /\ body'[Len(body) + 1] = r
          /\ \A k \in 1..Len(body) : body'[k] = body[k]
      BY <1>5, <2>2
    <3>2. Lined(n)' BY <1>1, <1>2, <2>2, AppendBare
    <3>3. Sent' BY <1>1, <2>0, <3>2, Zenon DEF Sent
    <3>4. \A k \in 1..Len(body') : body'[k].kind = "trailer" => body'[k] = r BY <1>2, <2>0, <3>1
    <3>5. r.kind = "trailer" => /\ r.count = pulled /\ (~r.cut /\ source = "done" => pulled = result)
                               /\ (r.cut => pulled = max_total)
      BY <1>0, <2>0, <2>2 DEF Task
    <3>6. Told' BY <2>0, <3>4, <3>5 DEF Told, request
    <3>7. Asked' BY <1>0, <2>0, <3>1 DEF Asked, request
    <3>8. Task' BY <2>0 DEF Task
    <3> QED BY <3>3, <3>6, <3>7, <3>8 DEF PortalInv
  <2>3. \/ body' = body \/ body' = Append(body, json_trailer) \/ body' = Append(body, Part("mark", <<>>))
    BY <1>10 DEF Close
  <2>4. CASE body' = Append(body, json_trailer) BY <2>2, <2>4, <2>t, Zenon
  <2>5. CASE body' = Append(body, Part("mark", <<>>)) BY <2>2, <2>5, <2>m, BarePart
  <2> QED BY <2>1, <2>3, <2>4, <2>5
<1>11. CASE Complete
  <2> DEFINE obliged == Min({result, policyCap})
             kept == IF fmt = "ndjson" THEN obliged ELSE Min({obliged, max_total})
             r == [kind |-> "document", rows |-> Masked(0, kept), count |-> kept, cut |-> obliged >= max_total]
  <2>0. /\ stage = "open" /\ body' = <<r>> /\ pulled' = kept /\ source' = "done" /\ stage' = "end"
        /\ UNCHANGED <<request, client>>
    BY <1>11, Zenon DEF Complete
  <2>1. body = <<>> /\ client = "reading" /\ policyCap \in Nat /\ max_total' = max_total
    BY <1>0, <1>4, <2>0 DEF Task, Asked
  <2>2. obliged \in Nat /\ obliged <= result
    <3>1. result \in Int /\ policyCap \in Int BY <1>2, <2>1
    <3>2. obliged \in {result, policyCap} /\ obliged <= result BY <3>1, MinPair, Zenon
    <3> HIDE DEF obliged
    <3> QED BY <1>2, <2>1, <3>2
  <2>3. kept \in Nat /\ kept <= result
    <3> HIDE DEF obliged
    <3> DEFINE b == Min({obliged, max_total})
    <3>1. obliged \in Int /\ max_total \in Int BY <1>2, <2>2
    <3>2. b \in {obliged, max_total} /\ b <= obliged BY <3>1, MinPair, Zenon
    <3> HIDE DEF b
    <3>3. b \in Nat /\ b <= result BY <1>2, <2>2, <3>2
    <3> QED BY <2>2, <3>3 DEF b
  <2>4. r \in PartRec /\ r.rows = Masked(0, 0 + kept) /\ r.kind = "document"
    <3> HIDE DEF kept, obliged
    <3>1. "document" \in Kinds /\ (obliged >= max_total) \in BOOLEAN /\ 0 + kept = kept BY <2>3 DEF Kinds
    <3>2. Masked(0, kept) \in Seq(Row) BY <2>3, <3>1, MaskedRows
    <3> QED BY <2>3, <3>1, <3>2, LastPart, Zenon
  <2> HIDE DEF r, kept, obliged
  <2>5. PICK d \in PartRec : d = r BY <2>4
  <2>6. PICK m \in Nat : m = kept BY <2>3
  <2>7. body' = Append(body, d) BY <2>0, <2>1, <2>5
  <2>8. d.rows = Masked(0, 0 + m) /\ d.kind = "document" BY <2>4, <2>5, <2>6, Zenon
  <2>9. Lined(0) BY <2>1, LinedEmpty
  <2>10. Lined(0 + m)' BY <1>2, <2>7, <2>8, <2>9, AppendWindow, Zenon
  <2>11. 0 + m \in 0..pulled' /\ 0 + m = pulled' BY <2>0, <2>6
  <2>12. Sent' BY <2>10, <2>11, Zenon DEF Sent
  <2>13. body' \in Seq(PartRec) /\ Len(body') = 1 /\ body'[1].kind = "document" BY <2>1, <2>7, <2>8
  <2>14. Asked' BY <1>0, <2>0, <2>1, <2>3, <2>13 DEF Asked, request
  <2>15. Task' BY <2>0 DEF Task
  <2>16. \A k \in 1..Len(body') : body'[k].kind # "trailer" BY <2>13
  <2>17. Told' BY <2>13, <2>16 DEF Told
  <2> QED BY <2>12, <2>14, <2>15, <2>17 DEF PortalInv
<1>12. CASE Refused
  <2>1. /\ stage = "open" /\ source' = "error" /\ stage' = "end"
        /\ UNCHANGED <<request, pulled, body, client>> /\ body = <<>>
    BY <1>0, <1>12 DEF Refused, Task
  <2>2. Sent' BY <1>3, <2>1
  <2>3. Asked' BY <1>0, <2>1, <1>4 DEF Asked, request
  <2>4. Task' BY <2>1 DEF Task
  <2>5. Told' BY <2>1 DEF Told
  <2> QED BY <2>2, <2>3, <2>4, <2>5 DEF PortalInv
<1>13. CASE UNCHANGED portalVars
  <2>1. UNCHANGED <<request, source, pulled, body, client, stage>> BY <1>13 DEF portalVars
  <2>2. Sent' BY <1>3, <2>1
  <2>3. Asked' BY <1>0, <1>4, <2>1 DEF Asked, request
  <2>4. Task' BY <1>0, <1>4, <2>1 DEF Task, request
  <2>5. Told' BY <1>0, <1>4, <2>1 DEF Told, request
  <2> QED BY <2>2, <2>3, <2>4, <2>5 DEF PortalInv
<1> QED BY <1>6, <1>7, <1>8, <1>10, <1>11, <1>12, <1>13 DEF PortalNext

\* The body of a portal answer is the beginning of the result, masked and in
\* order, within the cap, tells the truth about itself, and the backend's stream
\* is drained, for every length of the result, window and cap and every point at
\* which the backend fails or the client goes away
\* (portal_execute_ndjson_streaming, _csv_streaming and _json_streaming).
THEOREM BodyAlwaysSound == PortalSpec => []BodySound
<1>1. PortalInit => PortalInv
  <2> SUFFICES ASSUME PortalInit PROVE PortalInv OBVIOUS
  <2>1. /\ body = <<>> /\ pulled = 0 /\ client = "reading" /\ stage = "open"
        /\ source \in {"stream", "complete"} /\ fmt \in Formats /\ policyCap \in Caps
        /\ window \in Windows /\ result \in 0..MaxRows
    BY DEF PortalInit
  <2>2. max_total \in Nat BY PortalAssumption DEF PortalInit, max_total, NoCap
  <2>3. Lined(0) /\ body \in Seq(PartRec) BY <2>1, LinedEmpty
  <2>4. Sent BY <2>1, <2>3 DEF Sent
  <2>5. Asked BY <2>1, <2>2, <2>3, PortalAssumption DEF Asked
  <2>6. Task BY <2>1, <2>2 DEF Task
  <2>7. Told BY <2>1 DEF Told
  <2> QED BY <2>4, <2>5, <2>6, <2>7 DEF PortalInv
<1>2. PortalInv /\ [PortalNext]_portalVars => PortalInv' BY PortalStep
<1> QED BY <1>1, <1>2, PortalSuffices, PTL DEF PortalSpec

=============================================================================
