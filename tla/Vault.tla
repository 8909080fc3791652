------------------------------- MODULE Vault -------------------------------
(***************************************************************************)
(* The leases of the portal: VaultStore of gateway/core/src/vault.rs and    *)
(* install_vault_store, which every build of a runtime plan and every       *)
(* reload of the security section calls.                                    *)
(*                                                                          *)
(* A lease is named by its issue time and sequence number.  Every operation *)
(* changes the map under its lock, gives the lock up and then saves; an     *)
(* install reads the file into a new store and then copies that store over  *)
(* the one in use.  The store is kept in memory, in a plain file (without   *)
(* the backend passwords) or in a sealed file (with them).                  *)
(***************************************************************************)
EXTENDS Naturals, FiniteSets, FiniteSetsExt, Functions

CONSTANTS Stores,       \* the values of security.state considered
          Ttls,         \* the lifetimes asked for
          Installers,   \* the requests that may build a plan or reload
          MaxClock, MaxLeases, MaxSaves

ASSUME VaultAssumption == Ttls \subseteq Nat /\ MaxClock \in Nat \ {0} /\ MaxSaves \in Nat

VARIABLES store,        \* the backend in force, fixed
          now, seq,
          leases,       \* id -> lease, the map in memory
          disk,         \* id -> lease, the file
          saving,       \* operations that have not yet saved
          loaded,       \* installer -> the store it has read, if any
          saves,        \* operations so far, a bound
          granted,      \* history: id -> the expiry the last caller was told
          withdrawn,    \* history: the leases somebody revoked
          behind,       \* history: the leases whose last change the map lacks,
          unsaved,      \*          the file lacks,
          unread        \*          the copy that an installer has read lacks

told == <<granted, withdrawn>>
lacks == <<behind, unsaved, unread>>
vaultVars == <<store, now, seq, leases, disk, saving, loaded, saves, told, lacks>>

None == <<>>
NoLeases == [x \in {} |-> [exp |-> 0, revoked |-> FALSE, secret |-> FALSE]]
New == [leases |-> NoLeases, seq |-> 1]

With(f, id, r) == [x \in DOMAIN f \cup {id} |-> IF x = id THEN r ELSE f[x]]

(* Mutant of is_active: the expiry, which a revocation sets too, is enough.  *)
is_active_expiry(lease) == lease.exp >= now
is_active(lease) == ~lease.revoked /\ lease.exp >= now

get_valid_lease(id) == id \in DOMAIN leases /\ is_active(leases[id])

(* The password that backend_identity hands out with the user name.         *)
backend_identity(id) == get_valid_lease(id) /\ leases[id].secret

write_file_locked(ls) ==
  [id \in DOMAIN ls |-> [ls[id] EXCEPT !.secret = @ /\ store = "sealed"]]

load_from_disk(ls) == [leases |-> ls, seq |-> Max({1} \cup {id[2] + 1 : id \in DOMAIN ls})]

VaultInit ==
  /\ store \in Stores
  /\ now = 1 /\ seq = 1 /\ leases = NoLeases /\ disk = NoLeases
  /\ saving = 0 /\ saves = 0
  /\ loaded = [i \in Installers |-> None]
  /\ granted = [x \in {} |-> 0] /\ withdrawn = {}
  /\ behind = {} /\ unsaved = {} /\ unread = [i \in Installers |-> {}]

Tick == now < MaxClock /\ now' = now + 1
        /\ UNCHANGED <<store, seq, leases, disk, saving, loaded, saves, told, lacks>>

-----------------------------------------------------------------------------
(* The operations of the admin API                                          *)

(* The map becomes ls, which tells of a change to each of ids; the save is   *)
(* to come, and who has read the file before does not know of them.          *)
Saved(ls, ids) ==
  /\ leases' = ls /\ saving' = saving + 1
  /\ saves < MaxSaves /\ saves' = saves + 1
  /\ behind' = behind \ ids /\ unsaved' = unsaved \cup ids
  /\ unread' = [i \in Installers |-> IF loaded[i] = None THEN {} ELSE unread[i] \cup ids]
  /\ UNCHANGED <<store, now, disk, loaded>>

issue_lease(ttl) ==
  LET id == <<now, seq>> IN
  /\ Cardinality(DOMAIN granted \cup {id}) <= MaxLeases
  /\ seq' = seq + 1
  /\ Saved(With(leases, id, [exp |-> now + ttl, revoked |-> FALSE, secret |-> TRUE]), {id})
  /\ granted' = With(granted, id, now + ttl)
  /\ withdrawn' = withdrawn \ {id}

revoke(id) ==
  /\ id \in DOMAIN leases /\ ~leases[id].revoked
  /\ Saved([leases EXCEPT ![id] = [exp |-> now, revoked |-> TRUE, secret |-> FALSE]], {id})
  /\ withdrawn' = withdrawn \cup {id}
  /\ UNCHANGED <<seq, granted>>

(* A lease that came back after it was revoked can be renewed: its           *)
(* revocation stays lost.                                                    *)
renew(id, ttl) ==
  /\ id \in DOMAIN leases /\ ~leases[id].revoked
  /\ Saved([leases EXCEPT ![id].exp = now + Max({ttl, 1})], {id} \ withdrawn)
  /\ granted' = With(granted, id, now + Max({ttl, 1}))
  /\ UNCHANGED <<seq, withdrawn>>

Pruned == {id \in DOMAIN leases : is_active(leases[id])}

prune_expired ==
  /\ Pruned # DOMAIN leases
  /\ Saved(Restrict(leases, Pruned), {})
  /\ UNCHANGED <<seq, told>>

(* persist takes the lock of the map again: it writes what is there now.    *)
(* Its error is dropped by every caller; the next save makes up for it.     *)
persist ==
  /\ saving > 0 /\ saving' = saving - 1
  /\ \/ store # "memory" /\ disk' = write_file_locked(leases) /\ unsaved' = behind
     \/ UNCHANGED <<disk, unsaved>>
  /\ UNCHANGED <<store, now, seq, leases, loaded, saves, told, behind, unread>>

-----------------------------------------------------------------------------
(* install_vault_store, called by the portal, by an added listener and by   *)
(* a reload: it reads the file, then reconfigure_from copies.               *)

Fresh == IF store = "memory" THEN New ELSE load_from_disk(disk)
Missing == IF store = "memory" THEN DOMAIN granted ELSE unsaved

install_vault_store(i) ==
  /\ loaded[i] = None
  /\ loaded' = [loaded EXCEPT ![i] = <<Fresh>>]
  /\ unread' = [unread EXCEPT ![i] = Missing]
  /\ UNCHANGED <<store, now, seq, leases, disk, saving, saves, told, behind, unsaved>>

reconfigure_from(i) ==
  /\ loaded[i] # None
  /\ leases' = loaded[i][1].leases /\ seq' = loaded[i][1].seq
  /\ loaded' = [loaded EXCEPT ![i] = None]
  /\ behind' = unread[i] /\ unread' = [unread EXCEPT ![i] = {}]
  /\ UNCHANGED <<store, now, disk, saving, saves, told, unsaved>>

(* The process dies and is started again: with_file reads the file, a       *)
(* memory store begins empty.                                               *)
Restart ==
  /\ leases' = Fresh.leases /\ seq' = Fresh.seq /\ behind' = Missing
  /\ saving' = 0
  /\ loaded' = [i \in Installers |-> None] /\ unread' = [i \in Installers |-> {}]
  /\ saves < MaxSaves /\ saves' = saves + 1
  /\ UNCHANGED <<store, now, disk, told, unsaved>>

VaultNext ==
  \/ Tick \/ prune_expired \/ persist \/ Restart
  \/ \E ttl \in Ttls : issue_lease(ttl)
  \/ \E id \in DOMAIN leases : revoke(id)
  \/ \E id \in DOMAIN leases, ttl \in Ttls : renew(id, ttl)
  \/ \E i \in Installers : install_vault_store(i) \/ reconfigure_from(i)

VaultSpec == VaultInit /\ [][VaultNext]_vaultVars

-----------------------------------------------------------------------------
VaultTypeOK ==
  /\ now \in 1..MaxClock /\ seq \in 1..(MaxSaves + 1)
  /\ \A f \in {leases, disk} : \A id \in DOMAIN f :
       /\ id \in (1..MaxClock) \X (1..MaxSaves)
       /\ f[id] \in [exp : Nat, revoked : BOOLEAN, secret : BOOLEAN]

(* A revoked lease is never valid again, through any later renewal, prune,  *)
(* failed save, reload or restart.  The one exception: a reload or restart  *)
(* has put a copy in force that was read from the file before the           *)
(* revocation was in it (reconfigure_from, with_file), and nobody has       *)
(* revoked the lease again.                                                 *)
RevokedForGood == \A id \in withdrawn \ behind : ~get_valid_lease(id)

(* A lease is valid until the time its holder was told, unless somebody     *)
(* revoked it: no prune, failed save, plan, reload or restart takes it away *)
(* before.  The one exception is again the copy that lacks the issue or the *)
(* renewal of this very lease; every other lease is there.                  *)
ValidUntilTold ==
  \A id \in DOMAIN granted \ (withdrawn \cup behind) : granted[id] >= now => get_valid_lease(id)

(* A password is in the file only when the file is sealed, and it is gone   *)
(* from there for every revoked lease whose revocation the file has.        *)
SecretsOnDisk ==
  \A id \in DOMAIN disk : disk[id].secret =>
    store = "sealed" /\ (id \in withdrawn => id \in unsaved)

(* With a sealed file a valid lease can always be used at the backend, after*)
(* any failed save, overlapping reload or restart.                          *)
SealedUsable ==
  store = "sealed" => \A id \in DOMAIN leases : get_valid_lease(id) => backend_identity(id)

(* Two leases in the store never get one name: what load_from_disk makes of *)
(* the sequence is above every lease it has read.  A name that was given    *)
(* before is given again only within its millisecond, when that lease was   *)
(* revoked and pruned or when its issue was lost.                           *)
FreshIds ==
  /\ <<now, seq>> \notin DOMAIN leases
  /\ <<now, seq>> \in DOMAIN granted => <<now, seq>> \in withdrawn \cup behind

(* What the vault keeps through prunes, saves that fail, reloads that       *)
(* overlap and restarts: a revocation, a lease, the secrets and the names.  *)
LeasesKept ==
  VaultTypeOK /\ RevokedForGood /\ ValidUntilTold /\ SecretsOnDisk /\ SealedUsable /\ FreshIds

=============================================================================
