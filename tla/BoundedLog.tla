----------------------------- MODULE BoundedLog -----------------------------
(***************************************************************************)
(* What one bounded queue of the audit pipeline promises on its own: it is *)
(* a FIFO log that loses an event only when it is full, and then one event *)
(* per event added - the oldest or the new one, as the policy says.        *)
(***************************************************************************)
EXTENDS Naturals, Sequences

CONSTANTS Cap,   \* capacity of the queue
          Event

VARIABLES policy, \* the overflow policy, which never changes
          q,      \* the queue
          out,    \* the events taken, in order
          lost    \* the events given up

logVars == <<policy, q, out, lost>>

\* OverflowPolicy
Policy == {"drop_new", "drop_old", "sample", "block"}

EvictsOld == policy \in {"drop_old", "sample"}
RefusesNew == policy \in {"drop_new", "block", "sample"}

LogInit == policy \in Policy /\ q = <<>> /\ out = <<>> /\ lost = {}

Room(e) == Len(q) < Cap /\ q' = Append(q, e) /\ lost' = lost

Evict(e) ==
  /\ Len(q) >= Cap /\ EvictsOld /\ q # <<>>
  /\ q' = Append(Tail(q), e) /\ lost' = lost \cup {Head(q)}

Refuse(e) == Len(q) >= Cap /\ RefusesNew /\ q' = q /\ lost' = lost \cup {e}

Add(e) == (Room(e) \/ Evict(e) \/ Refuse(e)) /\ UNCHANGED <<policy, out>>

Take ==
  /\ q # <<>>
  /\ q' = Tail(q) /\ out' = Append(out, Head(q))
  /\ UNCHANGED <<policy, lost>>

LogNext == Take \/ \E e \in Event : Add(e)

LogSpec == LogInit /\ [][LogNext]_logVars

=============================================================================
