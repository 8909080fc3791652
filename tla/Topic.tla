------------------------------- MODULE Topic -------------------------------
(***************************************************************************)
(* The state of a check of pure functions: a topic, and the input of the    *)
(* functions of that topic that is being looked at.                         *)
(***************************************************************************)
VARIABLES topic, input

vars == <<topic, input>>

(* An input of topic t is being looked at.                                  *)
Looking(t) == topic = t /\ input # <<>>

=============================================================================
