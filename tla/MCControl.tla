----------------------------- MODULE MCControl ------------------------------
(***************************************************************************)
(* The control plane of the gateway: the vault, the listeners and the body  *)
(* of a portal answer.  They share no state, so a behaviour looks at one of *)
(* them, its scene.                                                         *)
(***************************************************************************)
EXTENDS Vault, Listeners, Portal, TLC

CONSTANT Scenes         \* among "leases", "listeners" and "portal"

VARIABLE scene

vars == <<scene, vaultVars, listenerVars, portalVars>>

Init ==
  /\ scene \in Scenes
  /\ ListenersInit
  /\ IF scene = "leases" THEN VaultInit ELSE VaultInit /\ store = CHOOSE s \in Stores : TRUE
  /\ IF scene = "portal" THEN PortalInit
     ELSE /\ fmt = "json" /\ cap = <<>> /\ policyCap = 1 /\ window = 1 /\ result = 0
          /\ source = "stream" /\ pulled = 0 /\ body = <<>> /\ client = "reading" /\ stage = "open"

LeaseStep == scene = "leases" /\ VaultNext /\ UNCHANGED <<scene, listenerVars, portalVars>>
ListenerStep == scene = "listeners" /\ ListenersNext /\ UNCHANGED <<scene, vaultVars, portalVars>>
PortalStep == scene = "portal" /\ PortalNext /\ UNCHANGED <<scene, vaultVars, listenerVars>>

Next == LeaseStep \/ ListenerStep \/ PortalStep

(* The runtime polls every listener that can go on; a shutdown stays asked  *)
(* for until the loop has seen it.                                          *)
Fair == \A k \in 1..Len(Names) :
  WF_vars(/\ scene = "listeners" /\ k <= Len(runtimes) /\ Run(k)
          /\ UNCHANGED <<scene, vaultVars, portalVars>>)

Spec == Init /\ [][Next]_vars /\ Fair

-----------------------------------------------------------------------------
(***************************************************************************)
(* Small instances of Control.                                              *)
(***************************************************************************)

MCNames == <<"a", "b">>
Doc(a, b, r, s) == [listeners |-> "a" :> a @@ "b" :> b, rules |-> r, shape |-> s, route |-> 1, stuck |-> 0]
MCStart == Doc(1, 0, 1, 1)
MCDocs == {Doc(2, 0, 1, 2), Doc(0, 1, 1, 1), Doc(1, 0, 2, 1), [Doc(1, 1, 2, 1) EXCEPT !.stuck = 2]}

=============================================================================
