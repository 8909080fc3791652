------------------------------ MODULE MCEngine ------------------------------
(***************************************************************************)
(* Small instances of Engine: the listener plans that take every branch.    *)
(***************************************************************************)
EXTENDS Engine, TLC

Split == "p" :> "readwrite" @@ "q" :> "readwrite" @@ "r" :> "read"
Plan(front, cross, kind, endpoints, secured, passthrough, stream, plugins) ==
  [front |-> front, cross |-> cross, kind |-> kind, endpoints |-> endpoints, first |-> "p", secured |-> secured,
   passthrough |-> passthrough, stream |-> stream, plugins |-> plugins]

MCPlans ==
  {Plan("pg", FALSE, "split", Split, TRUE, TRUE, "streaming", FALSE),
   Plan("my", TRUE, "first", "p" :> "readwrite", FALSE, TRUE, "streaming", TRUE),
   Plan("pg", TRUE, "simple", "p" :> "readwrite" @@ "q" :> "readwrite", FALSE, FALSE, "streaming", FALSE),
   Plan("my", FALSE, "split", "p" :> "readwrite" @@ "q" :> "readwrite", TRUE, FALSE, "materialized", TRUE)}


=============================================================================
