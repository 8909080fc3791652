----------------------------- MODULE MCPgSession -----------------------------
(* Small instances of PgSession. *)
EXTENDS PgSession

KindOf ==
    [list |-> "list", wild |-> "wild", write |-> "write", bad |-> "bad",
     danger |-> "dangerous"]

\* Clients of either configuration, that Sync a unit before a simple Query.
Ordinary ==
    {[passthrough |-> FALSE, mixes |-> FALSE, names |-> {"", "p"},
      texts |-> DOMAIN KindOf, pages |-> {0, 1, 2}],
     [passthrough |-> TRUE, mixes |-> FALSE, names |-> {"p"},
      texts |-> {"list", "wild", "bad"}, pages |-> {0, 2}]}

=============================================================================
