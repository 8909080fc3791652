----------------------------- MODULE Decisions -----------------------------
(***************************************************************************)
(* The pure functions of the gateway, each checked against a reference over *)
(* bounded inputs.  A behaviour picks a topic and looks at one input.       *)
(***************************************************************************)
EXTENDS SqlText, ResultPolicy, ObjectExtract, Translation, Routing, MySqlWire, GatewayConfig,
        AdminAccess, Sharding, PgWire, AdminApi, TLC

Inputs == SqlTextInputs @@ ResultPolicyInputs @@ ObjectInputs @@ TranslationInputs
            @@ DialectInputs @@ RoutingInputs @@ MySqlWireInputs @@ ConfigInputs @@ AdminInputs
            @@ ShardingInputs @@ PgInputs @@ AdminApiInputs @@ PgDialInputs

Init == topic \in DOMAIN Inputs /\ input = <<>>

Next == /\ input = <<>>
        /\ \E x \in Inputs[topic] : input' = <<x>>
        /\ UNCHANGED topic

Spec == Init /\ [][Next]_vars

-----------------------------------------------------------------------------
(* SQL text: comments, names, filters, marks and cursor statements are read *)
(* as the reference grammar reads them, and rewriting keeps the rest.       *)
StatementsRead ==
  /\ StripExact /\ TablesFound /\ DescribeNames /\ FilterExact /\ BindExact /\ ClassifyAsSaid
  /\ CursorRead /\ TicketCarried /\ Decoded /\ MarksCounted

(* Results: masks hide, caps and windows cut the same rows, and of two      *)
(* obligations the smaller cap, both filters and every masked column stay.  *)
ResultsGoverned ==
  WindowedAgrees /\ WatermarkOnce /\ MaskHides /\ MergeStricter /\ TimeRuleExact /\ GlobExact

(* What a statement touches is all found, by the MySQL walk but for WITH,   *)
(* ON and definitions, and what crosses from one protocol to the other      *)
(* keeps its meaning, characters outside ASCII apart, or is refused.        *)
StatementsCross ==
  /\ ObjectsComplete /\ MySqlObjectsComplete /\ StarMarked /\ PlaceholdersFound /\ HopExact
  /\ CrossesAllowed /\ TypesFit

(* Statements and rows go where they belong: reads to replicas, writes to   *)
(* the writer, each row to the shard of its key, and the answers together.  *)
StatementsPlaced ==
  /\ ReplicaReadsOnly /\ ReadsSpread /\ RoundRobinFair /\ RandomFair /\ WritesToWriters /\ RoleTrue
  /\ InsertsWhole /\ RowsCovered /\ EditsLand /\ AnswersWhole /\ MergeWhole

(* The codecs: what one end writes the other end reads, for both protocols. *)
WiresCarry ==
  /\ NumbersDecoded /\ ParamsBound /\ RowsArrive /\ TextRowsKept /\ LengthsKept
  /\ MessagesRead /\ BindsRead /\ StartupRead /\ StreamsCut /\ NumericsKept /\ DaysInOrder
  /\ MomentsAgree /\ ParamsConform /\ BinaryKept /\ SimpleWhole /\ LoginEarned /\ PoolYoung

(* Configurations that pass validation build, and the plan of a change is   *)
(* as strong as the change needs.                                           *)
ConfigSound ==
  ValidUnderstood /\ SamplesAttach /\ ValidBuilds /\ PlanFits /\ NoChangeNoPlan /\ HotSwapEnough

(* The admin interface: identities are earned and named, grants are those   *)
(* that were given, exports can be read back.                               *)
AdminSound ==
  /\ LoginWorks /\ GrantsAsTold /\ CsvReadable /\ LinesComplete /\ JsonWhole /\ ActorsNamed
  /\ LeasesResolve /\ KeyFound

=============================================================================
