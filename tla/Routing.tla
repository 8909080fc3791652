------------------------------ MODULE Routing -------------------------------
(***************************************************************************)
(* Routing of the read/write splitting proxy: the rules that choose between *)
(* readers and writers, and the balancers that choose one endpoint.         *)
(* Endpoints are [name, weight]; a statement is its first word and what     *)
(* follows it; a regular expression is the set of first words it matches.   *)
(***************************************************************************)
EXTENDS Integers, Sequences, FiniteSets, SequencesExt, FiniteSetsExt, Topic

\* ------------------------------------------------------------- balancers

(* Random: a number from 1 to the sum of the weights is counted down over   *)
(* the items; none when nothing has weight.                                 *)
TotalWeight(items) == FoldLeft(LAMBDA sum, e : sum + e.weight, 0, items)

random_next(items, n) ==
  LET left(k) == n - TotalWeight(SubSeq(items, 1, k))
      hits == {k \in DOMAIN items : left(k) <= 0}
  IN IF items = <<>> \/ TotalWeight(items) <= 0 THEN <<>>
     ELSE <<items[IF hits = {} THEN Len(items) ELSE Min(hits)]>>

(* Round robin: the state after the endpoints are added in order.           *)
RECURSIVE gcd(_, _)
gcd(x, y) == IF x % y > 0 THEN gcd(y, x % y) ELSE y

round_robin_add(b, e) ==
  LET items == Append(b.items, e)
  IN IF \E k \in DOMAIN b.items : b.items[k].name = e.name THEN b
     ELSE IF e.weight <= 0 THEN [b EXCEPT !.items = items]
     ELSE IF b.gcd = 0 THEN [items |-> items, gcd |-> e.weight, max |-> e.weight, i |-> -1, cw |-> 0]
     ELSE [b EXCEPT !.items = items, !.gcd = gcd(b.gcd, e.weight), !.max = Max({@, e.weight})]

RoundRobin(endpoints) ==
  FoldLeft(round_robin_add, [items |-> <<>>, gcd |-> 0, max |-> 0, i |-> 0, cw |-> 0], endpoints)

(* The level the turn stands at: it goes down by the common divisor each    *)
(* time around.                                                             *)

Level(b, i) ==
  IF i # 0 THEN b.cw ELSE IF b.cw - b.gcd <= 0 THEN b.max ELSE b.cw - b.gcd

(* The endpoint whose turn it is and the state after it.                    *)
RECURSIVE round_robin_turn(_)
round_robin_turn(b) ==
  LET i == (b.i + 1) % Len(b.items)
      after == [b EXCEPT !.i = i, !.cw = Level(b, i)]
  IN IF i = 0 /\ after.cw = 0 THEN [pick |-> <<>>, state |-> after]
     ELSE IF b.items[i + 1].weight >= after.cw THEN [pick |-> <<b.items[i + 1]>>, state |-> after]
     ELSE round_robin_turn(after)

round_robin_next(b) ==
  IF Len(b.items) <= 1 THEN [pick |-> b.items, state |-> b] ELSE round_robin_turn(b)

\* ----------------------------------------------------------------- rules

GENERIC_RULE_TOKEN == {"SELECT", "UPDATE", "INSERT", "DELETE", "SET", "START"}

(* What a rule hands over: the endpoints to balance and the role it names.  *)
Choice(endpoints, role) == [panics |-> FALSE, endpoints |-> endpoints, role |-> role]
RoutePanic == [panics |-> TRUE, endpoints |-> <<>>, role |-> "rw"]

(* A rule asked for readers falls back to the writers; the default does not.*)

build_balance(role, ep) == IF role = "read" /\ ep.read # <<>> THEN ep.read ELSE ep.readwrite

build_default_balance(role, ep) == IF role = "read" THEN ep.read ELSE ep.readwrite

Sharded(in) == in.typ \in {"ShardingStatement", "ShardingTransaction"}

regex_is_match(rule, in) == in.typ # "None" /\ in.word \in rule.regex

(* A rule with node groups has a balance for each of them and none that is  *)
(* global; a rule without has the global one only.                          *)
regex_get(rule, groups, ep, in) ==
  LET grouped == groups # <<>> /\ rule.groups # {}
      keys == IF grouped THEN rule.groups ELSE {"GLOBAL"}
      key == IF Sharded(in) THEN in.group ELSE "GLOBAL"
  IN IF key \notin keys THEN RoutePanic
     ELSE Choice(build_balance(rule.target, IF grouped THEN groups[1][key] ELSE ep), rule.target)

(* The generic rule looks at the first word, up to a blank.                 *)
generic_is_match(in) ==
  in.typ # "None" /\ in.word \in GENERIC_RULE_TOKEN /\ in.glue # "newline"

generic_get(ep, default, in) ==
  LET role == IF in.glue = "end" THEN default
              ELSE IF in.word = "SELECT" THEN "read" ELSE "rw"
  IN Choice(build_balance(role, ep), role)

(* Regular expressions come before generic rules, in their order.           *)
build_rules(rules) ==
  SelectSeq(rules, LAMBDA r : r.kind = "regex") \o SelectSeq(rules, LAMBDA r : r.kind = "generic")

(* A generic rule does not know the inputs of a sharded proxy.              *)
Matches(rule, in) ==
  IF rule.kind = "regex" THEN regex_is_match(rule, in)
  ELSE Sharded(in) \/ generic_is_match(in)

rules_get(rules, default, groups, ep, in) ==
  LET ordered == build_rules(rules)
      first == SelectInSeq(ordered, LAMBDA r : Matches(r, in))
  IN IF in.typ = "Transaction" THEN Choice(build_default_balance("rw", ep), "rw")
     ELSE IF first = 0 THEN Choice(build_default_balance(default, ep), default)
     ELSE IF ordered[first].kind = "regex" THEN regex_get(ordered[first], groups, ep, in)
     ELSE IF Sharded(in) THEN RoutePanic
     ELSE generic_get(ep, default, in)

(* The groups of a configuration, or nothing when a group names a writer    *)
(* that is not one.                                                         *)
EndpointGroups(members, ep) ==
  IF \E g \in DOMAIN members : ~Contains(ep.readwrite, members[g].readwrite) THEN <<>>
  ELSE <<[g \in DOMAIN members |->
           [read |-> SelectSeq(ep.read, LAMBDA e : e \in members[g].reads),
            readwrite |-> <<members[g].readwrite>>]]>>

(* The endpoints a dispatch may come to; none is a rejection.               *)
DispatchPlans(choice) ==
  IF choice.panics THEN {}
  ELSE {e \in ToSet(choice.endpoints) : e.weight > 0}

-----------------------------------------------------------------------------
(***************************************************************************)
(* Routing and balancing on all small inputs.                               *)
(***************************************************************************)

CONSTANTS MaxWeight   \* the largest weight of an endpoint

Node(n, w) == [name |-> n, weight |-> w]
NodeNames == <<"a", "b", "c">>

BalanceCases ==
  {[i \in 1..k |-> Node(NodeNames[i], w[i])] : k \in 0..3, w \in [1..3 -> 0..MaxWeight]}

RuleSet ==
  {<<>>, <<[kind |-> "generic"]>>}
  \cup {<<[kind |-> "generic"], [kind |-> "regex", regex |-> words, target |-> target, groups |-> gs]>> :
          words \in SUBSET {"SELECT", "INSERT"}, target \in {"read", "rw"}, gs \in {{}, {"g"}}}

RuleInputs ==
  {[typ |-> typ, word |-> word, glue |-> glue, group |-> "g"] :
     typ \in {"Statement", "Transaction", "ShardingStatement", "None"},
     word \in {"SELECT", "INSERT", "SET", "CALL"}, glue \in {"blank", "newline", "end"}}

Backing(reads) == [read |-> reads, readwrite |-> <<Node("p", 1)>>]

RuleCases ==
  [rules : RuleSet, default : {"read", "rw"}, reads : {<<>>, <<Node("r", 1)>>},
   grouped : BOOLEAN, input : RuleInputs]

RoutingInputs == [balance |-> BalanceCases, rules |-> RuleCases]

Grouping(c) ==
  IF c.grouped
  THEN EndpointGroups([g \in {"g"} |-> [readwrite |-> Node("p", 1), reads |-> ToSet(c.reads)]],
                      Backing(c.reads))
  ELSE <<>>

Routed(c) == rules_get(c.rules, c.default, Grouping(c), Backing(c.reads), c.input)

RECURSIVE Picks(_, _)
Picks(b, k) ==
  IF k = 0 THEN <<>>
  ELSE LET turn == round_robin_next(b) IN turn.pick \o Picks(turn.state, k - 1)

Count(e, s) == Cardinality({k \in DOMAIN s : s[k] = e})

(* In one cycle of the round robin every endpoint has exactly its share of  *)
(* the turns, whatever the weights and the order they were added in         *)
(* (RoundRobinWeighted::add, next).                                         *)
RoundRobinFair ==
  Looking("balance") =>
    LET eps == input[1]
        b == RoundRobin(eps)
        cycle == TotalWeight(eps) \div b.gcd
    IN b.max > 0 /\ Len(eps) > 1 =>
         LET picks == Picks(b, cycle)
         IN \A e \in ToSet(eps) : Count(e, picks) = e.weight \div b.gcd

(* Every endpoint is drawn by as many of the random numbers as its weight   *)
(* says, and none that has no weight (RandomWeighted::next).                *)
RandomFair ==
  Looking("balance") =>
    \A e \in ToSet(input[1]) :
      Cardinality({n \in 1..TotalWeight(input[1]) : random_next(input[1], n) = <<e>>}) = e.weight

(* A transaction never leaves the writers, and a statement that starts with *)
(* a word of change is not read from a replica when a generic rule decides, *)
(* whatever the default (RulesMatch::get, GenericRuleMatchInner::get).      *)
WritesToWriters ==
  Looking("rules") =>
    /\ input[1].input.typ = "Transaction" =>
         Routed(input[1]).role = "rw" /\ DispatchPlans(Routed(input[1])) = {Node("p", 1)}
    /\ (/\ input[1].rules = <<[kind |-> "generic"]>> /\ input[1].input.typ = "Statement"
        /\ input[1].input.word \in {"INSERT", "SET"} /\ input[1].input.glue = "blank") =>
         Routed(input[1]).role = "rw" /\ DispatchPlans(Routed(input[1])) = {Node("p", 1)}

(* The role a plan names is true of the endpoints it chooses from: a writer *)
(* serves reads only where there is no reader, and a reader never serves    *)
(* writes (RegexRuleMatchInner, GenericRuleMatchInner, build_default_balance*)
(* and the node groups of get_endpoint_group).                              *)
RoleTrue ==
  Looking("rules") =>
    LET plans == DispatchPlans(Routed(input[1]))
    IN IF Routed(input[1]).role = "rw" THEN plans \subseteq {Node("p", 1)}
       ELSE input[1].reads # <<>> => plans = ToSet(input[1].reads)

=============================================================================
