--------------------------- MODULE GatewayConfig ----------------------------
(***************************************************************************)
(* The configuration document: what validation accepts (config.rs,          *)
(* security.rs, time_rules.rs), what the parts of the gateway make of the   *)
(* words in it, what a listener's plan is built from (core_engine.rs), and  *)
(* what a reload sees as changed (http/mod.rs).  Messages are left out:     *)
(* a document is accepted or it is not.                                     *)
(***************************************************************************)
EXTENDS Integers, Sequences, FiniteSets, SequencesExt, Topic

(* A word of the document: its letters, whether some are capital, whether   *)
(* there is blank space around it.                                          *)
W(s) == [word |-> s, upper |-> FALSE, padded |-> FALSE]
to_ascii_lowercase(w) == [w EXCEPT !.upper = FALSE]
trim(w) == [w EXCEPT !.padded = FALSE]
Words(set) == {W(s) : s \in set}

require_non_empty(name) == name \notin {"", " "}
validate_unique(items) ==
  /\ \A i \in DOMAIN items : require_non_empty(items[i].name)
  /\ \A i, j \in DOMAIN items : items[i].name = items[j].name => i = j

Defined(items) == {items[i].name : i \in DOMAIN items}

(* iter().find: the first item of that name, if any.                        *)
Find(items, name) ==
  LET at == {i \in DOMAIN items : items[i].name = name}
  IN IF at = {} THEN <<>> ELSE <<items[CHOOSE i \in at : \A j \in at : i <= j]>>

-----------------------------------------------------------------------------
(* SecurityPolicyConfig::validate.                                          *)

parse_hhmm(t) == Len(t) = 2 /\ t[1] <= 23 /\ t[2] <= 59
parse_weekday(d) == to_ascii_lowercase(trim(d)).word \in {"mon", "tue", "wed", "thu", "fri", "sat", "sun"}
parse_timezone_offset_minutes(tz) ==
  \/ tz.kind \in {"", "utc", "z", "local"}
  \/ tz.kind = "offset" /\ tz.h \in 0..14 /\ tz.m \in 0..59

validate_time_rule(tr) ==
  /\ require_non_empty(tr.name)
  /\ to_ascii_lowercase(tr.effect) \in Words({"deny", "require_ticket"})
  /\ to_ascii_lowercase(tr.effect) = W("require_ticket") => trim(tr.ticket_type) # W("")
  /\ parse_hhmm(tr.start) /\ parse_hhmm(tr.end)
  /\ \A i \in DOMAIN tr.days : parse_weekday(tr.days[i])
  /\ parse_timezone_offset_minutes(tr.tz)

(* MaskAlgorithm::parse.                                                    *)
MaskAlgorithm(w) ==
  LET s == to_ascii_lowercase(trim(w)).word
  IN CASE s \in {"nullify", "null"} -> <<"nullify">> [] s \in {"partial", "mask"} -> <<"partial">>
       [] s \in {"hash", "replace"} -> <<s>> [] s \in {"keep_prefix", "prefix"} -> <<"keep_prefix">>
       [] OTHER -> <<>>

(* The feature security-cedar is one of the build, not of the document.     *)
validate_pdp(sec) ==
  \/ sec.pdp = W("local")
  \/ sec.pdp = W("cedar") /\ sec.cedar_built /\ sec.policy_dir \notin {"", " "}
  \/ /\ sec.pdp = W("remote") /\ sec.remote_url \in {"http", "https"}
     /\ sec.timeout \in 1..30000

validate_audit(sec) ==
  /\ sec.overflow \in Words({"drop_new", "drop_old", "sample", "block"})
  /\ sec.queue >= 1
  /\ sec.sample => /\ to_ascii_lowercase(sec.level) = W("l2")
                   /\ sec.sample_rows \in 1..10000 /\ sec.sample_bytes \in 1..1048576

SameName(a, b) == to_ascii_lowercase(a) = to_ascii_lowercase(b)

validate_rules(sec) ==
  /\ \A r \in ToSet(sec.rules) : require_non_empty(r.name) /\ r.effect \in Words({"allow", "deny"})
  /\ \A m \in ToSet(sec.masks) : trim(m.name) # W("") /\ MaskAlgorithm(m.algorithm) # <<>>
  /\ \A t \in ToSet(sec.tags) :
       /\ require_non_empty(t.column) /\ trim(t.mask_rule) # W("")
       /\ \E m \in ToSet(sec.masks) : SameName(m.name, t.mask_rule)
  /\ \A h \in ToSet(sec.risks) :
       /\ require_non_empty(h.name) /\ require_non_empty(h.ticket_type)
       /\ to_ascii_lowercase(h.kind)
            \in Words({"ddl", "write_no_where", "action", "table_write", "export"})
  /\ \A tr \in ToSet(sec.times) : validate_time_rule(tr)

validate_state(sec) ==
  /\ LET s == to_ascii_lowercase(trim(sec.state)).word
     IN s \in {"memory", ""} \/ (s = "file" /\ sec.ticket_path # "" /\ sec.vault_path # "")
  /\ sec.key \in {"", "64 hex"}

validate_security(sec) ==
  /\ to_ascii_lowercase(sec.star) \in Words({"deny", "allow"})
  /\ to_ascii_lowercase(sec.level) \in Words({"l0", "l1", "l2"})
  /\ validate_pdp(sec) /\ sec.window # 0 /\ ~sec.with_hold /\ validate_audit(sec)
  /\ validate_rules(sec)
  /\ to_ascii_lowercase(sec.watermark) \in Words({"column", "suffix", ""})
  /\ validate_state(sec)

-----------------------------------------------------------------------------
(* What the parts make of the words: StarPolicy, OverflowPolicy,            *)
(* AuditLevel, WatermarkMode, the stores, the engine of the decisions, the  *)
(* kinds of high-risk rules and the rule a column tag names.                *)
Reading(w) == to_ascii_lowercase(trim(w)).word
StarPolicy(w) == IF Reading(w) = "allow" THEN "allow" ELSE "deny"
OverflowPolicy(w) == IF Reading(w) \in {"drop_old", "sample", "block"} THEN Reading(w) ELSE "drop_new"
AuditLevel(w) == IF Reading(w) \in {"l0", "l1", "l2"} THEN Reading(w) ELSE "l0"
WatermarkMode(w) == IF Reading(w) = "suffix" THEN "suffix" ELSE "column"
install_store(sec) ==
  IF sec.key \notin {"", "64 hex"} THEN <<>>
  ELSE CASE Reading(sec.state) \in {"memory", ""} -> <<"memory">>
         [] Reading(sec.state) = "file" -> <<"file">> [] OTHER -> <<>>
Engine(sec) ==
  CASE to_ascii_lowercase(sec.pdp) = W("remote") -> "remote"
    [] to_ascii_lowercase(sec.pdp) = W("cedar") /\ sec.cedar_built -> "cedar" [] OTHER -> "local"
MaskOf(sec, tag) ==
  LET at == {i \in DOMAIN sec.masks : SameName(sec.masks[i].name, tag.mask_rule)}
  IN IF at = {} THEN <<>> ELSE MaskAlgorithm(sec.masks[CHOOSE i \in at : \A j \in at : j <= i].algorithm)
sample_options(sec) ==
  IF sec.sample /\ to_ascii_lowercase(sec.level) = W("l2") THEN <<sec.sample_rows>> ELSE <<>>

-----------------------------------------------------------------------------
(* GatewayConfig::validate.  A reference that is absent is "none".          *)

validate_endpoint_tls(e) ==
  /\ e.ca # " "
  /\ e.ssl = "disable" => e.ca = "none"
  /\ e.ssl = "require" /\ ~e.accept_invalid => e.ca # "none"

validate_listener(c, l) ==
  /\ require_non_empty(l.name) /\ require_non_empty(l.addr) /\ l.service \in Defined(c.services)
  /\ l.auth = "none" \/ l.auth \in Defined(c.auths)
  /\ LET s == Find(c.services, l.service)[1]
     IN l.proto # s.proto =>
          /\ s.translation \in Defined(c.translations)
          /\ LET t == Find(c.translations, s.translation)[1]
             IN t.enabled /\ t.from = l.proto /\ t.to = s.proto

validate_service(c, s) ==
  /\ require_non_empty(s.name) /\ s.endpoints # <<>>
  /\ \A e \in ToSet(s.endpoints) : e \in Defined(c.endpoints) /\ Find(c.endpoints, e)[1].proto = s.proto
  /\ s.route = "none" \/ s.route \in Defined(c.routes)
  /\ ToSet(s.plugins) \subseteq Defined(c.plugins)
  /\ s.translation = "none" \/ s.translation \in Defined(c.translations)

validate_gateway(c) ==
  /\ c.listeners # <<>> /\ c.services # <<>> /\ c.endpoints # <<>>
  /\ \A section \in {c.listeners, c.services, c.endpoints, c.routes, c.auths, c.plugins, c.translations} :
       validate_unique(section)
  /\ \A e \in ToSet(c.endpoints) : validate_endpoint_tls(e) /\ require_non_empty(e.address)
  /\ \A l \in ToSet(c.listeners) : validate_listener(c, l)
  /\ \A s \in ToSet(c.services) : validate_service(c, s)
  /\ validate_security(c.security)

-----------------------------------------------------------------------------
(* CoreGatewayListenerPlan::from_config: <<>> is an error.                  *)

normalize_policy_kind(kind) ==
  CASE kind \in {"read_write_splitting", "ReadWriteSplitting"} -> "readwritesplitting"
    [] kind \in {"circuit_break", "Circuit-Break"} -> "circuitbreak"
    [] kind = "concurrency_control" -> "concurrencycontrol" [] OTHER -> kind

build_plugin_config(c, names) ==
  LET found == [i \in DOMAIN names |-> Find(c.plugins, names[i])]
      Kind(i) == normalize_policy_kind(found[i][1].kind)
      Of(kinds) == {i \in DOMAIN names : Kind(i) \in kinds /\ found[i][1].regex # <<>>}
  IN IF \E i \in DOMAIN names : found[i] = <<>> THEN <<>>
     ELSE IF \E i \in DOMAIN names : Kind(i) \notin {"circuitbreak", "audit", "concurrencycontrol"} THEN <<>>
     ELSE <<[breaks |-> Cardinality(Of({"circuitbreak", "audit"})),
             limits |-> Cardinality(Of({"concurrencycontrol"}))]>>

(* primary_static_user: the first of the users, else the shorthand; a       *)
(* policy without either leaves the listener without a login.               *)
resolve_auth_user(c, name) ==
  IF name = "none" THEN <<<<>>>>
  ELSE LET found == Find(c.auths, name)
       IN IF found = <<>> \/ found[1].kind # "static" THEN <<>>
          ELSE <<IF found[1].users # <<>> THEN <<Head(found[1].users)>>
                 ELSE IF found[1].username # "" THEN <<found[1].username>> ELSE <<>>>>

resolve_translation_policy(c, l, s) ==
  IF l.proto = s.proto THEN <<<<>>>>
  ELSE LET found == Find(c.translations, s.translation)
       IN IF found = <<>> \/ ~found[1].enabled THEN <<>> ELSE <<found>>

CoreRoutePolicy(kind, endpoints) ==
  LET writers == SelectSeq(endpoints, LAMBDA e : e.role = "ReadWrite")
      readers == SelectSeq(endpoints, LAMBDA e : e.role = "Read")
  IN IF normalize_policy_kind(kind) = "readwritesplitting"
     THEN IF writers = <<>> THEN <<>>
          ELSE <<[kind |-> "ReadWrite", first |-> ToSet(writers),
                  reads |-> ToSet(IF readers = <<>> THEN writers ELSE readers)]>>
     ELSE IF kind \in {"random", "round_robin", "simple_load_balance"}
     THEN <<[kind |-> "Simple", first |-> ToSet(endpoints), reads |-> ToSet(endpoints)]>>
     ELSE <<[kind |-> "First", first |-> {Head(endpoints)}, reads |-> {Head(endpoints)}]>>

listener_plan(c, l) ==
  LET found == Find(c.services, l.service)
      s == found[1]
      ends == [i \in DOMAIN s.endpoints |-> Find(c.endpoints, s.endpoints[i])]
      kind == IF s.route = "none" THEN <<"none">>
              ELSE LET r == Find(c.routes, s.route) IN IF r = <<>> THEN <<>> ELSE <<r[1].kind>>
      route == CoreRoutePolicy(kind[1], [i \in DOMAIN ends |-> ends[i][1]])
      plugin == build_plugin_config(c, s.plugins)
      auth == resolve_auth_user(c, l.auth)
      translation == resolve_translation_policy(c, l, s)
  IN IF found = <<>> THEN <<>>
     ELSE IF (\E i \in DOMAIN ends : ends[i] = <<>>) \/ kind = <<>> THEN <<>>
     ELSE IF route = <<>> \/ plugin = <<>> \/ auth = <<>> \/ translation = <<>> THEN <<>>
     ELSE <<[service |-> s, endpoints |-> [i \in DOMAIN ends |-> ends[i][1]], route |-> route[1],
             plugin |-> plugin[1], auth |-> auth[1], translation |-> translation[1],
             engine |-> IF c.security.enabled THEN Engine(c.security) ELSE "none",
             window |-> IF c.security.window = 0 THEN 1 ELSE c.security.window, max_rows |-> c.security.max_rows,
             passthrough |-> c.security.passthrough,
             level |-> c.security.level, samples |-> sample_options(c.security)]>>

(* The rows of a result: the smaller of what the plan copied and what the   *)
(* decision says, each <<>> for no limit.                                   *)
merged_max_rows(plan, decided) ==
  IF plan = <<>> THEN decided ELSE IF decided = <<>> THEN plan
  ELSE IF plan[1] <= decided[1] THEN plan ELSE decided

-----------------------------------------------------------------------------
(* GatewayConfigDiff.                                                       *)

(* SecurityPdpConfig; attrs stands for its directories, token and switches. *)
PdpFields == {"pdp", "policy_dir", "attrs", "remote_url", "timeout"}

(* Mutant of security_requires_listener_rebuild: the window of a stream is  *)
(* taken for a rule.                                                        *)
security_requires_listener_rebuild_not_window(cur, next) ==
  \E f \in {"enabled", "subject", "passthrough", "max_bytes"} \cup PdpFields : cur[f] # next[f]

security_requires_listener_rebuild(cur, next) ==
  \E f \in {"enabled", "subject", "window", "passthrough", "max_bytes"} \cup PdpFields : cur[f] # next[f]

diff_named_section(cur, next) ==
  [added |-> Defined(next) \ Defined(cur), removed |-> Defined(cur) \ Defined(next),
   changed |-> {n \in Defined(cur) \cap Defined(next) : Find(cur, n) # Find(next, n)}]

listener_diff(cur, next) ==
  LET d == diff_named_section(cur.listeners, next.listeners)
  IN IF cur.security # next.security /\ security_requires_listener_rebuild(cur.security, next.security)
     THEN [d EXCEPT !.changed = @ \cup (Defined(next.listeners) \ (d.added \cup d.removed))] ELSE d

Same == [added |-> {}, removed |-> {}, changed |-> {}]

diff_has_changes(cur, next) ==
  \/ cur.admin # next.admin \/ cur.version # next.version
  \/ cur.security # next.security \/ listener_diff(cur, next) # Same
  \/ diff_named_section(cur.services, next.services) # Same
  \/ diff_named_section(cur.endpoints, next.endpoints) # Same
  \/ diff_named_section(cur.routes, next.routes) # Same
  \/ diff_named_section(cur.auths, next.auths) # Same
  \/ diff_named_section(cur.plugins, next.plugins) # Same

-----------------------------------------------------------------------------
(***************************************************************************)
(* Documents one or two edits away from a working one: what validation      *)
(* accepts, what is built from it, and what a reload makes of the change.   *)
(***************************************************************************)

Upper(s) == [W(s) EXCEPT !.upper = TRUE]
Padded(s) == [W(s) EXCEPT !.padded = TRUE]
Spellings(set) == UNION {{W(s), Upper(s), Padded(s)} : s \in set}

(* The defaults of the security section, with one rule of each kind.        *)
DefaultSecurity ==
  [enabled |-> TRUE, star |-> W("deny"), level |-> W("l0"), pdp |-> W("local"), remote_url |-> "",
   timeout |-> 50, policy_dir |-> "", attrs |-> "", cedar_built |-> FALSE, subject |-> "protocol_user",
   window |-> 256, max_rows |-> <<>>, max_bytes |-> <<>>, passthrough |-> TRUE, with_hold |-> FALSE,
   overflow |-> W("drop_new"), queue |-> 65536, sample |-> FALSE, sample_rows |-> 5, sample_bytes |-> 4096,
   rules |-> <<[name |-> "r", effect |-> W("deny")]>>,
   masks |-> <<[name |-> W("m"), algorithm |-> W("hash")]>>,
   tags |-> <<[column |-> "c", mask_rule |-> W("m")]>>,
   risks |-> <<[name |-> "h", ticket_type |-> "ddl", kind |-> W("ddl")]>>,
   times |-> <<[name |-> "t", effect |-> W("deny"), ticket_type |-> W("high_risk"), start |-> <<9, 0>>,
                end |-> <<18, 0>>, days |-> <<>>, tz |-> [kind |-> "utc", h |-> 0, m |-> 0]]>>,
   watermark |-> W("column"), state |-> W("memory"), ticket_path |-> "", vault_path |-> "", key |-> ""]

SecurityEdits(s) ==
  {s}
  \cup {[s EXCEPT !.star = w] : w \in Spellings({"allow", "expand"})}
  \cup {[s EXCEPT !.level = w] : w \in Spellings({"l2", "full"})}
  \cup {[s EXCEPT !.pdp = w] : w \in Spellings({"remote", "cedar", "opa"})}
  \cup {[s EXCEPT !.cedar_built = TRUE, !.policy_dir = d] : d \in {"", " ", "d"}} \cup {[s EXCEPT !.policy_dir = "d"]}
  \cup {[s EXCEPT !.remote_url = u] : u \in {"http", "ftp"}} \cup {[s EXCEPT !.timeout = n] : n \in {0, 30001}}
  \cup {[s EXCEPT !.window = n] : n \in {0, 1}} \cup {[s EXCEPT !.passthrough = FALSE]}
  \cup {[s EXCEPT !.with_hold = TRUE], [s EXCEPT !.enabled = FALSE]}
  \cup {[s EXCEPT !.overflow = w] : w \in Spellings({"drop_old", "keep"})} \cup {[s EXCEPT !.queue = 0]}
  \cup {[s EXCEPT !.sample = TRUE]} \cup {[s EXCEPT !.sample_rows = n] : n \in {0, 10001}}
  \cup {[s EXCEPT !.sample_bytes = n] : n \in {0, 1048577}}
  \cup {[s EXCEPT !.rules[1].effect = w] : w \in Spellings({"allow", "audit"})}
  \cup {[s EXCEPT !.masks[1].algorithm = w] : w \in Spellings({"prefix", "rot13"})}
  \cup {[s EXCEPT !.masks = Append(@, [name |-> Upper("m"), algorithm |-> W("null")]) ]}
  \cup {[s EXCEPT !.masks[1].name = w] : w \in {Upper("m"), Padded("m"), W("")}}
  \cup {[s EXCEPT !.tags[1].mask_rule = w] : w \in {Upper("m"), Padded("m"), W("n"), W("")}}
  \cup {[s EXCEPT !.risks[1].kind = w] : w \in Spellings({"export", "truncate"})}
  \cup {[s EXCEPT !.times[1].effect = w] : w \in Spellings({"require_ticket", "warn"})}
  \cup {[s EXCEPT !.times[1].ticket_type = W("")], [s EXCEPT !.times[1].end = <<24, 0>>]}
  \cup {[s EXCEPT !.times[1].start = t] : t \in {<<9>>, <<9, 60>>}}
  \cup {[s EXCEPT !.times[1].days = <<w>>] : w \in Spellings({"mon", "day"})}
  \cup {[s EXCEPT !.times[1].tz = [kind |-> k, h |-> h, m |-> 0]] : k \in {"offset", "est"}, h \in {14, 15}}
  \cup {[s EXCEPT !.watermark = w] : w \in Spellings({"suffix", "", "footer"})}
  \cup {[s EXCEPT !.state = w] : w \in Spellings({"file", "", "redis"})}
  \cup {[s EXCEPT !.ticket_path = "p", !.vault_path = "q"], [s EXCEPT !.key = "short"], [s EXCEPT !.key = "64 hex"]}

BaseDocument ==
  [listeners |-> <<[name |-> "l1", addr |-> "a1", proto |-> "mysql", service |-> "s1", auth |-> "none"],
                   [name |-> "l2", addr |-> "a2", proto |-> "pg", service |-> "s2", auth |-> "u"]>>,
   services |-> <<[name |-> "s1", proto |-> "mysql", endpoints |-> <<"e1", "e2">>, route |-> "rw",
                   plugins |-> <<"p">>, translation |-> "none"],
                  [name |-> "s2", proto |-> "mysql", endpoints |-> <<"e1">>, route |-> "none",
                   plugins |-> <<>>, translation |-> "t"]>>,
   endpoints |-> <<[name |-> "e1", proto |-> "mysql", address |-> "h1", role |-> "ReadWrite", ssl |-> "disable",
                    ca |-> "none", accept_invalid |-> FALSE],
                   [name |-> "e2", proto |-> "mysql", address |-> "h2", role |-> "Read", ssl |-> "require",
                    ca |-> "f", accept_invalid |-> FALSE]>>,
   routes |-> <<[name |-> "rw", kind |-> "read_write_splitting"]>>,
   auths |-> <<[name |-> "u", kind |-> "static", users |-> <<"alice">>, username |-> ""]>>,
   plugins |-> <<[name |-> "p", kind |-> "circuit_break", regex |-> <<"x">>]>>,
   translations |-> <<[name |-> "t", enabled |-> TRUE, from |-> "pg", to |-> "mysql"]>>,
   security |-> [DefaultSecurity EXCEPT !.max_rows = <<10>>], admin |-> "a", version |-> "1"]

DocumentEdits(c) ==
  {c}
  \cup {[c EXCEPT !.listeners[1].name = n] : n \in {" ", "l2", "l3"}}
  \cup {[c EXCEPT !.listeners[1].service = n] : n \in {"s2", "gone"}}
  \cup {[c EXCEPT !.listeners[2].auth = n] : n \in {"none", "gone"}}
  \cup {[c EXCEPT !.listeners[i].proto = p] : i \in 1..Len(c.listeners), p \in {"mysql", "pg"}}
  \cup {[c EXCEPT !.services[2].name = n] : n \in {"s1", "s3"}}
  \cup {[c EXCEPT !.services[1].endpoints = e] : e \in {<<>>, <<"e2">>, <<"gone">>}}
  \cup {[c EXCEPT !.services[1].route = r] : r \in {"none", "gone"}}
  \cup {[c EXCEPT !.services[1].plugins = p] : p \in {<<>>, <<"p", "gone">>}}
  \cup {[c EXCEPT !.services[2].translation = t] : t \in {"none", "gone"}}
  \cup {[c EXCEPT !.services[2].proto = "pg"]}
  \cup {[c EXCEPT !.endpoints[1].proto = "pg"], [c EXCEPT !.endpoints[1].role = "Read"]}
  \cup {[c EXCEPT !.endpoints[1].address = a] : a \in {"", "h3"}}
  \cup {[c EXCEPT !.endpoints[2].ca = f] : f \in {"none", " "}} \cup {[c EXCEPT !.endpoints[2].ssl = "disable"]}
  \cup {[c EXCEPT !.endpoints[2].accept_invalid = TRUE], [c EXCEPT !.endpoints[2].name = "e3"]}
  \cup {[c EXCEPT !.routes[1].kind = k] : k \in {"round_robin", "other"}}
  \cup {[c EXCEPT !.auths[1].kind = "ldap"], [c EXCEPT !.auths[1].users = <<>>]}
  \cup {[c EXCEPT !.plugins[1].kind = k] : k \in {"concurrency_control", "other"}}
  \cup {[c EXCEPT !.plugins[1].regex = <<>>], [c EXCEPT !.translations[1].enabled = FALSE]}
  \cup {[c EXCEPT !.translations[1].from = "mysql"], [c EXCEPT !.translations[1].to = "pg"]}
  \cup {[c EXCEPT !.security.star = W("expand")], [c EXCEPT !.security.window = 1]}
  \cup {[c EXCEPT !.security.star = W("allow")], [c EXCEPT !.security.passthrough = FALSE]}
  \cup {[c EXCEPT !.security.level = W("l2")], [c EXCEPT !.security.enabled = FALSE]}
  \cup {[c EXCEPT !.security.max_rows = n] : n \in {<<5>>, <<20>>, <<>>}} \cup {[c EXCEPT !.security.max_bytes = <<1>>]}
  \cup {[c EXCEPT !.security.subject = "s"], [c EXCEPT !.security.attrs = "x"], [c EXCEPT !.version = "2"], [c EXCEPT !.admin = "b"]}

Twice(edits(_), c) == UNION {edits(d) : d \in edits(c)}
Shortened(c) ==
  {[c EXCEPT !.listeners = <<>>], [c EXCEPT !.listeners = Tail(@)], [c EXCEPT !.listeners = Front(@)]}
Documents == Twice(DocumentEdits, BaseDocument) \cup UNION {Shortened(c) : c \in DocumentEdits(BaseDocument)}
ConfigInputs == [security |-> Twice(SecurityEdits, DefaultSecurity), document |-> Documents]

(* No part of the gateway falls back to its default for a word it does not  *)
(* know: what validate() accepts, StarPolicy, OverflowPolicy, AuditLevel,   *)
(* WatermarkMode, the stores, the engine, the high-risk rules and the masks *)
(* of the column tags all take for what it says.                            *)
ValidUnderstood ==
  Looking("security") /\ validate_security(input[1]) =>
    LET s == input[1]
    IN /\ StarPolicy(s.star) = s.star.word /\ OverflowPolicy(s.overflow) = s.overflow.word
       /\ AuditLevel(s.level) = s.level.word
       /\ s.watermark.word \in {"", WatermarkMode(s.watermark)}
       /\ install_store(s) # <<>> /\ s.state.word \in {"", install_store(s)[1]}
       /\ Engine(s) = s.pdp.word
       /\ \A t \in ToSet(s.tags) : MaskOf(s, t) # <<>>

(* Where sampling of results is switched on, samples are taken, and of at   *)
(* least one row (validate(), sample options of the engine).                *)
SamplesAttach ==
  Looking("security") /\ validate_security(input[1]) /\ input[1].sample =>
    sample_options(input[1]) # <<>> /\ sample_options(input[1])[1] >= 1

(* The kinds of policies are not validated: such a document fails when its  *)
(* plan is built.                                                           *)
UnsupportedKind(c, l) ==
  \E s \in ToSet(Find(c.services, l.service)) :
    \/ \E a \in ToSet(Find(c.auths, l.auth)) : a.kind # "static"
    \/ \E name \in ToSet(s.plugins) : \E p \in ToSet(Find(c.plugins, name)) : p.kind = "other"
    \/ /\ \E r \in ToSet(Find(c.routes, s.route)) : r.kind = "read_write_splitting"
       /\ \A name \in ToSet(s.endpoints) : \E e \in ToSet(Find(c.endpoints, name)) : e.role = "Read"

(* Every reference that building a plan follows was checked by validate():  *)
(* a validated document gives every listener a plan, unless it names a kind *)
(* of policy there is not (CoreGatewayListenerPlan::from_config).           *)
ValidBuilds ==
  Looking("document") /\ validate_gateway(input[1]) =>
    \A l \in ToSet(input[1].listeners) :
      UnsupportedKind(input[1], l) \/ listener_plan(input[1], l) # <<>>

(* A plan connects what fits together: endpoints of the service's protocol, *)
(* a translation exactly where the protocols differ and in that direction,  *)
(* and a first endpoint that takes writes when reads and writes are split.  *)
PlanFits ==
  Looking("document") /\ validate_gateway(input[1]) =>
    \A l \in ToSet(input[1].listeners) : \A p \in ToSet(listener_plan(input[1], l)) :
      /\ \A e \in ToSet(p.endpoints) : e.proto = p.service.proto
      /\ (p.translation = <<>>) = (l.proto = p.service.proto)
      /\ \A t \in ToSet(p.translation) : t.enabled /\ t.from = l.proto /\ t.to = p.service.proto
      /\ p.route.first # {} /\ p.route.first \subseteq ToSet(p.endpoints)
      /\ p.route.kind = "ReadWrite" => \A e \in p.route.first : e.role = "ReadWrite"

(* A reload that finds no change leaves every running listener with the     *)
(* plan the new document asks for (GatewayConfigDiff::between, has_changes).*)
(* Translation policies are not compared: a change of theirs alone is lost. *)
NoChangeNoPlan ==
  Looking("document") /\ validate_gateway(input[1]) /\ ~diff_has_changes(BaseDocument, input[1]) =>
    \A l \in ToSet(input[1].listeners) :
      listener_plan(input[1], l) = listener_plan(BaseDocument, l)
      \/ input[1].translations # BaseDocument.translations

Compared(plan) == [i \in DOMAIN plan |-> [plan[i] EXCEPT !.level = W("l0"), !.samples = <<>>, !.max_rows = <<>>]]

Stricter(limit, other) == limit # <<>> /\ (other = <<>> \/ limit[1] <= other[1])

(* What a listener copied out of the security section is not taken for a    *)
(* rule: when only that section changed and a listener is not restarted,    *)
(* its window, its passthrough and its engine are those of the new document *)
(* (security_requires_listener_rebuild).  The level and the samples of its  *)
(* audit records are not: they wait for the next start of the listener.     *)
(* The limit of rows is in force at once exactly when it is not loosened:   *)
(* one that was raised or lifted stays at what the listener copied.         *)
HotSwapEnough ==
  Looking("document") /\ validate_gateway(input[1])
  /\ input[1] = [BaseDocument EXCEPT !.security = input[1].security] =>
    \A l \in ToSet(input[1].listeners) :
      \/ l.name \in listener_diff(BaseDocument, input[1]).changed
      \/ LET running == listener_plan(BaseDocument, l)
             asked == input[1].security.max_rows
             limit == merged_max_rows(running[1].max_rows, asked)
         IN /\ Compared(listener_plan(input[1], l)) = Compared(running)
            /\ limit = asked <=> asked = BaseDocument.security.max_rows \/ Stricter(asked, BaseDocument.security.max_rows)
            /\ limit # asked => limit = BaseDocument.security.max_rows

=============================================================================
