---------------------------- MODULE AdminAccess -----------------------------
(***************************************************************************)
(* Who may do what on the management interface: roles and permissions and   *)
(* the permission each operation asks for (gateway/core/admin_auth.rs), the *)
(* tokens, minted here or by an identity provider (http/admin_auth.rs), the *)
(* provider's published keys (jwks.rs), and the routes (http/mod.rs).       *)
(* A path is the sequence of its parts.  Times count seconds.               *)
(***************************************************************************)
EXTENDS Integers, Sequences, FiniteSets, SequencesExt, FiniteSetsExt, Topic

Roles == {"viewer", "operator", "admin"}

(* AdminRole::parse.                                                        *)
ParseRole(name) ==
  CASE name \in {"viewer", "view", "readonly"} -> {"viewer"}
    [] name \in {"operator", "ops", "sre"} -> {"operator"}
    [] name \in {"admin", "administrator", "root"} -> {"admin"}
    [] OTHER -> {}

Permissions(role) ==
  {"TopologyRead", "RuntimeRead", "MetricsRead"}
  \cup (IF role \in {"operator", "admin"} THEN {"RuntimeRefresh", "ListenerControl"} ELSE {})
  \cup (IF role = "admin" THEN {"ListenerWrite", "PolicyWrite", "ConfigReload"} ELSE {})

permissions_for_roles(roles) == UNION {Permissions(r) : r \in roles}

-----------------------------------------------------------------------------
(* AdminAuthConfig: secrets and passwords by their lengths, "none" unset.   *)

break_glass_enabled(c) ==
  c.enabled /\ c.password # 0 /\ c.secret # 0 /\ c.mode \in {"jwt_hmac", "jwt_jwks"}
break_glass_role_parsed(c) == IF ParseRole(c.role) = {} THEN "admin" ELSE CHOOSE r \in ParseRole(c.role) : TRUE

validate_break_glass_password(c) == c.password = 0 \/ c.password >= 8
validate_admin(c) ==
  c.enabled =>
    /\ validate_break_glass_password(c)
    /\ \/ c.mode = "jwt_hmac" /\ c.secret >= 16
       \/ c.mode = "jwt_jwks" /\ c.url /\ c.issuer # "none" /\ (c.secret = 0 \/ c.secret >= 16)

(* map_claim_values: a name of a role stands for it; any other is looked up *)
(* in the bindings.                                                         *)
map_claim_values(c, values) ==
  UNION {IF ParseRole(v) # {} THEN ParseRole(v)
         ELSE UNION {ParseRole(b[2]) : b \in {b \in c.bindings : b[1] = v}} : v \in values}

-----------------------------------------------------------------------------
(* Tokens.  A claim is a string, an array or an object; only the "roles" of *)
(* an object are looked into.                                               *)
TextClaim(s) == [kind |-> "string", text |-> s, items |-> <<>>]
ArrayClaim(items) == [kind |-> "array", text |-> "", items |-> items]
Nested(roles) == [kind |-> "object", text |-> "", items |-> <<roles>>]

RECURSIVE push_strings(_)
push_strings(v) ==
  IF v.kind = "string" THEN {v.text} \ {"", " "}
  ELSE UNION {push_strings(v.items[i]) : i \in DOMAIN v.items}

(* dig_claim follows the path into objects; here into the one that is there.*)
dig_claim(claims, path) ==
  IF path \in DOMAIN claims THEN {claims[path]}
  ELSE IF path = "realm_access.roles" /\ "realm_access" \in DOMAIN claims
          /\ claims["realm_access"].kind = "object" THEN {claims["realm_access"].items[1]}
  ELSE {}

collect_role_strings(claims, paths) ==
  UNION {push_strings(v) : v \in UNION {dig_claim(claims, p) : p \in paths \cup {"roles", "groups"}}}

(* issue_hmac_token: the ttl is at least a minute here as well.             *)
issue_hmac_token(c, subject, role, ttl, now) ==
  [alg |-> "HS256", key |-> "secret", kid |-> "none", sub |-> subject,
   exp |-> now + Max({ttl, 60}), iss |-> c.issuer, aud |-> c.audience,
   claims |-> [roles |-> ArrayClaim(<<TextClaim(role)>>)]]

(* break_glass_login: what is answered, or nothing.                         *)
break_glass_login(c, right, now) ==
  IF ~break_glass_enabled(c) \/ ~right THEN <<>>
  ELSE LET role == break_glass_role_parsed(c)
           ttl == Max({c.ttl, 60})
       IN <<[token |-> issue_hmac_token(c, "break-glass", role, ttl, now),
             expires_in |-> ttl, role |-> role]>>

(* The library's decode: signature, algorithm, expiry, issuer, audience.    *)
decode(c, t, key, alg, now) ==
  /\ t.key = key /\ t.alg = alg /\ now <= t.exp + c.leeway
  /\ c.issuer = "none" \/ t.iss = c.issuer
  /\ c.audience = "none" \/ t.aud = c.audience
  /\ t.sub # "none"

validate_with_key(c, t, key, alg, method, now) ==
  IF ~decode(c, t, key, alg, now) \/ t.sub = "" THEN <<>>
  ELSE LET roles == map_claim_values(c, collect_role_strings(t.claims, c.paths))
       IN <<[subject |-> t.sub, roles |-> roles, permissions |-> permissions_for_roles(roles),
             method |-> method]>>

-----------------------------------------------------------------------------
(* The published keys: [kty, use, alg, kid, n], n naming the key.           *)

Usable(k) == k.kty = "RSA" /\ k.use \in {"none", "sig"} /\ k.alg \in {"none", "RS256", "other"} /\ k.n # "none"

(* A later key of the same name replaces an earlier one.                    *)
document_to_entry(doc) ==
  LET keys == SelectSeq(doc, Usable)
  IN [keys |-> {<<keys[i].kid, keys[i].n>> : i \in {i \in DOMAIN keys : keys[i].kid # "none"
                  /\ \A j \in i+1..Len(keys) : keys[j].kid # keys[i].kid}},
      default |-> IF keys = <<>> THEN {} ELSE {Head(keys).n}]

(* get_or_fetch: a cached entry younger than the ttl, else a fetched one;   *)
(* <<>> when there is none and the fetch fails or finds no key.             *)
get_or_fetch(cache, age, ttl, fetched) ==
  IF cache # <<>> /\ age < ttl THEN cache
  ELSE IF fetched = <<>> THEN <<>>
  ELSE LET e == document_to_entry(fetched[1])
       IN IF e.keys = {} /\ e.default = {} THEN <<>> ELSE <<e>>

(* decoding_key_for: the key of that name, else the default one.            *)
decoding_key_for(entry, kid) ==
  LET named == {k \in entry.keys : k[1] = kid}
  IN IF kid # "none" /\ named # {} THEN {(CHOOSE k \in named : TRUE)[2]} ELSE entry.default

(* validate_token; entry is what get_or_fetch returned.                     *)
validate_token(c, t, entry, now) ==
  LET local == validate_with_key(c, t, "secret", "HS256",
                                 IF c.mode = "jwt_hmac" THEN "jwt_hmac" ELSE "break_glass", now)
  IN CASE c.mode = "none" -> <<>>
       [] c.mode = "jwt_hmac" -> local
       [] c.mode = "jwt_jwks" ->
            IF c.secret # 0 /\ local # <<>> THEN local
            ELSE IF t.alg \notin {"RS256", "RS384", "RS512"} \/ entry = <<>> THEN <<>>
            ELSE LET key == decoding_key_for(entry[1], t.kid)
                 IN IF key = {} THEN <<>>
                    ELSE validate_with_key(c, t, CHOOSE k \in key : TRUE, t.alg, "jwt_jwks", now)

-----------------------------------------------------------------------------
(* required_permission, its arms in order: method, first parts, last part   *)
(* ("" any), whether the parts are the whole path.                          *)
Arm(method, first, last, whole, permission) ==
  [method |-> method, first |-> first, last |-> last, whole |-> whole, permission |-> permission]
Whole(method, path, permission) == Arm(method, path, {}, TRUE, permission)

PermissionArms ==
  <<Whole("GET", <<"admin">>, "TopologyRead"), Whole("GET", <<"admin", "config">>, "TopologyRead"),
    Whole("GET", <<"config">>, "TopologyRead"), Whole("GET", <<"admin", "listeners">>, "TopologyRead"),
    Whole("GET", <<"admin", "services">>, "TopologyRead"), Whole("GET", <<"admin", "endpoints">>, "TopologyRead"),
    Whole("GET", <<"admin", "security-policies">>, "TopologyRead"),
    Whole("GET", <<"admin", "security", "cedar">>, "TopologyRead"),
    Whole("POST", <<"admin", "security", "cedar", "reload">>, "PolicyWrite"),
    Whole("GET", <<"admin", "audit", "events">>, "RuntimeRead"),
    Whole("GET", <<"admin", "audit", "stats">>, "RuntimeRead"),
    Whole("GET", <<"admin", "tickets">>, "RuntimeRead"), Whole("POST", <<"admin", "tickets">>, "PolicyWrite"),
    Arm("POST", <<"admin", "tickets">>, {"approve", "reject"}, FALSE, "PolicyWrite"),
    Arm("GET", <<"admin", "tickets">>, {}, FALSE, "RuntimeRead"),
    Whole("GET", <<"admin", "projects">>, "TopologyRead"),
    Whole("GET", <<"admin", "vault", "leases">>, "RuntimeRead"),
    Whole("POST", <<"admin", "vault", "leases">>, "PolicyWrite"),
    Arm("POST", <<"admin", "vault", "leases">>, {"revoke", "renew"}, FALSE, "PolicyWrite"),
    Arm("DELETE", <<"admin", "vault", "leases">>, {}, FALSE, "PolicyWrite"),
    Whole("POST", <<"admin", "vault", "leases", "prune">>, "PolicyWrite"),
    Arm("POST", <<"admin", "tickets">>, {"revoke"}, FALSE, "PolicyWrite"),
    Whole("POST", <<"admin", "tickets", "prune">>, "PolicyWrite"),
    Whole("POST", <<"admin", "portal", "query">>, "RuntimeRead"),
    Whole("GET", <<"admin", "pools">>, "RuntimeRead"), Whole("GET", <<"admin", "sessions">>, "RuntimeRead"),
    Whole("POST", <<"admin", "reload">>, "ConfigReload"),
    Whole("POST", <<"admin", "pools", "refresh">>, "RuntimeRefresh"),
    Arm("POST", <<"admin", "pools">>, {"refresh"}, FALSE, "RuntimeRefresh"),
    Arm("POST", <<"admin", "listeners">>, {"stop"}, FALSE, "ListenerControl"),
    Whole("POST", <<"admin", "listeners">>, "ListenerWrite"),
    Arm("PUT", <<"admin", "route-policies">>, {}, FALSE, "PolicyWrite"),
    Whole("GET", <<"metrics">>, "MetricsRead")>>

ArmFits(arm, method, path) ==
  /\ arm.method = method
  /\ IF arm.whole THEN path = arm.first
     ELSE IsPrefix(arm.first, path) /\ Len(path) > Len(arm.first) /\ (arm.last = {} \/ Last(path) \in arm.last)

required_permission(method, path) ==
  LET fits == {i \in DOMAIN PermissionArms : ArmFits(PermissionArms[i], method, path)}
  IN IF path \in {<<"admin", "me">>, <<"admin", "auth", "config">>} \/ fits = {} THEN {}
     ELSE {PermissionArms[Min(fits)].permission}

path_is_public_auth_path(path) == path \in {<<"admin", "auth", "config">>, <<"admin", "auth", "login">>}

(* authenticate_request: "anyone" where nobody is asked, "refused" (401),   *)
(* "forbidden" (403), or the caller.                                        *)
authenticate_request(c, token, entry, now, method, path) ==
  LET caller == IF token = <<>> THEN <<>> ELSE validate_token(c, token[1], entry, now)
      required == required_permission(method, path)
  IN IF path_is_public_auth_path(path) \/ ~c.enabled
        \/ (c.public_metrics /\ path = <<"metrics">> /\ method = "GET") THEN [what |-> "anyone"]
     ELSE IF caller = <<>> THEN [what |-> "refused"]
     ELSE IF ~(required \subseteq caller[1].permissions) \/ (caller[1].roles = {} /\ required # {})
     THEN [what |-> "forbidden"]
     ELSE [what |-> "caller", caller |-> caller[1]]

(* me_response: what a caller is told about itself.                         *)
me_response(caller, enabled) ==
  IF caller # <<>> THEN [roles |-> caller[1].roles, permissions |-> caller[1].permissions]
  ELSE IF enabled THEN [roles |-> {}, permissions |-> {}]
  ELSE [roles |-> {"admin"}, permissions |-> permissions_for_roles({"admin"})]

-----------------------------------------------------------------------------
(* The routes that ask (AxumServer::routes, the handlers' authorize), a     *)
(* parameter standing for itself.                                           *)
ReadRoutes == {<<"admin">>, <<"metrics">>} \cup
  {<<"admin">> \o p : p \in {<<"config">>, <<"listeners">>, <<"services">>, <<"endpoints">>, <<"security-policies">>,
    <<"security", "cedar">>, <<"audit", "events">>, <<"audit", "stats">>, <<"tickets">>, <<"projects">>,
    <<"vault", "leases">>, <<"pools">>, <<"sessions">>}}
(* The ones that change the gateway's own state.                            *)
WriteRoutes == {<<"PUT", <<"admin", "route-policies", ":name">>>>} \cup
  {<<"POST", <<"admin">> \o p>> : p \in {<<"listeners">>, <<"listeners", ":name", "stop">>, <<"security", "cedar", "reload">>,
    <<"tickets">>, <<"tickets", ":id", "approve">>, <<"tickets", ":id", "reject">>, <<"tickets", ":id", "revoke">>,
    <<"tickets", "prune">>, <<"vault", "leases">>, <<"vault", "leases", "prune">>, <<"vault", "leases", ":id", "revoke">>,
    <<"vault", "leases", ":id", "renew">>, <<"pools", "refresh">>, <<"pools", ":name", "refresh">>, <<"reload">>}}
PortalRoute == <<"POST", <<"admin", "portal", "query">>>>
Routes == {<<"GET", p>> : p \in ReadRoutes} \cup WriteRoutes \cup {PortalRoute}

-----------------------------------------------------------------------------
(***************************************************************************)
(* Logins, tokens of an identity provider and operations, under accepted    *)
(* configurations.                                                          *)
(***************************************************************************)

Ttls == {0, 60, 90}
AdminConfigs ==
  {c \in [enabled : BOOLEAN, mode : {"none", "jwt_hmac", "jwt_jwks"}, secret : {0, 15, 16}, url : {TRUE},
          issuer : {"none", "i"}, audience : {"none", "a"}, leeway : {0, 5},
          paths : {{"roles", "groups", "realm_access.roles"}, {"realm_access.roles"}},
          bindings : {{}}, public_metrics : {FALSE}, role : {"ops", "boss"},
          password : {0, 7, 8}, ttl : Ttls] : (c.enabled \/ c.mode = "none") /\ validate_admin(c)}

(* A configuration, whether the password is right, the age of the token.    *)
Logins == AdminConfigs \X BOOLEAN \X {0, 60, 61, 65, 66, 90, 96}

Jwk(kty, use, kid, n) == [kty |-> kty, use |-> use, alg |-> "RS256", kid |-> kid, n |-> n]
Keys == {Jwk("RSA", "sig", "k1", "n1"), Jwk("RSA", "none", "k2", "n2"), Jwk("RSA", "sig", "none", "n3"),
         Jwk("EC", "sig", "k1", "n4"), Jwk("RSA", "enc", "k2", "n5")}
KeyDocuments == {<<>>} \cup {<<a>> : a \in Keys} \cup {<<a, b>> : a, b \in Keys}

(* What is cached, its age against a ttl of 1, what is published now.       *)
KeyLookups == KeyDocuments \X {0, 1} \X KeyDocuments

Providers == [enabled |-> TRUE, mode |-> "jwt_jwks", secret |-> 16, url |-> TRUE, issuer |-> "i", audience |-> "none",
              leeway |-> 5, paths |-> {"realm_access.roles"}, bindings |-> {<<"dbas", "operator">>, <<"all", "boss">>},
              public_metrics |-> FALSE, role |-> "admin", password |-> 8, ttl |-> 60]
ClaimValues == {TextClaim("dbas"), TextClaim("viewer"), TextClaim("guest"), ArrayClaim(<<TextClaim("root"), TextClaim("dbas")>>), ArrayClaim(<<>>),
                Nested(ArrayClaim(<<TextClaim("ops")>>)), Nested(TextClaim("all"))}
ClaimSets == {[x \in {"none"} |-> TextClaim("")]} \cup {[x \in {p} |-> v] : p \in {"roles", "groups", "realm_access"}, v \in ClaimValues}
               \cup {[x \in {"groups", "realm_access"} |-> IF x = "groups" THEN v ELSE w] : v, w \in ClaimValues}
AdminInputs == [login |-> Logins, keys |-> KeyLookups, grant |-> ClaimSets \X Routes]

(* A password login works: with the right password and only with it a token *)
(* is given, which is accepted for as long as the answer says (and for the  *)
(* leeway, no longer), with the role the answer names, under every accepted *)
(* configuration of issuer, audience, paths of claims and mode; for the     *)
(* provider's keys nobody is asked (break_glass_login, validate_token).     *)
LoginWorks ==
  Looking("login") =>
    LET c == input[1][1]
        got == break_glass_login(c, input[1][2], 1000)
        now == 1000 + input[1][3]
    IN /\ (got # <<>>) = (break_glass_enabled(c) /\ input[1][2])
       /\ \A g \in ToSet(got) :
            LET caller == validate_token(c, g.token, <<>>, now)
            IN /\ (caller # <<>>) = (input[1][3] <= g.expires_in + c.leeway)
               /\ \A who \in ToSet(caller) : who.roles = {g.role} /\ who.subject = "break-glass"

(* A token signed with a published key of signatures, and naming it, is     *)
(* verified with that key, once the cached keys are as old as their ttl, or *)
(* when they have it; a token without a name, with the first such key       *)
(* (document_to_entry, get_or_fetch, decoding_key_for).                     *)
Published(doc) == {doc[i] : i \in {i \in DOMAIN doc : Usable(doc[i])}}
KeyFound ==
  Looking("keys") =>
    LET seen == IF input[1][2] < 1 THEN input[1][1] ELSE input[1][3]
        old == document_to_entry(input[1][1])
        entry == get_or_fetch(IF Published(input[1][1]) = {} THEN <<>> ELSE <<old>>, input[1][2], 1, <<input[1][3]>>)
        now == IF Published(input[1][1]) # {} THEN seen ELSE input[1][3]
    IN /\ (entry = <<>>) = (Published(now) = {})
       /\ \A k \in Published(now) : k.kid # "none" => decoding_key_for(entry[1], k.kid) = {k.n}
       /\ Published(now) # {} =>
            \E i \in DOMAIN now : /\ decoding_key_for(entry[1], "none") = {now[i].n} /\ Usable(now[i])
                                  /\ \A j \in 1..i-1 : ~Usable(now[j])

(* Every operation that changes something in the gateway asks for a         *)
(* permission that viewers do not have.  The portal's query, which runs the *)
(* statement it is given on a backend, asks for one that viewers have: what *)
(* it may change is for the decisions on statements, where security is on.  *)
(* What a caller is told it may do is what it may do;                       *)
(* and a token whose claims name no role opens no route (required_permission*)
(* against the routes; me_response against authenticate_request).           *)
Idp(claims) == [alg |-> "RS256", key |-> "n1", kid |-> "k1", sub |-> "u", exp |-> 9, iss |-> "i", aud |-> "none", claims |-> claims]
GrantsAsTold ==
  Looking("grant") =>
    LET claims == input[1][1]
        method == input[1][2][1]
        path == input[1][2][2]
        entry == <<document_to_entry(<<Jwk("RSA", "sig", "k1", "n1")>>)>>
        Asked(m, p) == authenticate_request(Providers, <<Idp(claims)>>, entry, 0, m, p)
        me == me_response(<<Asked("GET", <<"admin", "me">>).caller>>, TRUE)
    IN /\ input[1][2] \in WriteRoutes => required_permission(method, path) \cap Permissions("viewer") = {}
                                    /\ required_permission(method, path) # {}
       /\ input[1][2] = PortalRoute => required_permission(method, path) = {"RuntimeRead"}
                                       /\ required_permission(method, path) \subseteq Permissions("viewer")
       /\ required_permission(method, path) \subseteq Permissions("admin")
       /\ (Asked(method, path).what = "caller")
            = (me.roles # {} /\ required_permission(method, path) \subseteq me.permissions)

=============================================================================
