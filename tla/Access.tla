------------------------------- MODULE Access -------------------------------
(***************************************************************************)
(* Who may use which application for which API: groups and their rules,     *)
(* resources (APIs), registered clients (applications), consents, and the   *)
(* endpoints that look all of it up again whenever a token is presented.    *)
(* One user is enough, since no rule relates two.                           *)
(*                                                                         *)
(* The triggers of migration 0025 run in the statement that fires them.     *)
(* Names, redirect URIs, grant types, audit rows and the tokens' signatures *)
(* are left out; the clients that describe themselves are MetadataClients.  *)
(***************************************************************************)
EXTENDS PermissionRules, Integers, Sequences, TLC

CONSTANTS
  Apps, Apis, Scopes,   \* client ids, resource URIs, scopes
  Bundles,              \* permission groups; "admins" is protected
  Priorities,           \* the priorities groups are given
  Submissions,          \* the rule documents administrators submit: sets of [effect, when]
  Tokens,               \* what is presented: [kind, app, api, scopes]
  Calls,                \* concurrent Worker invocations
  MaxEdits              \* bound on invocations

Kinds == {"access", "refresh", "service"}

ASSUME AccessAssumption ==
  /\ "admins" \in Bundles /\ Priorities \subseteq Nat /\ Priorities # {} /\ MaxEdits \in Nat
  /\ Submissions \subseteq SUBSET [effect : {"allow", "deny"}, when : Conditions]
  /\ Tokens \subseteq [kind : Kinds, app : Apps, api : Apis, scopes : SUBSET Scopes] /\ Standard \subseteq Scopes

VARIABLES
  rules,    \* permission_group_rules, by group
  bundle,   \* groups: the priority, or Unranked for none
  joined,   \* user_groups of the user
  api,      \* oauth_resources: state and allowed_scopes_json
  app,      \* oauth_clients: state, allowed_resources_json, allowed_scopes_json
  agreed,   \* consents: the scopes by client and resource
  live,     \* which of the user, the family and the session are in force; with
            \* "source", refresh_tokens.session_id names the session
  call,     \* locals of the invocations
  gone,     \* what has failed ever since an invocation began
  edits

accessVars == <<rules, bundle, joined, api, app, agreed, live, call, gone, edits>>

Facts == {"client", "resource", "user", "policy", "consent", "family", "session"}
AdminScopes == {"admin.read"}
States == {"none", "enabled", "disabled"}
ApiRows == [on : States, scopes : SUBSET Scopes]
AppRows == [on : States, apis : SUBSET Apis, scopes : SUBSET Scopes]
Unranked == -1
NoApi == [on |-> "none", scopes |-> {}]
NoApp == [on |-> "none", apis |-> {}, scopes |-> {}]

Quiet == [pc |-> "idle", on |-> "none", apis |-> {}, scopes |-> {}, rules |-> {},
          token |-> "none", todo |-> << >>]

(* What passes validatePermissionGroupRules.                               *)
Accepted == {rs \in Submissions : \A x \in rs : WellFormed(x.when)}

(* A deployment as its operators left it: groups with rules, the user in    *)
(* all of them, clients that may use every API, and a consent to all of it; *)
(* the family came from a session, or from none.                           *)
AccessInit ==
  /\ \E n \in Priorities : bundle = [g \in Bundles |-> IF g = "admins" THEN Min(Priorities) ELSE n]
  /\ rules \in [Bundles -> Accepted] /\ joined = Bundles
  /\ api = [p \in Apis |-> [on |-> "enabled", scopes |-> Scopes]]
  /\ app = [a \in Apps |-> [on |-> "enabled", apis |-> Apis, scopes |-> Scopes]]
  /\ agreed = [x \in Apps \X Apis |-> Scopes]
  /\ live \in {{"user", "family", "session", "source"}, {"user", "family"}}
  /\ call = [r \in Calls |-> Quiet] /\ gone = [r \in Calls |-> {}] /\ edits = 0

-----------------------------------------------------------------------------
(* The decision.                                                           *)

Stands(g) == bundle[g] # Unranked

(* getUserPermissionRules: the rules of the groups the user is in.          *)
Policy ==
  UNION {{[effect |-> x.effect, when |-> x.when, priority |-> bundle[g]] : x \in rules[g]} :
           g \in joined}

Asks(t, scope) == [application |-> t.app, api |-> t.api, scope |-> scope]

(* evaluateUserTokenAccess *)
Entitled(t) ==
  /\ \A x \in Policy : WellFormed(x.when)
  /\ Resolve(Policy, Asks(t, "none"), "base")
  /\ t.scopes \cap AdminScopes # {} => "admins" \in joined
  /\ \A s \in t.scopes \ Standard : Resolve(Policy, Asks(t, s), "scope")

(* The client's row decides on its own state and on what it is allowed.     *)
ClientServes(t) ==
  /\ app[t.app].on = "enabled" /\ t.api \in app[t.app].apis /\ t.scopes \subseteq app[t.app].scopes

(* resolveResourceForScopes, the part about the resource.                  *)
ResourceServes(t) ==
  api[t.api].on = "enabled" /\ t.scopes \ Standard \subseteq api[t.api].scopes

(* What one of the lookups of a handler finds.                             *)
Holds(fact, t) ==
  CASE fact = "client" -> ClientServes(t)
    [] fact = "resource" -> ResourceServes(t)
    [] fact = "policy" -> Entitled(t)
    [] fact = "consent" -> t.scopes \subseteq agreed[<<t.app, t.api>>]
    [] OTHER -> fact \in live

(* A family whose row names no session wants none.                         *)
Lacks(fact, t) == ~Holds(fact, t) /\ (fact = "session" => "source" \in live)

Missing ==
  [r \in Calls |-> IF call[r].pc \in {"check", "active"}
                   THEN {f \in Facts : Lacks(f, call[r].token)} ELSE {}]

(* Every action ends with this: what has been missing from the first to the *)
(* last moment of an invocation that looks at a token.                      *)
Observed ==
  gone' = [r \in Calls |-> IF call[r].pc = "idle" THEN Missing'[r] ELSE gone[r] \cap Missing'[r]]

(* The rows of families that go, or are revoked, with a client or resource. *)
LiveWithout(field, x) ==
  IF \E t \in Tokens : t.kind = "refresh" /\ t[field] = x THEN live \ {"family"} ELSE live

Start(r, locals) ==
  /\ call[r].pc = "idle" /\ edits < MaxEdits /\ edits' = edits + 1
  /\ call' = [call EXCEPT ![r] = locals]
  /\ UNCHANGED <<rules, bundle, joined, api, app, agreed, live>> /\ Observed

Ended(r) == call' = [call EXCEPT ![r] = Quiet]
Proceed(r, pc) == call' = [call EXCEPT ![r].pc = pc]
AtOnceEdit == edits < MaxEdits /\ edits' = edits + 1 /\ UNCHANGED call

-----------------------------------------------------------------------------
(* Presenting a token.  Each handler looks things up in its own order and   *)
(* stops at the first that fails.                                          *)

(* Slip: the consent is not looked at.                                     *)
WithoutConsent == <<"client", "resource", "user", "policy">>

(* Of an access token for a user, introspectAccessToken and handleUserInfo; *)
(* of a service's, introspectAccessToken and, before there is a token,      *)
(* handleClientCredentials; of a refresh token, handleIntrospect.           *)
IntrospectAccessToken == <<"client", "resource", "user", "policy", "consent">>
HandleUserInfo == <<"client", "resource", "consent", "user", "policy">>
IntrospectServiceToken == <<"client", "resource">>
HandleClientCredentials == <<"client", "resource">>
HandleIntrospect == <<"family", "client", "user", "policy", "consent", "session", "resource">>
WithoutSession == <<"client", "user", "policy", "consent", "resource">>

Handlers(t) ==
  CASE t.kind = "access" ->
         {IntrospectAccessToken} \cup (IF "openid" \in t.scopes THEN {HandleUserInfo} ELSE {})
    [] t.kind = "service" -> {IntrospectServiceToken, HandleClientCredentials}
    [] t.kind = "refresh" -> {HandleIntrospect}

Present(r, t, handler) == Start(r, [Quiet EXCEPT !.pc = "check", !.token = t, !.todo = handler])

(* What is left to look up.  The row of the family tells handleIntrospect   *)
(* whether there is a session to ask for.                                  *)
Left(todo) == IF Head(todo) = "family" /\ "source" \notin live THEN WithoutSession ELSE Tail(todo)

(* One lookup; the last one that succeeds answers.                         *)
LookUp(r) ==
  LET c == call[r] IN
  /\ c.pc = "check"
  /\ IF ~Holds(Head(c.todo), c.token) THEN Ended(r)
     ELSE IF Len(c.todo) > 1 THEN call' = [call EXCEPT ![r].todo = Left(@)]
     ELSE call' = [call EXCEPT ![r].pc = "active", ![r].todo = << >>]
  /\ UNCHANGED <<rules, bundle, joined, api, app, agreed, live, edits>> /\ Observed

(* The caller has the answer; authorizeMcpRequest takes an answer that is   *)
(* late, lost or malformed for a refusal and keeps none.                    *)
Answered(r) ==
  /\ call[r].pc = "active" /\ Ended(r)
  /\ UNCHANGED <<rules, bundle, joined, api, app, agreed, live, edits>> /\ Observed

-----------------------------------------------------------------------------
(* replacePermissionGroupRules: validate, look up what the rules name, then *)
(* delete and insert in one batch.                                         *)

SubmitRules(r, g, rs) ==
  /\ Stands(g) /\ rs \in Accepted
  /\ Start(r, [Quiet EXCEPT !.pc = "references", !.on = g, !.rules = rs])

Named(rs, field) == {ref[2] : ref \in {x \in UNION {References[y.when] : y \in rs} : x[1] = field}}

(* validateRuleReferences. *)
CheckReferences(r) ==
  LET rs == call[r].rules IN
  /\ call[r].pc = "references"
  /\ IF /\ \A a \in Named(rs, "application") : app[a].on # "none"
        /\ \A p \in Named(rs, "api") : api[p].on # "none"
        /\ Named(rs, "scope") \subseteq UNION {api[p].scopes : p \in Apis}
     THEN Proceed(r, "rules") ELSE Ended(r)
  /\ UNCHANGED <<rules, bundle, joined, api, app, agreed, live, edits>> /\ Observed

(* A group deleted meanwhile fails the foreign key.                        *)
WriteRules(r) ==
  LET g == call[r].on IN
  /\ call[r].pc = "rules" /\ Ended(r)
  /\ rules' = IF ~Stands(g) THEN rules ELSE [rules EXCEPT ![g] = call[r].rules]
  /\ UNCHANGED <<bundle, joined, api, app, agreed, live, edits>> /\ Observed

(* updateGroup, as far as it reorders groups.                              *)
SetPriority(g, n) ==
  /\ Stands(g) /\ n # bundle[g] /\ AtOnceEdit
  /\ bundle' = [bundle EXCEPT ![g] = n]
  /\ UNCHANGED <<rules, joined, api, app, agreed, live>> /\ Observed

DeleteBundle(g) ==
  /\ Stands(g) /\ g # "admins" /\ AtOnceEdit
  /\ bundle' = [bundle EXCEPT ![g] = Unranked] /\ rules' = [rules EXCEPT ![g] = {}]
  /\ joined' = joined \ {g}
  /\ UNCHANGED <<api, app, agreed, live>> /\ Observed

(* Memberships, in the detail of Administrators.                           *)
ChangeMembership(g) ==
  /\ Stands(g) /\ AtOnceEdit
  /\ joined' = IF g \in joined THEN joined \ {g} ELSE joined \cup {g}
  /\ UNCHANGED <<rules, bundle, api, app, agreed, live>> /\ Observed

-----------------------------------------------------------------------------
(* The triggers.                                                           *)

(* Slip: only the leaf that names the deleted thing goes.                  *)
WithoutLeaf(c, ref) ==
  IF IsLeaf(c) THEN c
  ELSE [c EXCEPT !.of = {d \in @ : ~(IsLeaf(d) /\ ref \in References[d])}]
PrunedLeaf(rs, ref) == {[x EXCEPT !.when = WithoutLeaf(x.when, ref)] : x \in rs}

(* prune_permission_rules_after_client_delete and _after_resource_delete:   *)
(* the whole rule goes.                                                    *)
Pruned(rs, ref) == {x \in rs : ref \notin References[x.when]}

(* prune_permission_rules_after_resource_scope_update: rules that name the  *)
(* API and a scope it no longer offers, or a scope that nobody offers.      *)
PrunedScopes(rs, p, apis) ==
  LET scopes(x) == Named({x}, "scope") IN
  {x \in rs :
     /\ <<"api", p>> \in References[x.when] => scopes(x) \subseteq apis[p].scopes
     /\ scopes(x) \subseteq UNION {apis[q].scopes : q \in Apis}}

-----------------------------------------------------------------------------
(* Resources, in the console.                                              *)

CreateResource(p, scopes) ==
  /\ api[p].on = "none" /\ AtOnceEdit
  /\ api' = [api EXCEPT ![p] = [on |-> "enabled", scopes |-> scopes]]
  /\ UNCHANGED <<rules, bundle, joined, app, agreed, live>> /\ Observed

(* The form holds every field, so updateResource writes what was submitted. *)
UpdateResource(p, on, scopes) ==
  LET after == [api EXCEPT ![p] = [on |-> on, scopes |-> scopes]] IN
  /\ api[p].on # "none" /\ after # api /\ AtOnceEdit
  /\ api' = after
  /\ rules' = [g \in Bundles |-> PrunedScopes(rules[g], p, after)]
  /\ UNCHANGED <<bundle, joined, app, agreed, live>> /\ Observed

(* deleteResource, one batch.                                              *)
DeleteResource(p) ==
  /\ api[p].on # "none" /\ AtOnceEdit
  /\ api' = [api EXCEPT ![p] = NoApi]
  /\ rules' = [g \in Bundles |-> Pruned(rules[g], <<"api", p>>)]
  /\ app' = [a \in Apps |-> [app[a] EXCEPT !.apis = @ \ {p}]]
  /\ agreed' = [x \in Apps \X Apis |-> IF x[2] = p THEN {} ELSE agreed[x]]
  /\ live' = LiveWithout("api", p)
  /\ UNCHANGED <<bundle, joined>> /\ Observed

-----------------------------------------------------------------------------
(* Clients.  Both forms of the console resubmit the whole configuration:    *)
(* the settings form with the APIs and scopes of the row it read first.    *)

Configure(r, a, pc, apis, scopes) ==
  /\ (app[a].on = "none") = (pc = "register")
  /\ Start(r, [Quiet EXCEPT !.pc = pc, !.on = a, !.apis = apis, !.scopes = scopes])

ConsoleClientSettings(r, a) ==
  Configure(r, a, "configure", app[a].apis, app[a].scopes)

ConsoleClientAccess(r, a, apis, scopes) == Configure(r, a, "configure", apis, scopes)
AdminPatchClient(r, a, apis, scopes) == Configure(r, a, "configure", apis, scopes)
ConsoleCreateClient(r, a, apis, scopes) == Configure(r, a, "register", apis, scopes)
AdminCreateClient(r, a, apis, scopes) == Configure(r, a, "register", apis, scopes)

(* validateClientConfiguration. *)
Configurable(apis, scopes) ==
  /\ apis # {} /\ \A p \in apis : api[p].on = "enabled"
  /\ scopes \ Standard \subseteq UNION {api[p].scopes : p \in apis}

ValidateClient(r) ==
  /\ call[r].pc \in {"configure", "register"}
  /\ IF Configurable(call[r].apis, call[r].scopes)
     THEN Proceed(r, IF call[r].pc = "configure" THEN "update" ELSE "insert") ELSE Ended(r)
  /\ UNCHANGED <<rules, bundle, joined, api, app, agreed, live, edits>> /\ Observed

(* updateClient. *)
UpdateClient(r) ==
  LET a == call[r].on IN
  /\ call[r].pc = "update" /\ Ended(r)
  /\ app' = IF app[a].on = "none" THEN app
            ELSE [app EXCEPT ![a].apis = call[r].apis, ![a].scopes = call[r].scopes]
  /\ UNCHANGED <<rules, bundle, joined, api, agreed, live, edits>> /\ Observed

(* createClient; the id is the primary key.                                *)
CreateClient(r) ==
  LET a == call[r].on IN
  /\ call[r].pc = "insert" /\ Ended(r)
  /\ app' = IF app[a].on # "none" THEN app
            ELSE [app EXCEPT ![a] = [on |-> "enabled", apis |-> call[r].apis, scopes |-> call[r].scopes]]
  /\ UNCHANGED <<rules, bundle, joined, api, agreed, live, edits>> /\ Observed

SetClientEnabled(a, on) ==
  /\ app[a].on \notin {"none", on} /\ AtOnceEdit
  /\ app' = [app EXCEPT ![a].on = on]
  /\ UNCHANGED <<rules, bundle, joined, api, agreed, live>> /\ Observed

(* deleteClient; consents and families go with the row.                    *)
DeleteClient(a) ==
  /\ app[a].on # "none" /\ AtOnceEdit
  /\ app' = [app EXCEPT ![a] = NoApp]
  /\ rules' = [g \in Bundles |-> Pruned(rules[g], <<"application", a>>)]
  /\ agreed' = [x \in Apps \X Apis |-> IF x[1] = a THEN {} ELSE agreed[x]]
  /\ live' = LiveWithout("app", a)
  /\ UNCHANGED <<bundle, joined, api>> /\ Observed

-----------------------------------------------------------------------------
(* What happens to the consent, the account, the session and the family.    *)

RevokeConsent(a) ==
  /\ AtOnceEdit /\ \E p \in Apis : agreed[<<a, p>>] # {}
  /\ agreed' = [x \in Apps \X Apis |-> IF x[1] = a THEN {} ELSE agreed[x]]
  /\ UNCHANGED <<rules, bundle, joined, api, app, live>> /\ Observed

Withdraw(x) ==
  /\ x \in live /\ AtOnceEdit /\ live' = live \ {x}
  /\ UNCHANGED <<rules, bundle, joined, api, app, agreed>> /\ Observed

(* Maintenance deletes the row of a session that is over, and ON DELETE SET *)
(* NULL makes the family's row one without a session.                      *)
ForgetSession ==
  /\ {"session", "source"} \cap live = {"source"} /\ live' = live \ {"source"}
  /\ UNCHANGED <<rules, bundle, joined, api, app, agreed, call, edits>> /\ Observed

-----------------------------------------------------------------------------
AccessNext ==
  \/ \E r \in Calls :
       \/ \E t \in Tokens : \E h \in Handlers(t) : Present(r, t, h)
       \/ LookUp(r) \/ Answered(r)
       \/ \E g \in Bundles, rs \in Submissions : SubmitRules(r, g, rs)
       \/ CheckReferences(r) \/ WriteRules(r)
       \/ \E a \in Apps : ConsoleClientSettings(r, a)
       \/ \E a \in Apps, apis \in SUBSET Apis, scopes \in {Standard, Scopes} :
            \/ ConsoleClientAccess(r, a, apis, scopes) \/ AdminPatchClient(r, a, apis, scopes)
            \/ ConsoleCreateClient(r, a, apis, scopes) \/ AdminCreateClient(r, a, apis, scopes)
       \/ ValidateClient(r) \/ UpdateClient(r) \/ CreateClient(r)
  \/ \E g \in Bundles : DeleteBundle(g) \/ ChangeMembership(g) \/ \E n \in Priorities : SetPriority(g, n)
  \/ \E p \in Apis, scopes \in {Standard, Scopes} :
       \/ CreateResource(p, scopes)
       \/ \E on \in {"enabled", "disabled"} : UpdateResource(p, on, scopes)
  \/ \E p \in Apis : DeleteResource(p)
  \/ \E a \in Apps : DeleteClient(a) \/ RevokeConsent(a)
                     \/ \E on \in {"enabled", "disabled"} : SetClientEnabled(a, on)
  \/ \E x \in {"user", "family", "session"} : Withdraw(x)
  \/ ForgetSession

AccessSpec == AccessInit /\ [][AccessNext]_accessVars

-----------------------------------------------------------------------------
(* The variables have their types.                                         *)
AccessTypeOK ==
  /\ bundle \in [Bundles -> Priorities \cup {Unranked}] /\ joined \subseteq Bundles
  /\ api \in [Apis -> ApiRows] /\ app \in [Apps -> AppRows]
  /\ agreed \in [Apps \X Apis -> SUBSET Scopes] /\ live \subseteq Facts \cup {"source"}
  /\ gone \in [Calls -> SUBSET Facts] /\ edits \in 0..MaxEdits
  /\ \A g \in Bundles : ~Stands(g) => rules[g] = {} /\ g \notin joined

(* However rules of several groups overlap, resolvePermissionRules grants   *)
(* exactly what some allow grants before every deny.                        *)
ResolutionAgrees ==
  \A t \in Tokens :
    /\ Resolve(Policy, Asks(t, "none"), "base") <=> Permitted(Policy, Asks(t, "none"), "base")
    /\ \A s \in t.scopes :
         Resolve(Policy, Asks(t, s), "scope") <=> Permitted(Policy, Asks(t, s), "scope")

Offered ==
  {<<"app", a, app[a].on>> : a \in {x \in Apps : app[x].on # "none"}}
    \cup {<<"group", g, "enabled">> : g \in {x \in Bundles : Stands(x)}}
    \cup UNION {{<<"api", <<p, s>>, api[p].on>> : s \in api[p].scopes} : p \in {x \in Apis : api[x].on # "none"}}

Deletes == Offered' \subseteq Offered /\ Offered' # Offered
Usable(t) == Entitled(t) /\ ClientServes(t) /\ ResourceServes(t)

(* A deletion widens access only by taking a deny with it: what is left of  *)
(* the rules never allows what they all did not.                           *)
OnlyDenialsWiden ==
  [][Deletes => \A t \in Tokens : Usable(t)' =>
       Usable(t) \/ \E g \in joined : \E x \in rules[g] \ rules'[g] : x.effect = "deny"]_accessVars

Needed(kind) ==
  CASE kind = "service" -> {"client", "resource"}
    [] kind = "access" -> {"client", "resource", "user", "policy", "consent"}
    [] kind = "refresh" -> Facts

(* docs/mcp.md: a change takes effect on the next request.  Nothing that a  *)
(* positive answer must rest on was missing all the while it was sought.    *)
(* Of a refresh token that includes the session for as long as the row of   *)
(* its family names one, and not after maintenance has deleted that session.*)
RestsOnCurrent ==
  \A r \in Calls : call[r].pc = "active" => gone[r] \cap Needed(call[r].token.kind) = {}
=============================================================================
