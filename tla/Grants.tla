------------------------------- MODULE Grants -------------------------------
(***************************************************************************)
(* From a user's decision to a set of tokens: authorization codes in their *)
(* Durable Objects, device codes in D1, consents, and the two exchanges,    *)
(* one await at a time, against everything that may take the decision back *)
(* meanwhile: revoking the application, ending the session, disabling the  *)
(* user, denying the device, deleting the resource.                        *)
(*                                                                         *)
(* There is one resource.  A set of tokens is an "issue": the response of  *)
(* issueUserTokens, its refresh-token family if it has one (whose own life *)
(* is the module RefreshTokens) and its row in authorization_grants.       *)
(***************************************************************************)
EXTENDS Integers, FiniteSets

CONSTANTS
  Codes, Devices,        \* authorization codes and device codes
  Issues,                \* ids of token sets
  Users, Clients, Sessions, Scopes,
  OwnerOf,               \* OwnerOf[s]: the user signed in with session s
  Requests,              \* concurrent Worker invocations
  CodeTtl, DeviceTtl, SessionTtl,
  PollInterval, Backoff, \* DEVICE_POLL_INTERVAL_SECONDS, and what slow_down adds
  MaxActiveDevices,      \* maxActiveSessions of createDeviceSession
  MaxClock, MaxFaults    \* bounds

ASSUME ConstantsAssumption ==
  /\ Codes \cap Devices = {}
  /\ Users # {} /\ Clients # {} /\ Sessions # {} /\ Scopes # {}
  /\ Codes \cup Devices # {} /\ Issues # {} /\ IsFiniteSet(Issues)
  /\ OwnerOf \in [Sessions -> Users]
  /\ {CodeTtl, DeviceTtl, SessionTtl, PollInterval, Backoff,
      MaxActiveDevices, MaxClock, MaxFaults} \subseteq Nat

VARIABLES
  clock,
  enabled,   \* enabled[u]: users.disabled = 0
  live,      \* live[s]: the session is not revoked
  api,       \* the resource is registered
  consent,   \* consent[<<u, c>>]: scopes of the row in consents, {} for no row
  code,      \* the storage of each AuthorizationCodeDO
  device,    \* device_authorization_sessions
  issue,     \* token sets
  req,       \* what each Worker invocation is doing
  faults

vars == <<clock, enabled, live, api, consent, code, device, issue, req, faults>>

Sources == Codes \cup Devices
AnyOf(S) == CHOOSE x \in S : TRUE
Never == -1              \* the NULL of last_polled_at
Bundles == SUBSET Scopes \ {{}}

Pcs == {"idle", "consent", "save", "store", "check", "consume", "issue", "recheck",
        "undo", "record", "respond", "expire", "slow", "poll", "approve", "deny",
        "families", "grants"}

NoRequest == [pc |-> "idle", src |-> AnyOf(Sources), client |-> AnyOf(Clients),
              session |-> AnyOf(Sessions), user |-> AnyOf(Users), scope |-> {},
              todo |-> {}, ready |-> FALSE, issue |-> AnyOf(Issues)]

(* The locals of a handler: the code or device, the authorization it       *)
(* carries, the parallel reads still under way, and whether the device row *)
(* it read was approved.                                                   *)
Checks == {"user", "session", "consent", "resource"}
RequestRecords ==
  [pc : Pcs, src : Sources, client : Clients, session : Sessions, user : Users,
   scope : SUBSET Scopes, todo : SUBSET Checks, ready : BOOLEAN, issue : Issues]

CodeRecords ==
  [st : {"none", "live", "consumed", "gone"}, client : Clients, user : Users,
   session : Sessions, scope : SUBSET Scopes, expiresAt : Nat]

DeviceRecords ==
  [st : {"none", "pending", "approved", "denied", "expired", "consumed"},
   client : Clients, scope : SUBSET Scopes, user : Users, session : Sessions,
   expiresAt : Nat, polledAt : Nat \cup {Never}, interval : Nat]

(* An issue: "bare" without a refresh token, else the state of its family; *)
(* the row in authorization_grants; whether a response has delivered it.   *)
IssueRecords ==
  [st : {"none", "bare", "open", "closed"}, src : Sources, client : Clients,
   user : Users, session : Sessions, scope : SUBSET Scopes,
   grant : {"none", "active", "revoked"}, given : BOOLEAN]

Init ==
  /\ clock = 0 /\ api = TRUE /\ faults = 0
  /\ enabled = [u \in Users |-> TRUE]
  /\ live = [s \in Sessions |-> TRUE]
  /\ consent = [p \in Users \X Clients |-> {}]
  /\ code = [k \in Codes |->
       [st |-> "none", client |-> AnyOf(Clients), user |-> AnyOf(Users),
        session |-> AnyOf(Sessions), scope |-> {}, expiresAt |-> 0]]
  /\ device = [d \in Devices |->
       [st |-> "none", client |-> AnyOf(Clients), scope |-> {}, user |-> AnyOf(Users),
        session |-> AnyOf(Sessions), expiresAt |-> 0, polledAt |-> Never,
        interval |-> PollInterval]]
  /\ issue = [i \in Issues |->
       [st |-> "none", src |-> AnyOf(Sources), client |-> AnyOf(Clients),
        user |-> AnyOf(Users), session |-> AnyOf(Sessions), scope |-> {},
        grant |-> "none", given |-> FALSE]]
  /\ req = [r \in Requests |-> NoRequest]

-----------------------------------------------------------------------------
(* Pieces shared by the handlers.                                          *)

Goto(r, pc) == req' = [req EXCEPT ![r].pc = pc]
Finish(r) == req' = [req EXCEPT ![r] = NoRequest]

(* getSessionById: the session is live, unexpired and of this user.        *)
SessionValid(s, u) == live[s] /\ clock < SessionTtl /\ OwnerOf[s] = u

(* The session middleware: the user of a live session, if enabled.         *)
SignedIn(s) == SessionValid(s, OwnerOf[s]) /\ enabled[OwnerOf[s]]

(* consentCoversScopes. *)
Covers(u, c, sc) == sc \subseteq consent[<<u, c>>]

(* Families and grants a revocation takes back, one statement at a time.    *)
Closing(I) ==
  [i \in Issues |-> IF i \in I /\ issue[i].st = "open" THEN [issue[i] EXCEPT !.st = "closed"]
                                                       ELSE issue[i]]
RevokeGrant(x) == IF x.grant = "active" THEN [x EXCEPT !.grant = "revoked"] ELSE x

-----------------------------------------------------------------------------
(* GET /oauth/authorize: a consent that covers the request yields a code.  *)
(* Anything else ends in a page, a login or an error redirect.             *)

AuthorizeStart(r, c, s, sc) ==
  /\ req[r].pc = "idle" /\ SignedIn(s) /\ api
  /\ req' = [req EXCEPT ![r] = [NoRequest EXCEPT
       !.pc = "consent", !.client = c, !.session = s, !.user = OwnerOf[s], !.scope = sc]]
  /\ UNCHANGED <<clock, enabled, live, api, consent, code, device, issue, faults>>

AuthorizeConsent(r) ==
  /\ req[r].pc = "consent"
  /\ IF Covers(req[r].user, req[r].client, req[r].scope) THEN Goto(r, "store") ELSE Finish(r)
  /\ UNCHANGED <<clock, enabled, live, api, consent, code, device, issue, faults>>

(* POST /oauth/authorize/decision: the user approves on the consent page.   *)
DecisionStart(r, c, s, sc) ==
  /\ req[r].pc = "idle" /\ SignedIn(s) /\ api
  /\ req' = [req EXCEPT ![r] = [NoRequest EXCEPT
       !.pc = "save", !.client = c, !.session = s, !.user = OwnerOf[s], !.scope = sc]]
  /\ UNCHANGED <<clock, enabled, live, api, consent, code, device, issue, faults>>

(* saveConsent adds the scopes to the ones already granted.                *)
SaveConsent(r) ==
  /\ req[r].pc = "save"
  /\ consent' = [consent EXCEPT ![<<req[r].user, req[r].client>>] = @ \cup req[r].scope]
  /\ Goto(r, "store")
  /\ UNCHANGED <<clock, enabled, live, api, code, device, issue, faults>>

(* issueAuthorizationCode: a fresh random code, stored in its own object.  *)
StoreCode(r, k) ==
  /\ req[r].pc = "store" /\ code[k].st = "none"
  /\ code' = [code EXCEPT ![k] =
       [st |-> "live", client |-> req[r].client, user |-> req[r].user,
        session |-> req[r].session, scope |-> req[r].scope, expiresAt |-> clock + CodeTtl]]
  /\ Finish(r)
  /\ UNCHANGED <<clock, enabled, live, api, consent, device, issue, faults>>

(* OneTimeConsumeDO.alarm. *)
CodeAlarm(k) ==
  /\ code[k].st = "live" /\ clock > code[k].expiresAt
  /\ code' = [code EXCEPT ![k].st = "gone"]
  /\ UNCHANGED <<clock, enabled, live, api, consent, device, issue, req, faults>>

-----------------------------------------------------------------------------
(* handleAuthorizationCode. *)

(* Slip: the stored code is looked at, not marked.                         *)
ConsumedInMemory(k) == code

Consumed(k) == [code EXCEPT ![k].st = "consumed"]

(* Slip: anyone may exchange a code.                                       *)
Unbound(k, c) == TRUE

Bound(k, c) == code[k].client = c

(* AuthorizationCodeDO.consumeIf, one storage transaction.  The redirect   *)
(* URI, PKCE and resource bindings are refused like a wrong client: without *)
(* consuming.                                                              *)
ExchangeCode(r, k, c) ==
  /\ req[r].pc = "idle"
  /\ code[k].st = "live" /\ clock <= code[k].expiresAt /\ Bound(k, c)
  /\ code' = Consumed(k)
  /\ req' = [req EXCEPT ![r] = [NoRequest EXCEPT
       !.pc = "check", !.src = k, !.client = c, !.session = code[k].session,
       !.user = code[k].user, !.scope = code[k].scope, !.todo = Checks]]
  /\ UNCHANGED <<clock, enabled, live, api, consent, device, issue, faults>>

(* One of the reads that Promise.all runs in parallel.                     *)
Passes(r, x) ==
  CASE x = "user"     -> enabled[req[r].user]
    [] x = "session"  -> SessionValid(req[r].session, req[r].user)
    [] x = "consent"  -> Covers(req[r].user, req[r].client, req[r].scope)
    [] x = "resource" -> api

(* Where a request goes when the last read is back.                        *)
Checked(r) == IF req[r].src \in Devices THEN "consume" ELSE "issue"

Check(r, x) ==
  /\ req[r].pc = "check" /\ x \in req[r].todo
  /\ IF Passes(r, x)
     THEN req' = [req EXCEPT ![r].todo = @ \ {x},
                             ![r].pc = IF req[r].todo = {x} THEN Checked(r) ELSE @]
     ELSE Finish(r)
  /\ UNCHANGED <<clock, enabled, live, api, consent, code, device, issue, faults>>

(* evaluateUserTokenAccess may refuse any request.                         *)
Refuse(r) ==
  /\ req[r].pc \in {"consent", "save", "check", "approve", "deny"}
  /\ Finish(r)
  /\ UNCHANGED <<clock, enabled, live, api, consent, code, device, issue, faults>>

(* The guard of the INSERT into refresh_tokens; a device's family has no   *)
(* session.                                                                *)
InsertAllowed(r) ==
  /\ enabled[req[r].user]
  /\ req[r].src \in Codes => SessionValid(req[r].session, req[r].user)

(* Slip: the device grant answers like the code grant does.                 *)
AnsweredAtOnce(r) == "record"

(* A device's authorization is looked at once more after the issue.        *)
Answered(r) == IF req[r].src \in Devices THEN "recheck" ELSE "record"

(* issueUserTokens, with and without a refresh token.                      *)
Issue(r, i, st) ==
  /\ req[r].pc = "issue" /\ issue[i].st = "none"
  /\ st = "open" => InsertAllowed(r)
  /\ issue' = [issue EXCEPT ![i] =
       [st |-> st, src |-> req[r].src, client |-> req[r].client, user |-> req[r].user,
        session |-> req[r].session, scope |-> req[r].scope, grant |-> "none", given |-> FALSE]]
  /\ req' = [req EXCEPT ![r].pc = Answered(r), ![r].issue = i,
                        ![r].todo = {"session", "consent"}]
  /\ UNCHANGED <<clock, enabled, live, api, consent, code, device, faults>>

(* issueRefreshToken throws when the guard fails.                          *)
IssueRefused(r) ==
  /\ req[r].pc = "issue" /\ ~InsertAllowed(r)
  /\ Finish(r)
  /\ UNCHANGED <<clock, enabled, live, api, consent, code, device, issue, faults>>

(* recordAuthorizationGrant. *)
RecordGrant(r) ==
  /\ req[r].pc = "record"
  /\ issue' = [issue EXCEPT ![req[r].issue].grant = "active"]
  /\ Goto(r, "respond")
  /\ UNCHANGED <<clock, enabled, live, api, consent, code, device, faults>>

Respond(r) ==
  /\ req[r].pc = "respond"
  /\ issue' = [issue EXCEPT ![req[r].issue].given = TRUE]
  /\ Finish(r)
  /\ UNCHANGED <<clock, enabled, live, api, consent, code, device, faults>>

-----------------------------------------------------------------------------
(* The device grant.                                                       *)

ActiveDevices(c) ==
  {d \in Devices : /\ device[d].client = c /\ device[d].st \in {"pending", "approved"}
                   /\ clock < device[d].expiresAt}

(* handleDeviceAuthorization and createDeviceSession. *)
DeviceStart(d, c, sc) ==
  /\ device[d].st = "none" /\ api
  /\ Cardinality(ActiveDevices(c)) < MaxActiveDevices
  /\ device' = [device EXCEPT ![d] = [@ EXCEPT
       !.st = "pending", !.client = c, !.scope = sc, !.expiresAt = clock + DeviceTtl]]
  /\ UNCHANGED <<clock, enabled, live, api, consent, code, issue, req, faults>>

(* POST /device/confirm, as far as the reads: the code must be pending.     *)
DecideStart(r, d, s, pc) ==
  /\ req[r].pc = "idle" /\ SignedIn(s) /\ api
  /\ device[d].st = "pending" /\ clock < device[d].expiresAt
  /\ req' = [req EXCEPT ![r] = [NoRequest EXCEPT
       !.pc = pc, !.src = d, !.client = device[d].client, !.session = s,
       !.user = OwnerOf[s], !.scope = device[d].scope]]
  /\ UNCHANGED <<clock, enabled, live, api, consent, code, device, issue, faults>>

(* Slip: UPDATE ... WHERE id = ?, without the status.                      *)
UndecidedOrNot(d) == device[d].st # "none"

(* AND status = 'pending'. *)
Undecided(d) == device[d].st = "pending"

(* approveDeviceWithConsent: consent and approval in one batch.            *)
Approve(r) ==
  LET d == req[r].src IN
  /\ req[r].pc = "approve"
  /\ IF Undecided(d)
     THEN /\ consent' = [consent EXCEPT ![<<req[r].user, req[r].client>>] = @ \cup req[r].scope]
          /\ device' = [device EXCEPT ![d] = [@ EXCEPT
               !.st = "approved", !.user = req[r].user, !.session = req[r].session]]
     ELSE UNCHANGED <<consent, device>>
  /\ Finish(r)
  /\ UNCHANGED <<clock, enabled, live, api, code, issue, faults>>

(* denyDevice. *)
Deny(r) ==
  LET d == req[r].src IN
  /\ req[r].pc = "deny"
  /\ device' = IF Undecided(d) THEN [device EXCEPT ![d].st = "denied"] ELSE device
  /\ Finish(r)
  /\ UNCHANGED <<clock, enabled, live, api, consent, code, issue, faults>>

(* revokeDeviceSession, from the admin API and the console.                *)
AdminRevokeDevice(d) ==
  /\ device[d].st \in {"pending", "approved"}
  /\ device' = [device EXCEPT ![d].st = "denied"]
  /\ UNCHANGED <<clock, enabled, live, api, consent, code, issue, req, faults>>

(* handleDeviceCodeGrant reads the row once and goes by what it read.       *)
PollStart(r, d, c) ==
  /\ req[r].pc = "idle" /\ device[d].st # "none" /\ device[d].client = c
  /\ req' = [req EXCEPT ![r] = [NoRequest EXCEPT
       !.pc = IF clock >= device[d].expiresAt THEN "expire"
              ELSE IF device[d].polledAt # Never /\ clock - device[d].polledAt < device[d].interval
              THEN "slow" ELSE "poll",
       !.src = d, !.client = c, !.session = device[d].session, !.user = device[d].user,
       !.scope = device[d].scope, !.ready = device[d].st = "approved"]]
  /\ UNCHANGED <<clock, enabled, live, api, consent, code, device, issue, faults>>

(* Slip: markDeviceExpired without a look at the status.                    *)
ExpirableAlways == {"pending", "approved", "denied", "consumed"}
Expirable == {"pending", "approved"}

(* markDeviceExpired. *)
PollExpire(r) ==
  LET d == req[r].src IN
  /\ req[r].pc = "expire"
  /\ device' = IF device[d].st \in Expirable THEN [device EXCEPT ![d].st = "expired"] ELSE device
  /\ Finish(r)
  /\ UNCHANGED <<clock, enabled, live, api, consent, code, issue, faults>>

(* Slip: the interval shrinks.                                             *)
Hastened(d) == device[d].interval - Backoff

Slowed(d) == device[d].interval + Backoff

(* recordDeviceSlowPoll; more than once per step of the clock is not       *)
(* told apart.                                                             *)
PollSlow(r) ==
  LET d == req[r].src IN
  /\ req[r].pc = "slow"
  /\ device' = [device EXCEPT ![d].polledAt = clock,
                 ![d].interval = IF @ <= MaxClock THEN Slowed(d) ELSE @]
  /\ Finish(r)
  /\ UNCHANGED <<clock, enabled, live, api, consent, code, issue, faults>>

(* recordDevicePoll, then the switch on the status that was read.          *)
PollRecord(r) ==
  LET d == req[r].src IN
  /\ req[r].pc = "poll"
  /\ device' = [device EXCEPT ![d].polledAt = clock]
  /\ IF req[r].ready THEN req' = [req EXCEPT ![r].pc = "check", ![r].todo = Checks]
                     ELSE Finish(r)
  /\ UNCHANGED <<clock, enabled, live, api, consent, code, issue, faults>>

(* Slip: the row that was read counts, not the row that is there.           *)
ApprovedWhenRead(d) == device[d].st \in {"approved", "consumed"}

(* AND status = 'approved'. *)
StillApproved(d) == device[d].st = "approved"

(* consumeApprovedDevice. *)
ConsumeDevice(r) ==
  LET d == req[r].src IN
  /\ req[r].pc = "consume"
  /\ IF StillApproved(d)
     THEN device' = [device EXCEPT ![d].st = "consumed"] /\ Goto(r, "issue")
     ELSE UNCHANGED device /\ Finish(r)
  /\ UNCHANGED <<clock, enabled, live, api, consent, code, issue, faults>>

(* sessionAfterIssue and consentAfterIssue, read in parallel.              *)
Recheck(r, x) ==
  /\ req[r].pc = "recheck" /\ x \in req[r].todo
  /\ IF Passes(r, x)
     THEN req' = [req EXCEPT ![r].todo = @ \ {x},
                             ![r].pc = IF req[r].todo = {x} THEN "record" ELSE @]
     ELSE Goto(r, "undo")
  /\ UNCHANGED <<clock, enabled, live, api, consent, code, device, issue, faults>>

(* The family just issued is revoked in its object and in D1.              *)
Undo(r) ==
  /\ req[r].pc = "undo"
  /\ issue' = Closing({req[r].issue})
  /\ Finish(r)
  /\ UNCHANGED <<clock, enabled, live, api, consent, code, device, faults>>

-----------------------------------------------------------------------------
(* What takes a decision back.                                             *)

(* POST /account/apps/:clientId/revoke: consents, families, grants.         *)
RevokeConsent(r, u, c) ==
  /\ req[r].pc = "idle" /\ enabled[u]
  /\ consent' = [consent EXCEPT ![<<u, c>>] = {}]
  /\ req' = [req EXCEPT ![r] = [NoRequest EXCEPT !.pc = "families", !.user = u, !.client = c]]
  /\ UNCHANGED <<clock, enabled, live, api, code, device, issue, faults>>

RevokeFamilies(r) ==
  /\ req[r].pc = "families"
  /\ issue' = Closing({i \in Issues :
       issue[i].user = req[r].user /\ issue[i].client = req[r].client})
  /\ Goto(r, "grants")
  /\ UNCHANGED <<clock, enabled, live, api, consent, code, device, faults>>

RevokeGrants(r) ==
  /\ req[r].pc = "grants"
  /\ issue' = [i \in Issues |->
       IF issue[i].user = req[r].user /\ issue[i].client = req[r].client
       THEN RevokeGrant(issue[i]) ELSE issue[i]]
  /\ Finish(r)
  /\ UNCHANGED <<clock, enabled, live, api, consent, code, device, faults>>

(* deleteResource: one batch; codes are not in D1.                         *)
DeleteResource ==
  /\ api /\ api' = FALSE
  /\ consent' = [p \in Users \X Clients |-> {}]
  /\ issue' = [i \in Issues |->
       RevokeGrant(IF issue[i].st = "open" THEN [issue[i] EXCEPT !.st = "closed"] ELSE issue[i])]
  /\ device' = [d \in Devices |-> IF device[d].st \in {"pending", "approved"}
                                  THEN [device[d] EXCEPT !.st = "denied"] ELSE device[d]]
  /\ UNCHANGED <<clock, enabled, live, code, req, faults>>

(* revokeSessionById: the session and the families that came from it.      *)
RevokeSession(s) ==
  /\ live[s] /\ live' = [live EXCEPT ![s] = FALSE]
  /\ issue' = Closing({i \in Issues : issue[i].src \in Codes /\ issue[i].session = s})
  /\ UNCHANGED <<clock, enabled, api, consent, code, device, req, faults>>

(* updateUser with disabled: the user, the sessions and every family.      *)
DisableUser(u) ==
  /\ enabled[u] /\ enabled' = [enabled EXCEPT ![u] = FALSE]
  /\ live' = [s \in Sessions |-> live[s] /\ OwnerOf[s] # u]
  /\ issue' = Closing({i \in Issues : issue[i].user = u})
  /\ UNCHANGED <<clock, api, consent, code, device, req, faults>>

Tick ==
  /\ clock < MaxClock /\ clock' = clock + 1
  /\ UNCHANGED <<enabled, live, api, consent, code, device, issue, req, faults>>

(* The Worker dies, or the call it waits for fails.                        *)
Crash(r) ==
  /\ req[r].pc # "idle" /\ faults < MaxFaults /\ faults' = faults + 1
  /\ Finish(r)
  /\ UNCHANGED <<clock, enabled, live, api, consent, code, device, issue>>

-----------------------------------------------------------------------------
Start(r) ==
  \/ \E c \in Clients, s \in Sessions, sc \in Bundles :
       AuthorizeStart(r, c, s, sc) \/ DecisionStart(r, c, s, sc)
  \/ \E k \in Codes, c \in Clients : ExchangeCode(r, k, c)
  \/ \E d \in Devices, c \in Clients : PollStart(r, d, c)
  \/ \E d \in Devices, s \in Sessions, pc \in {"approve", "deny"} : DecideStart(r, d, s, pc)
  \/ \E u \in Users, c \in Clients : RevokeConsent(r, u, c)

Continue(r) ==
  \/ AuthorizeConsent(r) \/ SaveConsent(r) \/ \E k \in Codes : StoreCode(r, k)
  \/ \E x \in Checks : Check(r, x) \/ Recheck(r, x)
  \/ Refuse(r)
  \/ \E i \in Issues, st \in {"bare", "open"} : Issue(r, i, st)
  \/ IssueRefused(r) \/ RecordGrant(r) \/ Respond(r) \/ Undo(r)
  \/ Approve(r) \/ Deny(r) \/ PollExpire(r) \/ PollSlow(r) \/ PollRecord(r)
  \/ ConsumeDevice(r) \/ RevokeFamilies(r) \/ RevokeGrants(r)

Environment ==
  \/ \E d \in Devices : AdminRevokeDevice(d)
  \/ \E d \in Devices, c \in Clients, sc \in Bundles : DeviceStart(d, c, sc)
  \/ \E k \in Codes : CodeAlarm(k)
  \/ \E s \in Sessions : RevokeSession(s)
  \/ \E u \in Users : DisableUser(u)
  \/ DeleteResource \/ Tick

Next == (\E r \in Requests : Start(r) \/ Continue(r) \/ Crash(r)) \/ Environment

Spec == Init /\ [][Next]_vars

-----------------------------------------------------------------------------
(* Properties.                                                             *)

TypeOK ==
  /\ clock \in Nat /\ faults \in Nat /\ api \in BOOLEAN
  /\ enabled \in [Users -> BOOLEAN] /\ live \in [Sessions -> BOOLEAN]
  /\ consent \in [Users \X Clients -> SUBSET Scopes]
  /\ code \in [Codes -> CodeRecords]
  /\ device \in [Devices -> DeviceRecords]
  /\ issue \in [Issues -> IssueRecords]
  /\ req \in [Requests -> RequestRecords]

Issued(x) == {i \in Issues : issue[i].st # "none" /\ issue[i].src = x}

(* A token set carries the user, client and scope of the decision it comes *)
(* from, as the code or the device row still states it, although the       *)
(* handlers read those once and use them many awaits later.                *)
IssuedAsDecided ==
  \A i \in Issues : issue[i].st # "none" =>
    LET x == issue[i].src
        decided == IF x \in Codes THEN code[x] ELSE device[x]
    IN  /\ decided.st = "consumed"
        /\ issue[i].user = decided.user /\ issue[i].client = decided.client
        /\ issue[i].scope = decided.scope

(* Two browsers may decide on one device code, and the device, an          *)
(* administrator and the clock compete with both.  Whoever is first wins:  *)
(* an approval names its user for good, and a final status stays.          *)
DecisionsStand ==
  [][\A d \in Devices :
       /\ device[d].st \in {"approved", "consumed"} =>
            device'[d].user = device[d].user /\ device'[d].session = device[d].session
       /\ device[d].st \in {"denied", "expired", "consumed"} => device'[d].st = device[d].st]_vars

Revoking(i) ==
  \E r \in Requests : /\ req[r].pc = "families"
                      /\ req[r].user = issue[i].user /\ req[r].client = issue[i].client

(* Revoking an application reaches a device whose tokens were being issued *)
(* meanwhile: a device that was answered keeps refresh access only while a *)
(* consent covers it.  A crash may cut the revocation short.               *)
RevocationReachesDevices ==
  \A i \in Issues :
    (issue[i].st = "open" /\ issue[i].given /\ issue[i].src \in Devices /\ faults = 0) =>
      Covers(issue[i].user, issue[i].client, issue[i].scope) \/ Revoking(i)

(* "This removes saved consent, authorization grants, and refresh access   *)
(* for this application": with the consent gone and nobody at work, no     *)
(* family of the user and client is open.                                  *)
RevocationIsComplete ==
  (\A r \in Requests : req[r].pc = "idle") =>
    \A i \in Issues :
      consent[<<issue[i].user, issue[i].client>>] = {} => issue[i].st # "open"

(* How far a code or a device code has come, for GrantSpec.                *)
Status(x) == IF x \in Codes THEN code[x].st ELSE device[x].st
Phase(x) ==
  CASE Status(x) = "none" -> "none"
    [] Status(x) \in {"live", "pending", "approved"} -> "offered"
    [] Status(x) = "consumed" -> "spent"
    [] OTHER -> "refused"

(* Codes and device codes are offered, spent or refused, and honoured, each *)
(* at most once (GrantSpec).                                               *)
Abstract == INSTANCE GrantSpec WITH
  phase <- [x \in Sources |-> Phase(x)],
  honours <- [x \in Sources |-> Cardinality(Issued(x))]

(* The exchanges implement single use, whatever crashes or races.          *)
ImplementsGrant == Abstract!Spec
=============================================================================
