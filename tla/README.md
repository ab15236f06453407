# Keyforge in TLA+

Keyforge is an OAuth 2.1 / OpenID Connect authorization server that runs as a
Cloudflare Worker. Its state is spread over stores that share no transaction:
D1 (SQLite; one statement or one `batch` is atomic), Durable Objects (one
serialised object per refresh-token family, authorization code, one-time token,
WebAuthn challenge or rate-limit key), KV (legacy signing keys), R2 (avatars),
queues (audit, e-mail) and caches in the memory of each isolate. A request is a
sequence of awaits over those stores and can be cut off at any of them. The
modules here model that: **one action per await**, with the handler's locals kept in
a record per request, so that every interleaving of handlers, crashes and
failed calls is explored.

Source paths are relative to the repository; the code is under `src/src`.

## Inventory

| Component | State | Operations | What is hard, and what makes it correct |
|---|---|---|---|
| Refresh-token families (`do/RefreshTokenFamilyDO.ts`, `tokens/refresh-token*.ts`, `oauth/token/refresh-token.ts`, `oauth/revoke.ts`) | object (meta, current and used hashes) and D1 row | issue, rotate, reuse, limit, revoke (token, session, all sessions, other sessions, application, device, user), alarm, clean-up | Two stores without a common transaction. Serial rotation, no fork, no resurrection, scope only narrows, revocation wins, cap on live families. |
| Browser sessions (`auth/session.ts`) | D1 row | create, touch, revoke (4 forms), expire, replace at reauthentication | Revocation races with token issuance. |
| Signing keys (`tokens/key-rotation.ts`, `oidc/jwks.ts`) | versioned D1 row, D1 lease, KV copies and marker, isolate caches, relying parties' JWKS | boot, migrate, stage, activate, retire, sign, publish, clean KV | Leases that run out, stale caches, two-phase publication. Every live token verifies. |
| Maintenance (`operations/maintenance.ts`) | leases, every table | cron: rotate keys, clean terminal rows, export audit | Duplicate or late cron events; bounded clean-up with foreign keys. |
| Authorization code grant and consent (`routes/authorize.ts`, `oauth/token/authorization-code.ts`, `do/AuthorizationCodeDO.ts`) | code object, consent rows, grants | authorize, consent, exchange, revoke application | Exchange is consume, check, issue, record, against a concurrent revocation. Codes are used once. |
| Device grant (`oauth/device-authorization.ts`, `oauth/token/device-code.ts`, `routes/device.ts`) | one D1 row with a status | start, poll, slow down, approve, deny, consume, expire, revoke | Conditional updates of one row by two browsers and a device. One set of tokens per code. |
| Account tokens (`auth/account-tokens.ts`, `auth/magic-link.ts`, `do/OneTimeTokenDO.ts`) | object, D1 row, `users.security_version` | create, peek, consume, apply | A link issued before a security change must not work after it. |
| Passwords and login methods (`auth/password.ts`, `routes/login.ts`, `routes/account-security.ts`) | credentials | add, verify, remove, reset | Removing the last login method from two sides. |
| Passkeys (`auth/passkey.ts`, `routes/webauthn.ts`) | credential rows with a counter, one-time challenges | register, sign in, remove | A challenge answered twice; two assertions verified against one counter. |
| Signing in again (`security/reauth-continuation.ts`, `auth/session.ts`, `routes/login.ts`) | sessions, continuations | sign in, replace, prove, sign out | A replacement that fails half-way; a continuation opened twice. |
| Users, groups, administrators (`db/queries/users.ts`, `db/queries/group-memberships.ts`, `admin/user-management.ts`, `console/*`, `routes/bootstrap.ts`) | users, groups, memberships, requests, bootstrap row | bootstrap, create, promote, demote, request, approve, disable, delete | At least one active administrator under concurrent removals; requests that race with joining. |
| Permission rules and resources (`oauth/permission-rules.ts`, `oauth/user-token-policy.ts`, `db/queries/resources.ts`, migration 0025) | rules, groups, resources, clients, consents | evaluate, edit, delete, prune | A pure evaluation with a definition to compare with; deletions that must not widen. |
| Introspection, userinfo, MCP (`oauth/introspect.ts`, `oauth/userinfo.ts`, `mcp/resource-server.ts`) | none | look up | Seven facts read one after the other while each can go. |
| Clients and their authentication (`oauth/client-id-metadata.ts`, `oauth/clients.ts`, `oauth/private-key-jwt.ts`) | client rows, cached documents, approvals, secrets, used assertion ids | fetch, resolve, approve, block, authenticate, rotate | A document that changes under decisions, codes and families; assertion replay; redirects. |
| Rate limits (`do/RateLimitDO.ts`) | counter per key | check, reset, alarm | Window boundary, saturation, late alarms. |
| Queues (`index.ts`, `security/audit.ts`, `email/sender.ts`) | two queues, dead-letter queues, audit rows | enqueue, fall back, deliver, retry, replay, expire | At-least-once delivery of whole batches. |
| Avatars, pages, plumbing | R2 object and column; none | | Presentation and parsing. |

`PROJECT.json` lists the components with their sources and status, and the
hazards with the line where each bites.

## Modules

| Module | Models |
|---|---|
| `RefreshFamilySpec` | Abstract: a family is a chain of tokens. The tip is exchanged for the next token until the family closes, for good. |
| `RefreshTokens` | The objects, the rows, sessions and users, and every handler that writes them, one await at a time. |
| `RefreshExpiry` | One question about it: does a family outlive its session? |
| `MCRefreshTokens` | Symmetry sets for TLC, and a bound on what is still possible once rows expire. |
| `RefreshTokensProofs` | The theorems about `RefreshTokens`, proved with TLAPS. |
| `SigningKeys` | Keyring row, leases, isolate caches, cron, first boot, KV migration, relying party. |
| `MCSigningKeys` | Symmetry sets for TLC, and how far the clock goes with a migration. |
| `SigningKeysProofs` | Theorems about `SigningKeys`. |
| `GrantSpec` | Abstract: a code or a link is offered, then spent or refused for good, and honoured at most once. |
| `Grants` | Authorization codes, consents, device codes and both exchanges, against everything that takes a decision back. |
| `MCGrants` | Owners of sessions, the stories of the runs, symmetry sets for TLC. |
| `GrantsProofs` | Theorems about `Grants`, with its refinement of `GrantSpec`. |
| `Accounts` | Links sent by e-mail, passwords, passkeys and sessions of an account, and what an administrator does to it. |
| `MCAccounts` | First addresses and login methods, the two stories of `accounts_emails`, symmetry sets for TLC. |
| `AccountsProofs` | Theorems about `Accounts`, with its refinement of `GrantSpec`. |
| `Administrators`, `MCAdministrators` | The first administrator, managed accounts, memberships and requests for them, groups, disabling and deletion, from the console, the API and the account pages. |
| `AdministratorsProofs` | Theorems about `Administrators`. |
| `PermissionRules` | Rules of permission groups: well-formedness, evaluation, and the definition it is compared with. |
| `Access` | Who may use which application for which API: rules, groups, resources, clients, consents, their edits and triggers, and the endpoints that look them up. |
| `MetadataClients` | Clients that describe themselves by a document at their URL: cache, approval, block, consent to a fingerprint, codes and families. |
| `ClientAuth` | Client authentication: secrets and their rotation, assertions, the guarded fetch of keys, used assertion ids. |
| `Passkeys` | Registration and sign-in ceremonies, signature counters. |
| `Reauthentication` | Signing in, signing in again with its continuation, signing out. |
| `MCEndpoints` | The previous five side by side, one moving at a time. |
| `CredentialsProofs` | Theorems about `ClientAuth`, `Reauthentication`, `Passkeys` and `MetadataClients`. |
| `AccessProofs` | Theorems about `PermissionRules` and `Access`, and about the composition in `MCEndpoints`. |
| `RateLimit` | The counter of one key. |
| `Delivery` | The audit and the e-mail queue. |
| `MCServices` | The counter and the two queues, one moving at a time. |
| `ServicesProofs` | Theorems about `RateLimit` and `Delivery`. |

### RefreshTokens

*State.* `family[f]` is the storage of one object, `row[f]` its row in
`refresh_tokens`, `sess` and `user` the tables they refer to. `known[f]` are the
tokens some response delivered, `minted[f]` how many were stored. Tokens of a
family are numbered, which stands for random values and an injective hash.
`req[r]` holds the locals of a Worker invocation and the await it has reached.

*Actions.* `Issue*` is `issueRefreshToken` (object `init`, then the guarded
insert with pruning in one batch, then the burning of what was pruned, then the
response). `Refresh*` is `handleRefreshToken` and `rotateRefreshToken`: lookup
and scope check on the row, policy reads, the object's transaction (rotated,
reuse, limit, too soon, refused), the guarded `UPDATE` of the row, burning on
failure, the response. `RevokeToken*` is RFC 7009: object first, row second.
The other `Revoke*` actions are the D1 revocations, which change the rows in one
batch and then mirror into the objects one by one. `RevokeRowsOnly` stands for the
places that only change the rows (for example deleting a resource). `Alarm`,
`CleanupRow` and `CleanupSession` are expiry. `Crash`, `IssueInsertError`, `RefreshCommitError`
and `MirrorFail` are the faults, at most `MaxFaults` of them. A D1 error is
either before or after the statement took effect.

*Left out.* The access and ID tokens issued along with a refresh token; the permission policy,
which only decides whether a request goes on; `resource`, which never changes
after issuance; families from before `authTime` existed.

### SigningKeys

*State.* `ring` is the row of `signing_key_state` with its version, `lease` the two
rows of `maintenance_leases`, `cache[i]` the module-level cache of isolate `i`,
`kv` and `marker` the legacy copies and the note to remove them, `jwks` what a
relying party holds, `signed[k]` the last use of key `k`.

*Actions.* `Cron*` is `runScheduledMaintenance` as far as keys go; `Rotate*`,
`Mark`, `Persist*`, `Return`, `ReleaseKey` are `rotateSigningKey` and
`rotatePersistedKeyring`; `EnsureStart`, `Init*`, `LoadEnd` are `ensureKeyring`;
`Kv*` and `Ready*` the clean-up of KV. A cron event runs up to `CronDelay` after
its scheduled time and may be delivered twice; time passes while a job runs,
so a lease may run out under its owner.

### Grants

*State.* `code[k]` is the storage of one `AuthorizationCodeDO`, `device[d]` a row of
`device_authorization_sessions`, `consent[<<u, c>>]` the scopes of a row in `consents`, `issue[i]` a set of tokens:
the response of `issueUserTokens`, its family if there is one (open or closed; its own life is `RefreshTokens`)
and its row in `authorization_grants`. `req[r]` holds the locals of a handler.

*Actions.* `Authorize*`, `Decision*`, `SaveConsent`, `StoreCode` are the authorization endpoint;
`ExchangeCode` is the object's transaction `consumeIf`, which refuses a wrong binding without consuming;
`Check` is one of the reads that the handlers run in `Promise.all`, in any order; `Issue`, `RecordGrant`, `Respond` end an exchange.
`DeviceStart`, `DecideStart`, `Approve`, `Deny`, `AdminRevokeDevice`, `Poll*`, `ConsumeDevice`, `Recheck`, `Undo` are the device
grant, which reads its row once and then relies on conditional updates. `RevokeConsent`, `RevokeFamilies`, `RevokeGrants` are the three
statements of revoking an application; `RevokeSession`, `DisableUser` and `DeleteResource` are one batch each.

*Left out.* Redirect URIs, PKCE, `resource`, `prompt` and `max_age`: they are compared and refuse a request, as `Bound` and `Refuse` do.
Several resources: consents and grants are per resource, and no operation relates two of them.

### Accounts

*State.* `user[u]` is the row in `users` with its `security_version`, membership of `admins` and credentials; `link[l]` a one-time
object and, except for sign-in links, its row (`password_reset_tokens` or `email_verifications`); `sess[s]` a session and what it was opened
with; `effects[l]` counts how often following `l` changed the account. `req[r]` holds the locals of a handler.

*Actions.* `AskLink`, `LinkVersion`, `LinkRow`, `LinkStore` create a link of one of the five purposes: address first, version later, row,
object. A sign-in link reads the account a second time (`MagicAccount` is `createMagicLink`) and is bound to the address found then, but mailed to the one that was typed (`MailedTo`); `to` keeps it. `Follow` to `CheckOwner` take it: reset and invitation links are peeked at first, then object, row (or version) and account
are looked at in turn. `SetPassword`, `ChangeEmail`, `MagicSession` apply it in one guarded batch each; a verification goes through
`UpdateRead` and `UpdateWrite`, which are `updateUser` and also serve profile edits and the administrator's changes. `Misdirected` is a
token posted to the form of another purpose. `Login*` and `OpenSession` are `POST /login`; `AddPassword*`, `AddPasskey`, `DeleteMethod`
the login methods; `Promote` and `DeleteUser` one batch each. `Methods` is what the guards of the deletions count; `Usable` what lets the account in, which for an administrator leaves out passwords that are too short (`Eligible`, as `verifyLoginPassword`). `Purposes`, `Patches` and `Activities` choose what goes on in an instance.

*Left out.* Passkey ceremonies and the session that a repeated sign-in replaces (below), the password asked for by sensitive forms, aliases and names.

### Administrators

*State.* `user`, `member`, `pending`, `group` are the tables `users`, `user_groups`, `group_membership_requests`, `groups`; `sess[u]` the
strengths of the live sign-ins of `u`; `boot` the row of `bootstrap_state`. `firsts` is a history: how often the deployment was given its first administrator, which on a provisioned one has happened before the start.

*Actions.* Each handler of `console/users.ts`, `console/groups.ts`, `admin/users.ts`, `routes/account.ts` and `routes/bootstrap.ts` starts with the reads
it decides by and goes on to the query it calls; both front ends share the queries, so they share the second actions (`StatusRead` and `StatusWrite`, `AddMember`,
`ReplaceGroups`, `DropGroup` and so on). A request keeps whether the security version it read still is the account's. The triggers of the migrations
run inside the statement that fires them. Every statement that could remove an active administrator carries the guard `AdminRemainsWithout`, except the two of
`createManagedUser`: `setUserGroups` on the new account and the roll-back. `AdministratorRemains` says exactly that.

### PermissionRules and Access

A rule is an effect and a condition; a condition is a leaf over application, API or scope, or a conjunction or disjunction of conditions.
`Resolve` is `resolvePermissionRules`: of the rules that match at a stage, those of the highest priority win, and a deny wins among them. `ResolutionAgrees`
compares it with the sentence of the documentation, by quantifiers, for every reachable policy. `Conditions` is the set the rules draw on, closed under parts; what inspects and evaluates a condition is a recursive
function on it. The rules a deployment starts with have passed the validation that submitted ones do (`Accepted`).

*State.* `rules`, `bundle` (groups with their priority), `joined`, `api`, `app`, `agreed`, and `live`: which of user, family and session are in force, and (`"source"`) whether the family's row names a session. `call[r]` holds the
locals of a handler, `gone[r]` the facts that have been missing ever since it began.

*Actions.* Rule documents are submitted, their references checked, and written (three awaits); clients are validated, then written; resources are created, updated and
deleted in one batch, with `Pruned` and `PrunedScopes` for the triggers of migration 0025. `Present` and `LookUp` are the endpoints: each goes through its own list of facts in its own order and stops
at the first that fails; `Answered` is the response. The session of a refresh token is looked up only where the row names one (`Left`, `WithoutSession`); `ForgetSession` is maintenance
deleting a session that is over, which sets the column to NULL.

### MetadataClients

*State.* `served` is the document at the client's URL, `card` the row of the client with fingerprint, expiry and state, `consent` the user's consent to one fingerprint,
`codes` and `chains` what came from it, `decided` the documents that posted decisions resolved (not what a page showed before), `honoured` those that tokens stood for.

*Actions.* `Authorize` to `ApprovalChecked` are `resolveAuthorizationClient` with `upsertMetadataClient`: a row that has not expired is *read and written back*, an expired one fetched; then
insert-or-ignore, read again, one batch, read again, approval. A page (`ConsentLooked`) and a decision (`SaveConsent`) each run through it on their own. `ExchangeCode`, `ConsumeCode`, `CheckGrant`, `IssueTokens`,
`RefreshChain`, `UseChain` are the token endpoint; `Approve`, `Block`, `DeleteCard`, `CleanupCard`, `RevokeMetadataApp` are what operators, maintenance and the user do meanwhile; `Publish` is the client's site.

### ClientAuth, Passkeys, Reauthentication

`ClientAuth`: `Presents`, `ReadClient`, `CompareSecret` for secrets (the hash read is compared an await later, while `RotateSecret` may replace it); `Hop`, `Redirected`, `FetchFailed`, `Verified`,
`InsertJti` for assertions. `Hop` is the check of a URL before it is fetched, with the resolution of its host (`HopSafe`);
what comes of the fetch is a later step. The fetch resolves the host again on its own, so nothing is claimed of the address it contacts. `accepted[a]` counts how often an assertion was accepted up to its expiry, over all lives of the client,
`lost[a]` how often its row went with the client; the id (`jti`) is the primary key of its row, so two assertions with one id exclude each other for as long as the row of the first is there, whatever the second's expiry.

`Passkeys`: `Store`, `Spent`, `Forget` are `OneTimeConsumeDO`; the options and verify endpoints of registration and sign-in consume a challenge, verify, update the counter where it is as read, look the owner up
and insert a session. The signature check is external: a response carries any counter that `@simplewebauthn/server` would let pass, as a cloned authenticator could send.
A login notes the row whose counter it advanced (`enrolment`): the conditional `UPDATE` compares id and counter, so a passkey that was deleted and registered again under the same id between the read and the update is matched if the counters agree.

`Reauthentication`: a checked login creates a session, revokes the one it replaces, undoes itself when that fails, and leaves a continuation bound to the session and to the authorization request;
`ConsumeProof` is the conditional update that uses it up. `Mishap`s are failed statements.

### RateLimit and Delivery

`RateLimit` keeps the storage and the alarm of one object. `deleteAll` may or may not take the alarm with it, so `Reset` allows both. `Delivery` keeps, per message, how often it has failed, the dead-letter queues, the
rows and what the provider took. A batch is acknowledged or fails as a whole; a statement that failed may have committed (`StoreBatchFails`), a batch of e-mails may fail after the provider took some or all of them (`SendBatchFails`), a send that failed may have queued
the message (`RecordDirectly`).

## Runs

| Run | Question | Bounds |
|---|---|---|
| `refresh_rotation` | Serial rotation, ownership, narrowing, refinement of the chain; also while rows, sessions and objects expire and are deleted | 1 family, 2 clients, 1 session, 2 scopes, 2 requests, 2 generations, 1 fault, clock 3; after clock 1 (where rows, sessions and objects expire) without fault or narrowing, one rotation, one client and one request at a time |
| `refresh_mirror` | The cap on live families; liveness: burned objects reach D1, revoked rows reach objects | 2 families, cap 1, 2 requests, no faults |
| `refresh_expiry_dev` | No family outlives its session, with a retention shorter than the life of a family: **violated** | 1 family, 1 request, clock past both expiries and the retention |
| `keys` | Every live token verifies; the keyring can sign; writers do not undo each other; copies of private keys in KV stay marked for removal | 2 isolates, 2 jobs, clock 8 = boot, stage, activate, stage again; or a migration with 1 fault and clock 1 |
| `grants` | A code is honoured once, as it was issued; the first decision on a device code stands, tokens once, to whoever approved; revocation reaches a device being answered | either 1 code, 2 clients, 2 scopes, 1 fault; or 1 device code, 2 users with a session each, no faults; 2 requests, room for 2 token sets |
| `grants_revocation` | Revoking an application leaves no refresh access: **violated** | 1 code, 1 client, 2 requests; the resource stays registered |
| `accounts_links` | Links of all purposes take effect once, for the version the account still has; bound, and where they set a password also mailed, to the address it has | 1 account, new or with a passkey, 2 links, 2 addresses, 1 session, 2 requests, 2 transitions, 1 fault |
| `accounts_emails` | Addresses stay unique; the last login method that lets an account in stays | 2 accounts with a passkey each, one of them with a password for administrators too, 3 addresses, 2 links, 2 requests, no faults; either both change addresses, with 1 transition each, or one is promoted, resets and adds a weak or a strong password and removes login methods, with 2 transitions |
| `accounts_verified` | A verified address stays verified: **violated** | 1 account, 1 link, 2 requests |
| `administrators` | An administrator remains; a deployment is given one first administrator; memberships, requests and limits stay consistent | new deployment or 2 administrators, 3 accounts, 2 teams, 2 requests, 3 invocations, 1 fault |
| `endpoints` | Rules resolve as defined, answers rest on what held during the request, deletions widen only by taking a deny; consent is to the document; a block stands; authentication, ceremonies and repeated sign-ins hold | 2 requests at once in each of the five components; 2 edits (Access), 5 events, of which those up to the third overlap, and 2 documents (MetadataClients), 4 logins, 3 sites and 1 redirect (ClientAuth), 5 arrivals, 2 ceremonies, counters to 2 (Passkeys), 3 tabs, 3 sessions, 2 mishaps (Reauthentication) |
| `services` | The limit holds, and a window with denials is announced once; nothing accepted is lost or sent under two keys; liveness: everything accepted settles | limit 2, window 3, clock 10; 2 events or 2 e-mails of which one does not parse, 2 consumers, 1 retry, 1 replay |

*Why the bounds suffice.* Two requests are what a race needs: the object and D1
serialise everything else, and `RotationInv` is proved for any number. One family is enough
where families do not interact; pruning and revocation by user are where
they do, and `refresh_mirror` has two. Two generations
give an exchange, a reuse, a rotation that is too soon and the limit. One fault cuts any
single request at any await; two independent faults on one family only close
it twice. For keys, the durations keep the relations of the real ones (propagation 120 s =
isolate cache 30 s + `max-age` 60 s + `stale-while-revalidate` 30 s becomes
2 = 1 + 1; the lease is as long as a cron event may be late; grace is longer than a token lives).
For codes, one code and room for two token sets are what a double exchange needs; two requests can be the two exchanges, or an
exchange and a revocation; two clients or two users are the ones that must not be confused.
For links, two of them can be older and newer than a transition, or of two purposes; `MaxVersion` = 2 lets a link outlive one transition
and be issued between two. Accounts meet only in their addresses, and `accounts_emails` has two.
Three invocations on administrators are a removal, another removal and what lets one of them pass. Five events on a metadata client are a decision, a new document, an authorization that stores it, and an exchange and a refresh of what was agreed to before;
four of them make a code of the old document meet the new one, and accepting it there violates `AgreedToDocument` (its mutant). Four arrivals at client authentication are an acceptance, the deletion of the client, its onboarding and another acceptance. In `MCEndpoints` and `MCServices` the components share no variable, so exploring them one at a time loses
no behaviour of any of them. Three clock steps per window, with a clock of ten, are three windows, so that a late alarm of the first can reach the third.
The rule documents of `MCSubmissions` hold each shape that pruning treats differently: a conjunction that loses a part, a scope next to its API, a negated leaf, a leaf that loses one of two values; one document is too deep and is refused.

*Deadlock.* Not checked: all requests may be done and the clock at its bound.

*Fairness.* `refresh_mirror` uses `WF_vars(Continue(r))`, weak fairness of the next
await of a request that is running. A Worker invocation that is not killed continues when
its await resolves; being killed is the action `Crash`. Starting requests, the clock,
alarms and maintenance are not fair. `services` uses `DeliveryFairness`: the platform runs a consumer that has a batch until it returns or fails
(weak fairness of `Consume`), and does not forever pass over one message when it composes batches (strong fairness of handing out each message, since a message is not
available while another consumer has it acknowledged or failed). Nothing is assumed about success: a batch may fail every time, and then `max_retries` and the dead-letter queue settle it.

*Slack of the propagation delay.* `JWKS_PROPAGATION_SECONDS` is exactly the sum of the cache
lifetimes. This leaves nothing for the load itself: if a load of the keyring
that began before a rotation may be remembered a step after it (`LoadLatency` = 1 in `Keys.cfg`), racing boots that stage a key
between two cron events are enough for an isolate's cache to outlive the sum, and `TokensVerifiable` fails. `Timely` says how much slack a longer load needs
(twice the latency: one for the keyring that is remembered late, one for the rotation whose write is later than the time it works with). `keys` takes loads as instantaneous on the scale of the
clock. A key staged by the cron has the next hour to spread, not only the 120 s.

*A late cron event.* The wait before a staged key may sign is measured from `pendingSince`, which is the scheduled time of the cron event and not the time of staging.
An event that runs as late as the whole delay stages a key that is at once old enough. The cron itself comes back an hour later; but a boot
whose rotation is still under way activates the key at once, because `loadOrInitializeKeyring` returns the promise of the rotation from inside
`try` without awaiting it (`key-rotation.ts` 360), so that `finally` has given the lease back. Two isolates that boot together while the first cron event of a deployment is two minutes late are enough:
with three jobs, `CronDelay` = `Propagation` = 2, a period and interval of 4, `LoadLatency` = 0, cache and token lifetimes of 1, `Grace` = 3, leases of 4 and no faults, TLC finds `TokensVerifiable` violated at clock 2.
Hence `CronDelay + LoadLatency < Propagation` in `Timely`; the comment on the constant (`key-rotation.ts` 12: the delay "Must exceed the public JWKS cache
lifetime before a staged key can sign") is kept only under that assumption. No run of the project repeats this experiment.

### Findings

* **`refresh_expiry_dev`.** A request with a family whose session expired is
  refused while the session row exists, and accepted again once maintenance has deleted the
  row: the foreign key sets `session_id` to NULL and the handler takes NULL
  for a family without a session. Only with a retention shorter than the life
  of a family (dev: 14 days against 30). Introspection reads the deleted session the same way (`introspect.ts` 116) and answers such a token active; `RestsOnCurrent` asks for the session only while the row names one.
* **`grants_revocation`.** Revoking an application while a code of it is being exchanged leaves an open family: the exchange read
  the consent before it was deleted and inserts the family after the families were revoked (and records a grant that stays unrevoked if it comes after the last statement).
  The run keeps the resource registered (`ResourceStays`), so the trace is `RevokeConsent`, `RevokeFamilies`, `RevokeGrants` between the checks of an exchange and its `Issue`. The device
  grant has the second look that closes this (`Recheck`, `Undo`); the code grant has not. The family is useless until the
  user consents again, because a refresh requires a consent that covers it.
* **`accounts_verified`.** `updateUser` writes back the verification it read, and a verification does not advance the security version that
  guards the write: a profile saved at the same time undoes it.

Claims of the documentation that the modelled code does not keep, found while the properties were stated. Each is a note of its hazard in
`PROJECT.json`; the property that is checked says what does hold.

* `docs/operations.md` 92: every removal path preserves an active administrator. `createManagedUser` rolls its account back with a plain `DELETE`; if that account was promoted, and the others demoted, before
  its invitation failed, nobody is left. `AdministratorRemains` holds of every other path.
* `docs/operations.md` 97: a new administrator must sign in again. `createSession` is not guarded by the security version: a password sign-in
  that read the role before a promotion opens its session after the promotion has revoked the others.
* `docs/operations.md` 119: deleting a group, client or resource does not widen access. Pruning a *deny* does. `OnlyDenialsWiden` holds: nothing else does.
* `docs/mcp.md` 191: assertions are replay-checked. The row of a used assertion is deleted at its expiry, and the assertion verifies for the clock tolerance beyond it. Deleting a client deletes the rows of its assertions, and one of them is accepted again if the client is
  onboarded again before it expires. `AuthenticationHolds` says *until it expires*, and once more for each time its row went with the client.
* `docs/mcp.md` 183: every DNS target is validated. The host is resolved and checked (`client-id-metadata.ts` 300), and the fetch (318) resolves it again. No property speaks of the address that is contacted.
* `db/queries/webauthn.ts` 170: a passkey is removed only while "another currently usable login method remains". The guards count an administrator's short passwords, which `verifyLoginPassword` refuses (`password.ts` 338). An account with a passkey and a short password that
  is promoted can lose the passkey. `LoginMethodRemains` exempts exactly that (`LeftWeak`): an administrator left with passwords it had.
* `routes/magic-link.ts` 143 and 152: a sign-in link is mailed to the address that was looked up, and bound to the one `createMagicLink` reads after it. If the address changes in between, a link that works goes to the old address. `LinksAreCurrent` claims what a sign-in link is
  bound to, and where a link was mailed only of those that set a password.
* `docs/mcp.md` 210: consent displays the metadata. The decision resolves the client again and saves consent to what it finds then; a document that changed after the page was made is agreed to unseen. `AgreedToDocument` holds: what is honoured is what was *approved*, fingerprint by fingerprint.
* `docs/mcp.md` 216: a changed fingerprint revokes refresh tokens. A family inserted by an exchange that read the old document stays open; it cannot be used, since consent is to the new one.

## Proofs

Eight modules hold theorems, each proved for all values of the constants that satisfy
the named assumptions: any numbers of users, families, codes, links, requests, isolates, faults, and any clock.
The assumptions give bounds and durations their types, keep different kinds of things apart (`Codes \cap Devices = {}`; ceremonies are not credentials,
in `PasskeysAssumption`), close `Conditions` under parts, and make finite what is counted (`Families`, `Issues`, `Groups`, `Passwords`). Two say more, and one theorem has a hypothesis (`Timely`, below):
`GraceAssumption` of `SigningKeys` (a cron event is not as late, and a load does not take as long, as the grace period of a retired key: minutes against 91 days), and
`Window <= MaxTime` of `RateLimit` (the clock starts at one window, for 0 stands for a key that was never counted).

A proof has one lemma per action, or per group of actions that touch the same variables, and a lemma that says what a step may do
to the parts the invariant speaks of. TLC checked the theorems' properties on the runs before they were proved.

**`RefreshTokensProofs`**

* `TypeCorrect`: `[]TypeOK`. `ActiveFamiliesAreOwned`: `[]OwnedBySomeoneActive`, inductive with `TypeOK`.
* `RotationIsSerial`: `[]RotationInv`. The property that matters is `MirrorAgrees` (the token a
  client can exchange is the one D1 mirrors). It is not inductive: the step that delivers a token needs to know
  that the row already mirrors it, which needs that no other request has
  moved the object meanwhile. `CarrierHolds` says so (whoever carries a new token is
  alone, and the row is where it left it); `SnapshotHolds` says
  that what a request checked before the object is still true if its token is
  still current; `TokensAreMinted` that new tokens are new.
* `MirrorNarrows`: `MirrorOnlyNarrows`, a step at a time from `RotationInv`.
* `Refinement`: `ImplementsChain`, each action mapped to a step of the chain or a stutter.
* `FamiliesAreCapped`: `[]FamilyCap`. The order in which the pruning statement keeps rows is total (`OlderIsTotal`), so ranking the candidates is injective and the kept ones
  map one to one into the ranks that are kept (`PruningLeavesRoom`); with the family inserted in the same batch that is the cap. No request works with a time that has not come (`NowInv`), so no family is counted out that is live.

**`GrantsProofs`**

* `GrantsTyped`: `[]TypeOK`. `DeviceDecisionsStand`: `DecisionsStand`, from the types.
* `TokensFollowDecision`: `[]IssuedAsDecided`. It speaks of token sets that exist; the inductive `DecisionInv` adds what the handlers carry before: who has spent a code is alone in that, has issued nothing for it
  yet, and carries what was decided; who has read an approved device carries what its row says for good.
* `SingleUse`: `ImplementsGrant`, the refinement of `GrantSpec`, from `DecisionInv`. That honouring happens once needs `SpentOnce` and that issuing starts from no token set.
* `RevocationReaches`: `[]RevocationReachesDevices`. The property is about devices that were answered; the inductive `RevocationInv` extends it to the ones about to be: from its second look at the consent on, the request vouches for the token set.

**`AccountsProofs`**

* `AccountsTyped`: `[]TypeOK`. `MethodRemains`: `LoginMethodRemains`. A reset checks the new password against the role some awaits before it writes; `WorthyInv`, which rests on `LinkInv` below, says that the password is strong enough for the role as long as the account has the link's security version, which a promotion advances and the batch compares. `UniqueAddresses`: `[]EmailsUnique`, inductive in the form that two accounts with one address are the same.
* `CurrentLinks`: `LinksAreCurrent`, and `LinksOnce`: `ImplementsLinks`. Both need `LinkInv`: a handler that follows a link carries what the link says and is the only one to have spent it, and the address it compared
  some awaits ago is still right *for as long as the account has the link's security version*, which is what the guarded batch compares. Versions only grow, so a link is never ahead of its account.

**`AdministratorsProofs`**

* `AdministratorsTyped`: `[]TypeOK`, with what handlers rely on over an await (`LocalsHold`), for instance that a set of groups to be written is within the limit.
* `Memberships`: `[]MembershipHolds`. The inductive form adds that an account which does not exist has neither membership nor request.
* `OneBootstrap`: `[]BootstrapOnce`: a first administrator at most once, on a provisioned deployment never again, and the row of `bootstrap_state` says which. `AnAdministratorRemains`: `AdministratorRemains`; each guarded statement looks again at the rows it depends on.

**`SigningKeysProofs`**

* `KeysTyped`: `[]TypeOK`.
* `HalvesInPlace`: `[]PrivateHalves`. `CopiesTracked`: `CopiesStayTracked`. `KeysStayPublished`: `PublishedStays`. All from `RingInv`: a stored keyring is `Sound`; what a job read is a row of some version so far, and *the* row if the version is
  the present one (`SeenHolds`), so that a write whose version check succeeds builds on the row as it is; a migration has set the marker before it writes (`MigrationHolds`); and a job that rotates is over before the key it retires could be dropped (`TimeHolds`, which is where `GraceAssumption` is used).
* `TokensStayVerifiable`: `Timely` implies `[]TokensVerifiable`. `Timely` relates the lifetimes, and `MCSigningKeys` assumes it of the run:
  a document built from the oldest cached keyring is out of use before a key it lacks may sign (30 + 90 s against 120 s), and before the cron event after the one that staged it (an hour);
  a late event is over before the key it staged could be activated; a retired key is kept longer than an isolate that has not noticed goes on signing and its tokens live (91 days). It is a hypothesis of this theorem
  only, because the code keeps it by convention; *Slack of the propagation delay* and *A late cron event* above say what happens without it.
  The property is about the present moment; the inductive `FreshInv` is about everything that may still be used later. `View` says of an older keyring, in an isolate's cache or in the hands of a job that may yet remember it, that it knows
  every key that has been able to sign, that its own key stays published for as long as its tokens live, and that if it lacks the staged key then no cron event that may activate that key comes (`Waits`) while documents built from it are in use.
  `Document` says the same of a published key set, `SignedFresh` of the keys of tokens in use. Scheduled times are multiples of the period (`OnGrid`), so the event after the one that staged a key is a whole period later;
  a first boot that is about to rotate and finds a staged key finds it too young (`JobFresh`), which is what rules out the story of the late cron event. The invariant was checked with TLC on `keys`, and with a latency of one step and a longer propagation, before it was proved.

**`CredentialsProofs`**

* `AuthenticationTyped`: `[]ClientAuthTypeOK`. `CredentialsAreCurrent`: `[]AuthenticationHolds`. `AuthInv` adds that an accepted assertion has its row until it expires, or lost it to a deletion of the client once for each acceptance, and that the hash a request compares with is no older than the request.
* `BrowsingIsTyped`: `[]ReauthenticationTypeOK`. `OneLoginOneLift`: `[]ReauthenticationHolds`. `BrowsingInv` adds that a session which was lifted has used its proof, that a login in progress owns the session it made, and that while two sessions are both valid one request is replacing one by the other or the failure was recorded.
* `CeremoniesTyped`: `[]PasskeysTypeOK`. `ChallengesAnsweredOnce`: `[]CeremoniesHold`. `CeremonyInv` adds that the ceremony a request answers is nobody else's, that every counter a login won is at most the row's, and that two logins under way on one row have different counters.
* `MetadataTyped`: `[]MetadataTypeOK`. `BlockIsDurable`: `[]BlockStands`.
* `ConsentIsToDocument`: `[]AgreedToDocument`, inductive with `CheckedInv`: a request that was checked against the consent and has yet to issue goes by what the user decided, even if the consent is gone by then.

**`AccessProofs`**

* `RulesResolve`: `[]ResolutionAgrees`. Priorities are natural numbers, so some rule that matches has the smallest (`SomeWin`); the winners hold no deny exactly if an allow among them comes before every deny. Nothing is needed of conditions but that each matches or does not.
* `AccessTyped`: `[]AccessTypeOK`, with what is stored (every rule has passed validation) and what invocations carry over an await (`AccessInv`).
* `AnswersAreCurrent`: `[]RestsOnCurrent`. `SoughtInv` adds, of an invocation that is still looking: what its token needs and has been missing all the while (the session only if the row names it) is among the lookups it has yet to make.
* `PruningOnlyLosesDenials`: `OnlyDenialsWiden`. Fewer rules, of which no deny is missing, permit no more than all (`FewerPermitLess`); that the larger set was usable at all needs that all stored rules are well formed. The handlers that only edit either leave what is offered as it is or offer something new, so they are no deletions.
* `EndpointsTyped`: `[]EndpointsTypeOK`, and `EndpointsCorrect`: a behaviour of `MCEndpoints` is one of each component (`ComponentsBehave`), so what is proved of each holds of all beside each other.

**`ServicesProofs`**

* `LimiterTyped`: `[]RateLimitTypeOK`. `DenialsAnnounced`: `[]DenialsHold`, with `RetryInv`: what the last denial announced is the end of the window it was counted in.
* `TwiceTheLimitAtMost`: `[]LimitHolds`, stated of the sequence of allowed requests: one and the one twice the limit later are at least a window apart. `WindowInv` adds that the last of them are the ones the running window has counted, that those before came no later than its beginning and all but a limit's worth a window earlier, and that an alarm is not due while the window it would wipe is running.
* `QueuesTyped`: `[]DeliveryTypeOK`. `NothingLost`: `[]NothingLostNorRepeated`, inductive as `KeptInv`, which names the key under which an e-mail was sent. (No run repeats `RateLimitTypeOK` and `DeliveryTypeOK`.)

### Only model-checked

* The liveness properties `BurnReachesMirror`, `RevocationReachesObject` and `EventuallySettled`: fairness and `ENABLED` are beyond the prover.
* What the recursive functions of `PermissionRules` compute (`Inspect`, `UsesScope`, `References`, `Matches`): that would be induction over conditions. The theorems on `Access` hold whatever they return.
* The runs that expect a violation: what they check is false.

## Plan

1. *(done)* `RefreshFamilySpec`, `RefreshTokens`, their runs and theorems.
2. *(done)* `SigningKeys`, its runs and theorems.
3. *(done)* `Grants` and its abstract specification, with theorems.
4. *(done)* `Accounts`: links, security versions, login methods, with theorems.
5. *(done)* `Administrators`, with theorems.
6. *(done)* `PermissionRules`, `Access`, `Passkeys`, `Reauthentication`, `MetadataClients`, `ClientAuth`, `RateLimit`, `Delivery`, their runs, theorems and composition.

Every safety property of a passing run is stated by a theorem. What is left are the liveness properties, which stay with TLC, and the parts listed next.

## Not modelled

Cryptography, HTML, translations (`i18n`, `views`, `assets`: about a quarter of the source), CSRF and cookie parsing, HTTP routing and the
discovery document have no state that the properties speak of. JWT contents are left out: a token is the key that
signed it and when, or the facts an endpoint looks up for it. Avatars are an object in R2 next to one column; the worst outcome of a failed step is an object that nothing refers to.
The YOLO mode of development deployments, which skips bindings and proofs on purpose, is off in every module. Listings, searches and the audit viewer are reads. The caps that guard against abuse rather than
inconsistency (10,000 client documents, request sizes, page sizes) and names, aliases and display order are left out. Clean-up of rows that no handler looks at again is left out.
