--------------------------- MODULE RefreshTokens ---------------------------
(***************************************************************************)
(* Refresh-token families: the per-family Durable Object that serialises    *)
(* rotation, the D1 row that mirrors it and is the authority for           *)
(* revocation, and the Worker requests that update both, one await at a    *)
(* time.  Sessions and users are modelled as far as they decide which      *)
(* families may exist.                                                     *)
(*                                                                         *)
(* A token of family f is a number: 0 is the one the family is issued      *)
(* with, and every successful rotation stores the next number.  A family   *)
(* id is a number too, so that "ORDER BY created_at, id" is an order.      *)
(***************************************************************************)
EXTENDS Integers, FiniteSets

CONSTANTS
  Families,              \* ids issueRefreshToken may draw (numbers)
  Users, Clients, Sessions, Scopes,
  Requests,              \* concurrent Worker invocations
  NoSession,             \* the NULL of refresh_tokens.session_id
  MaximumGeneration,     \* REFRESH_TOKEN_POLICY.maximumGeneration
  MinimumInterval,       \* REFRESH_TOKEN_POLICY.minimumRotationIntervalSeconds
  MaximumActiveFamilies, \* ....maximumActiveFamiliesPerUserClient
  RefreshTtl, SessionTtl, \* TOKEN_TTL.refreshToken, SESSION_TTL.default
  Retention,             \* terminalDataRetentionDays
  AlarmDelay,            \* the 60 s between expiry and the object's alarm
  MaxClock,              \* bound: the clock stops here
  MaxFaults              \* bound: crashes, D1 errors and failed calls

ASSUME ConstantsAssumption ==
  /\ Families \subseteq Nat /\ Families # {} /\ IsFiniteSet(Families)
  /\ Users # {} /\ Clients # {} /\ Scopes # {}
  /\ NoSession \notin Sessions
  /\ MaximumGeneration \in Nat /\ MinimumInterval \in Nat
  /\ MaximumActiveFamilies \in Nat \ {0}
  /\ RefreshTtl \in Nat \ {0} /\ SessionTtl \in Nat \ {0}
  /\ Retention \in Nat /\ AlarmDelay \in Nat
  /\ MaxClock \in Nat /\ MaxFaults \in Nat

VARIABLES
  clock,     \* nowSeconds()
  user,      \* users.disabled, or "deleted"
  sess,      \* the sessions table
  family,    \* the storage of each RefreshTokenFamilyDO
  row,       \* the refresh_tokens table
  minted,    \* how many tokens of the family have been stored
  known,     \* tokens of the family that a response has delivered
  req,       \* what each Worker invocation is doing
  faults     \* how many of the MaxFaults faults have happened

vars == <<clock, user, sess, family, row, minted, known, req, faults>>

Forged == -1            \* a token value that was never issued
Presentable(f) == known[f] \cup {Forged}
AnyOf(S) == CHOOSE x \in S : TRUE
SessionIds == Sessions \cup {NoSession}

Pcs == {"idle", "insert", "issueMirror", "policy", "rotate", "commit",
        "respond", "burn", "markReuse", "markLimit", "revokeObject",
        "markRevoked", "mirror"}

(* Steps at which a request holds a stored token it may still deliver.     *)
Carrying == {"insert", "issueMirror", "commit", "respond"}

NoRequest == [pc |-> "idle", fam |-> AnyOf(Families), tok |-> Forged, new |-> Forged,
              gen |-> 0, scope |-> {}, user |-> AnyOf(Users), client |-> AnyOf(Clients),
              session |-> NoSession, now |-> 0, pending |-> {}]

(* A request record: the locals a handler keeps across its awaits.         *)
RequestRecords ==
  [pc : Pcs, fam : Families, tok : Nat \cup {Forged}, new : Nat \cup {Forged},
   gen : Nat, scope : SUBSET Scopes, user : Users, client : Clients,
   session : SessionIds, now : Nat, pending : SUBSET Families]

SessionRecords ==
  [st : {"none", "live", "revoked", "deleted"}, user : Users,
   expiresAt : Nat, revokedAt : Nat]

(* The keys of one RefreshTokenFamilyDO: "meta", "currentHash", "used:*".  *)
FamilyRecords ==
  [st : {"empty", "live", "revoked"}, client : Clients, scope : SUBSET Scopes,
   generation : Nat, current : Nat, used : SUBSET Nat,
   lastRotatedAt : Nat, expiresAt : Nat]

(* One row of refresh_tokens; "deleted" keeps the last values of the row.  *)
RowRecords ==
  [st : {"absent", "active", "revoked", "deleted"}, hash : Nat, gen : Nat,
   scope : SUBSET Scopes, user : Users, client : Clients, session : SessionIds,
   createdAt : Nat, expiresAt : Nat, revokedAt : Nat]

Init ==
  /\ clock = 0
  /\ user = [u \in Users |-> "enabled"]
  /\ sess = [s \in Sessions |-> [st |-> "none", user |-> AnyOf(Users),
                                 expiresAt |-> 0, revokedAt |-> 0]]
  /\ family = [f \in Families |->
       [st |-> "empty", client |-> AnyOf(Clients), scope |-> {}, generation |-> 0,
        current |-> 0, used |-> {}, lastRotatedAt |-> 0, expiresAt |-> 0]]
  /\ row = [f \in Families |->
       [st |-> "absent", hash |-> 0, gen |-> 0, scope |-> {}, user |-> AnyOf(Users),
        client |-> AnyOf(Clients), session |-> NoSession,
        createdAt |-> 0, expiresAt |-> 0, revokedAt |-> 0]]
  /\ minted = [f \in Families |-> 0]
  /\ known = [f \in Families |-> {}]
  /\ req = [r \in Requests |-> NoRequest]
  /\ faults = 0

-----------------------------------------------------------------------------
(* Pieces shared by the handlers.                                          *)

Goto(r, pc) == req' = [req EXCEPT ![r].pc = pc]
Finish(r) == req' = [req EXCEPT ![r] = NoRequest]

Fault == faults < MaxFaults /\ faults' = faults + 1

(* Slip: revoke reads the metadata but never stores it back.               *)
BurnedInMemory(f) == family[f]

(* RefreshTokenFamilyDO.revoke: an object without "meta" stays empty.      *)
Burned(f) == IF family[f].st = "empty" THEN family[f]
             ELSE [family[f] EXCEPT !.st = "revoked"]
BurnFamily(f) == family' = [family EXCEPT ![f] = Burned(f)]

(* Slip: the expiry of the session is not compared.                        *)
SessionUnexpiring(s, u, at) == sess[s].st = "live" /\ sess[s].user = u

(* getSessionById as seen at time `at`: a live, unexpired session of u.    *)
SessionValid(s, u, at) ==
  sess[s].st = "live" /\ sess[s].user = u /\ at < sess[s].expiresAt

ActiveRows == {f \in Families : row[f].st = "active"}

(* UPDATE refresh_tokens SET revoked_at = now WHERE id IN F.               *)
RevokeRows(F, at) ==
  [f \in Families |-> IF f \in F THEN [row[f] EXCEPT !.st = "revoked", !.revokedAt = at]
                                 ELSE row[f]]

(* UPDATE sessions SET revoked_at = now WHERE id IN S AND revoked_at IS NULL. *)
RevokeSessions(S) ==
  [s \in Sessions |-> IF s \in S /\ sess[s].st = "live"
                      THEN [sess[s] EXCEPT !.st = "revoked", !.revokedAt = clock]
                      ELSE sess[s]]

SessionsOf(u) == {s \in Sessions : sess[s].user = u}
FamiliesOf(u) == {f \in ActiveRows : row[f].user = u}

(* revokeRefreshFamilyDurableObjects is handed the ids the batch returned. *)
StartMirror(r, F) ==
  req' = [req EXCEPT ![r] = IF F = {} THEN NoRequest
                            ELSE [NoRequest EXCEPT !.pc = "mirror", !.pending = F]]

-----------------------------------------------------------------------------
(* issueRefreshToken.                                                      *)

(* The object is initialised first; its token is stored but not delivered. *)
IssueInit(r, f, u, c, s, sc) ==
  /\ req[r].pc = "idle"
  /\ minted[f] = 0
  /\ s # NoSession => sess[s].st # "none" /\ sess[s].user = u
  /\ family' = [family EXCEPT ![f] =
       [st |-> "live", client |-> c, scope |-> sc, generation |-> 0, current |-> 0,
        used |-> {}, lastRotatedAt |-> clock, expiresAt |-> clock + RefreshTtl]]
  /\ minted' = [minted EXCEPT ![f] = 1]
  /\ req' = [req EXCEPT ![r] =
       [NoRequest EXCEPT !.pc = "insert", !.fam = f, !.new = 0, !.scope = sc,
                         !.user = u, !.client = c, !.session = s, !.now = clock]]
  /\ UNCHANGED <<clock, user, sess, row, known, faults>>

(* Slip: the INSERT checks the user only.                                  *)
InsertForUser(r) == user[req[r].user] = "enabled"

(* The WHERE clause of the INSERT, with the `now` read before the init.    *)
InsertAllowed(r) ==
  /\ user[req[r].user] = "enabled"
  /\ req[r].session # NoSession => SessionValid(req[r].session, req[r].user, req[r].now)

(* The other live families of the same user and client, oldest first ...   *)
PruneCandidates(r) ==
  {g \in ActiveRows : /\ row[g].user = req[r].user /\ row[g].client = req[r].client
                      /\ row[g].expiresAt > req[r].now /\ g # req[r].fam}

OlderThan(h, g) ==
  \/ row[h].createdAt < row[g].createdAt
  \/ row[h].createdAt = row[g].createdAt /\ h < g

(* Slip: the family being inserted is not counted.                         *)
PrunedOneShort(r) ==
  LET cand   == PruneCandidates(r)
      excess == Cardinality(cand) - MaximumActiveFamilies
  IN  {g \in cand : Cardinality({h \in cand : OlderThan(h, g)}) < excess}

(* ... and the LIMIT max(count - maximum, 0) of them that the batch prunes. *)
Pruned(r) ==
  LET cand   == PruneCandidates(r)
      excess == Cardinality(cand) + 1 - MaximumActiveFamilies
  IN  {g \in cand : Cardinality({h \in cand : OlderThan(h, g)}) < excess}

(* Slip: the presented token is stored, and a new family has none.         *)
RowsWithPresentedToken(r) ==
  [row EXCEPT ![req[r].fam].st = "active", ![req[r].fam].hash = req[r].tok]

RowsAfterInsert(r) ==
  [RevokeRows(Pruned(r), req[r].now) EXCEPT ![req[r].fam] =
     [st |-> "active", hash |-> req[r].new, gen |-> 0, scope |-> req[r].scope,
      user |-> req[r].user, client |-> req[r].client, session |-> req[r].session,
      createdAt |-> req[r].now, expiresAt |-> req[r].now + RefreshTtl, revokedAt |-> 0]]

IssueInsert(r) ==
  /\ req[r].pc = "insert"
  /\ IF InsertAllowed(r)
     THEN /\ row' = RowsAfterInsert(r)
          /\ req' = [req EXCEPT ![r].pc = "issueMirror", ![r].pending = Pruned(r)]
     ELSE /\ Goto(r, "burn")
          /\ UNCHANGED row
  /\ UNCHANGED <<clock, user, sess, family, minted, known, faults>>

(* The batch throws; D1 may nevertheless have committed it.                *)
IssueInsertError(r) ==
  /\ req[r].pc = "insert"
  /\ Fault
  /\ \/ UNCHANGED row
     \/ InsertAllowed(r) /\ row' = RowsAfterInsert(r)
  /\ Goto(r, "burn")
  /\ UNCHANGED <<clock, user, sess, family, minted, known>>

IssueRespond(r) ==
  /\ req[r].pc = "issueMirror" /\ req[r].pending = {}
  /\ known' = [known EXCEPT ![req[r].fam] = @ \cup {req[r].new}]
  /\ Finish(r)
  /\ UNCHANGED <<clock, user, sess, family, row, minted, faults>>

-----------------------------------------------------------------------------
(* handleRefreshToken and rotateRefreshToken.                              *)

(* Slip: the requested scope is not compared with the granted one.         *)
ScopeRequested(f, sc) == sc # {}

(* A requested scope is a non-empty part of the row's scope.               *)
ScopeAllowed(f, sc) == sc # {} /\ sc \subseteq row[f].scope

(* lookupPresentedFamily: by hash, else by the family prefix; either way   *)
(* the row of f.                                                           *)
RefreshLookup(r, f, t, c, sc) ==
  /\ req[r].pc = "idle"
  /\ t \in Presentable(f)
  /\ row[f].st = "active" /\ row[f].client = c /\ clock < row[f].expiresAt
  /\ ScopeAllowed(f, sc)
  /\ req' = [req EXCEPT ![r] =
       [NoRequest EXCEPT !.pc = "policy", !.fam = f, !.tok = t, !.scope = sc, !.client = c,
                         !.user = row[f].user, !.session = row[f].session]]
  /\ UNCHANGED <<clock, user, sess, family, row, minted, known, faults>>

(* The parallel reads of user, source session, access policy, consent and  *)
(* resource; the last three may refuse the request in any state.           *)
RefreshPolicy(r) ==
  /\ req[r].pc = "policy"
  /\ \/ /\ user[req[r].user] = "enabled"
        /\ req[r].session # NoSession => SessionValid(req[r].session, req[r].user, clock)
        /\ Goto(r, "rotate")
     \/ Finish(r)
  /\ UNCHANGED <<clock, user, sess, family, row, minted, known, faults>>

(* RefreshTokenFamilyDO.rotate is one storage transaction.  It listens to  *)
(* the client the family belongs to until the family is burned or expires; *)
Listens(r) ==
  LET o == family[req[r].fam]
  IN  o.st = "live" /\ o.client = req[r].client /\ clock <= o.expiresAt

(* the current token is exchanged below the generation limit and, from the *)
(* second rotation on, not before the minimum interval has passed;         *)
Exchangeable(r) ==
  LET o == family[req[r].fam]
  IN  /\ Listens(r)
      /\ req[r].tok = o.current
      /\ o.generation < MaximumGeneration
      /\ o.generation = 0 \/ clock - o.lastRotatedAt >= MinimumInterval

(* the current token at the limit, or any token already exchanged, burns   *)
(* the family.                                                             *)
AtLimit(r) ==
  LET o == family[req[r].fam]
  IN  Listens(r) /\ req[r].tok = o.current /\ o.generation >= MaximumGeneration

Reused(r) ==
  LET o == family[req[r].fam]
  IN  Listens(r) /\ req[r].tok # o.current /\ req[r].tok \in o.used

RefreshRotated(r) ==
  LET f == req[r].fam
  IN  /\ req[r].pc = "rotate" /\ Exchangeable(r)
      /\ family' = [family EXCEPT ![f].scope = req[r].scope, ![f].generation = @ + 1,
                                  ![f].lastRotatedAt = clock, ![f].current = minted[f],
                                  ![f].used = @ \cup {family[f].current}]
      /\ minted' = [minted EXCEPT ![f] = @ + 1]
      /\ req' = [req EXCEPT ![r].pc = "commit", ![r].new = minted[f],
                            ![r].gen = family[f].generation + 1]
      /\ UNCHANGED <<clock, user, sess, row, known, faults>>

(* Slip: a burned family is refused and its row forgotten.                 *)
RefreshBurnedUnmarked(r) ==
  /\ req[r].pc = "rotate" /\ (Reused(r) \/ AtLimit(r))
  /\ BurnFamily(req[r].fam)
  /\ Finish(r)
  /\ UNCHANGED <<clock, user, sess, row, minted, known, faults>>

(* The row of a burned family is marked by the next await.                 *)
RefreshBurned(r) ==
  /\ req[r].pc = "rotate"
  /\ \/ Reused(r) /\ Goto(r, "markReuse")
     \/ AtLimit(r) /\ Goto(r, "markLimit")
  /\ BurnFamily(req[r].fam)
  /\ UNCHANGED <<clock, user, sess, row, minted, known, faults>>

(* "invalid", "revoked", "expired" and "too_soon" change nothing.          *)
RefreshRefused(r) ==
  /\ req[r].pc = "rotate"
  /\ ~Exchangeable(r) /\ ~AtLimit(r) /\ ~Reused(r)
  /\ Finish(r)
  /\ UNCHANGED <<clock, user, sess, family, row, minted, known, faults>>

(* Slip: the UPDATE does not ask for revoked_at IS NULL.                   *)
RowsAfterCommitUnguarded(r) ==
  [row EXCEPT ![req[r].fam].hash = req[r].new, ![req[r].fam].scope = req[r].scope,
              ![req[r].fam].gen = req[r].gen]

(* UPDATE refresh_tokens ... WHERE id = ? AND revoked_at IS NULL.          *)
RowsAfterCommit(r) ==
  IF row[req[r].fam].st = "active"
  THEN [row EXCEPT ![req[r].fam].hash = req[r].new, ![req[r].fam].scope = req[r].scope,
                   ![req[r].fam].gen = req[r].gen]
  ELSE row

(* Slip: the number of changed rows is not looked at.                      *)
RefreshCommitUnchecked(r) ==
  /\ req[r].pc = "commit"
  /\ row' = RowsAfterCommit(r)
  /\ Goto(r, "respond")
  /\ UNCHANGED <<clock, user, sess, family, minted, known, faults>>

RefreshCommit(r) ==
  /\ req[r].pc = "commit"
  /\ row' = RowsAfterCommit(r)
  /\ Goto(r, IF row[req[r].fam].st = "active" THEN "respond" ELSE "burn")
  /\ UNCHANGED <<clock, user, sess, family, minted, known, faults>>

RefreshCommitError(r) ==
  /\ req[r].pc = "commit"
  /\ Fault
  /\ row' \in {row, RowsAfterCommit(r)}
  /\ Goto(r, "burn")
  /\ UNCHANGED <<clock, user, sess, family, minted, known>>

(* issueRotatedTokens re-reads the user before it answers.                 *)
RefreshRespond(r) ==
  /\ req[r].pc = "respond"
  /\ known' = IF user[req[r].user] = "enabled"
              THEN [known EXCEPT ![req[r].fam] = @ \cup {req[r].new}]
              ELSE known
  /\ Finish(r)
  /\ UNCHANGED <<clock, user, sess, family, row, minted, faults>>

(* The DO.revoke of the failure paths of issue and of rotation.            *)
Burn(r) ==
  /\ req[r].pc = "burn"
  /\ BurnFamily(req[r].fam)
  /\ Finish(r)
  /\ UNCHANGED <<clock, user, sess, row, minted, known, faults>>

(* After a reuse the row is marked whether or not it already was; at the   *)
(* generation limit, and in handleRevoke, only while it is active.         *)
MarkRow(r) ==
  LET f == req[r].fam
  IN  /\ req[r].pc \in {"markReuse", "markLimit", "markRevoked"}
      /\ row' = IF row[f].st = "active" \/ (row[f].st = "revoked" /\ req[r].pc = "markReuse")
                THEN RevokeRows({f}, clock) ELSE row
      /\ Finish(r)
      /\ UNCHANGED <<clock, user, sess, family, minted, known, faults>>

-----------------------------------------------------------------------------
(* handleRevoke (RFC 7009): the object first, then the row.  Any token     *)
(* value with the prefix of the family finds the row.                      *)

RevokeTokenLookup(r, f, c) ==
  /\ req[r].pc = "idle"
  /\ row[f].st \in {"active", "revoked"} /\ row[f].client = c
  /\ req' = [req EXCEPT ![r] = [NoRequest EXCEPT !.pc = "revokeObject", !.fam = f]]
  /\ UNCHANGED <<clock, user, sess, family, row, minted, known, faults>>

RevokeTokenObject(r) ==
  /\ req[r].pc = "revokeObject"
  /\ BurnFamily(req[r].fam)
  /\ Goto(r, "markRevoked")
  /\ UNCHANGED <<clock, user, sess, row, minted, known, faults>>

-----------------------------------------------------------------------------
(* Revocations that commit in D1 first, in one batch, and then mirror the  *)
(* families the batch returned into their objects.                         *)

(* revokeSessionById and revokeSessionByToken. *)
RevokeSession(r, s) ==
  LET F == {f \in ActiveRows : row[f].session = s}
  IN  /\ req[r].pc = "idle" /\ sess[s].st \in {"live", "revoked"}
      /\ sess' = RevokeSessions({s})
      /\ row' = RevokeRows(F, clock)
      /\ StartMirror(r, F)
      /\ UNCHANGED <<clock, user, family, minted, known, faults>>

(* revokeAllUserSessions, and the same two statements in updateUserEmail,  *)
(* setUserPasswordAtSecurityVersion and the promotion of an administrator. *)
RevokeAllUserSessions(r, u) ==
  /\ req[r].pc = "idle" /\ user[u] # "deleted"
  /\ sess' = RevokeSessions(SessionsOf(u))
  /\ row' = RevokeRows(FamiliesOf(u), clock)
  /\ StartMirror(r, FamiliesOf(u))
  /\ UNCHANGED <<clock, user, family, minted, known, faults>>

(* updateUser: the flip of `disabled` and both revocations are one batch.  *)
SetDisabled(r, u) ==
  /\ req[r].pc = "idle" /\ user[u] # "deleted"
  /\ user' = [user EXCEPT ![u] = IF @ = "enabled" THEN "disabled" ELSE "enabled"]
  /\ sess' = RevokeSessions(SessionsOf(u))
  /\ row' = RevokeRows(FamiliesOf(u), clock)
  /\ StartMirror(r, FamiliesOf(u))
  /\ UNCHANGED <<clock, family, minted, known, faults>>

RevokeOtherUserSessions(r, keep) ==
  LET u == sess[keep].user
      F == {f \in FamiliesOf(u) : row[f].session # keep}
  IN  /\ req[r].pc = "idle" /\ sess[keep].st # "none"
      /\ sess' = RevokeSessions(SessionsOf(u) \ {keep})
      /\ row' = RevokeRows(F, clock)
      /\ StartMirror(r, F)
      /\ UNCHANGED <<clock, user, family, minted, known, faults>>

(* revokeRefreshFamiliesByUserClient, the app revocation of the account page. *)
RevokeApp(r, u, c) ==
  LET F == {f \in FamiliesOf(u) : row[f].client = c}
  IN  /\ req[r].pc = "idle" /\ F # {}
      /\ row' = RevokeRows(F, clock)
      /\ StartMirror(r, F)
      /\ UNCHANGED <<clock, user, sess, family, minted, known, faults>>

(* revokeDeviceRefreshFamily. *)
RevokeDevice(r, f) ==
  /\ req[r].pc = "idle"
  /\ row[f].st = "active" /\ row[f].session = NoSession
  /\ row' = RevokeRows({f}, clock)
  /\ StartMirror(r, {f})
  /\ UNCHANGED <<clock, user, sess, family, minted, known, faults>>

(* deleteResource and a changed metadata document revoke the rows of a     *)
(* resource or of a client and leave the objects alone.                    *)
RevokeRowsOnly(F) ==
  /\ F # {} /\ F \subseteq ActiveRows
  /\ row' = RevokeRows(F, clock)
  /\ UNCHANGED <<clock, user, sess, family, minted, known, req, faults>>

(* revokeRefreshFamilyDurableObjects: every id is tried, a failed one is   *)
(* tried once more, and a second failure is only logged.                   *)
MirrorRevoke(r, g) ==
  /\ req[r].pc \in {"mirror", "issueMirror"} /\ g \in req[r].pending
  /\ BurnFamily(g)
  /\ IF req[r].pc = "mirror" /\ req[r].pending = {g} THEN Finish(r)
     ELSE req' = [req EXCEPT ![r].pending = @ \ {g}]
  /\ UNCHANGED <<clock, user, sess, row, minted, known, faults>>

MirrorFail(r, g) ==
  /\ req[r].pc \in {"mirror", "issueMirror"} /\ g \in req[r].pending
  /\ Fault
  /\ IF req[r].pc = "mirror" /\ req[r].pending = {g} THEN Finish(r)
     ELSE req' = [req EXCEPT ![r].pending = @ \ {g}]
  /\ UNCHANGED <<clock, user, sess, family, row, minted, known>>

-----------------------------------------------------------------------------
(* The Worker dies, or a call to an object throws, at any await.           *)
Crash(r) ==
  /\ req[r].pc # "idle"
  /\ Fault
  /\ Finish(r)
  /\ UNCHANGED <<clock, user, sess, family, row, minted, known>>

-----------------------------------------------------------------------------
(* Sessions, users, time and maintenance.                                  *)

(* createSession and createSessionAtSecurityVersion. *)
CreateSession(s, u) ==
  /\ sess[s].st = "none" /\ user[u] = "enabled"
  /\ sess' = [sess EXCEPT ![s] = [st |-> "live", user |-> u,
                                  expiresAt |-> clock + SessionTtl, revokedAt |-> 0]]
  /\ UNCHANGED <<clock, user, family, row, minted, known, req, faults>>

(* deleteUserPreservingActiveAdmin; sessions and rows go by ON DELETE      *)
(* CASCADE, and no object is told.                                         *)
DeleteUser(u) ==
  /\ user[u] # "deleted"
  /\ user' = [user EXCEPT ![u] = "deleted"]
  /\ sess' = [s \in Sessions |-> IF sess[s].st # "none" /\ sess[s].user = u
                                 THEN [sess[s] EXCEPT !.st = "deleted"] ELSE sess[s]]
  /\ row' = [f \in Families |-> IF row[f].st # "absent" /\ row[f].user = u
                                THEN [row[f] EXCEPT !.st = "deleted"] ELSE row[f]]
  /\ UNCHANGED <<clock, family, minted, known, req, faults>>

Tick ==
  /\ clock < MaxClock
  /\ clock' = clock + 1
  /\ UNCHANGED <<user, sess, family, row, minted, known, req, faults>>

(* RefreshTokenFamilyDO.alarm. *)
Alarm(f) ==
  /\ family[f].st # "empty" /\ clock >= family[f].expiresAt + AlarmDelay
  /\ family' = [family EXCEPT ![f].st = "empty"]
  /\ UNCHANGED <<clock, user, sess, row, minted, known, req, faults>>

(* cleanupTerminalRows: rows that ended more than Retention ago.           *)
Terminal(st, expiresAt, revokedAt) ==
  \/ st \in {"live", "active", "revoked"} /\ expiresAt < clock - Retention
  \/ st = "revoked" /\ revokedAt < clock - Retention

CleanupRow(f) ==
  /\ Terminal(row[f].st, row[f].expiresAt, row[f].revokedAt)
  /\ row' = [row EXCEPT ![f].st = "deleted"]
  /\ UNCHANGED <<clock, user, sess, family, minted, known, req, faults>>

(* Deleting a session row sets refresh_tokens.session_id to NULL.          *)
CleanupSession(s) ==
  /\ Terminal(sess[s].st, sess[s].expiresAt, sess[s].revokedAt)
  /\ sess' = [sess EXCEPT ![s].st = "deleted"]
  /\ row' = [f \in Families |-> IF row[f].session = s
                                THEN [row[f] EXCEPT !.session = NoSession] ELSE row[f]]
  /\ UNCHANGED <<clock, user, family, minted, known, req, faults>>

-----------------------------------------------------------------------------
(* What a running request does next, faults aside.                         *)
Continue(r) ==
  \/ IssueInsert(r) \/ IssueRespond(r)
  \/ RefreshPolicy(r) \/ RefreshRotated(r) \/ RefreshBurned(r) \/ RefreshRefused(r)
  \/ RefreshCommit(r) \/ RefreshRespond(r) \/ Burn(r) \/ MarkRow(r)
  \/ RevokeTokenObject(r)
  \/ \E g \in Families : MirrorRevoke(r, g)

(* What a request to the server starts.                                    *)
Start(r) ==
  \/ \E f \in Families, u \in Users, c \in Clients, s \in SessionIds,
        sc \in SUBSET Scopes \ {{}} : IssueInit(r, f, u, c, s, sc)
  \/ \E f \in Families, c \in Clients :
        \/ RevokeTokenLookup(r, f, c)
        \/ \E t \in Presentable(f), sc \in SUBSET Scopes : RefreshLookup(r, f, t, c, sc)
  \/ \E s \in Sessions : RevokeSession(r, s) \/ RevokeOtherUserSessions(r, s)
  \/ \E u \in Users : RevokeAllUserSessions(r, u) \/ SetDisabled(r, u)
  \/ \E u \in Users, c \in Clients : RevokeApp(r, u, c)
  \/ \E f \in Families : RevokeDevice(r, f)

(* What goes wrong.                                                        *)
Fail(r) ==
  \/ IssueInsertError(r) \/ RefreshCommitError(r) \/ Crash(r)
  \/ \E g \in Families : MirrorFail(r, g)

(* What happens without a request.                                         *)
Environment ==
  \/ \E F \in SUBSET Families : RevokeRowsOnly(F)
  \/ \E s \in Sessions, u \in Users : CreateSession(s, u)
  \/ \E u \in Users : DeleteUser(u)
  \/ Tick
  \/ \E f \in Families : Alarm(f) \/ CleanupRow(f)
  \/ \E s \in Sessions : CleanupSession(s)

Next == (\E r \in Requests : Start(r) \/ Continue(r) \/ Fail(r)) \/ Environment

Spec == Init /\ [][Next]_vars

(* A Worker invocation that is not killed runs to its end.                 *)
FairSpec == Spec /\ \A r \in Requests : WF_vars(Continue(r))

-----------------------------------------------------------------------------
(* Properties.                                                             *)

TypeOK ==
  /\ clock \in Nat
  /\ user \in [Users -> {"enabled", "disabled", "deleted"}]
  /\ sess \in [Sessions -> SessionRecords]
  /\ family \in [Families -> FamilyRecords]
  /\ row \in [Families -> RowRecords]
  /\ minted \in [Families -> Nat]
  /\ known \in [Families -> SUBSET Nat]
  /\ req \in [Requests -> RequestRecords]
  /\ \A r \in Requests : req[r].pc \in Carrying => req[r].new \in Nat
  /\ faults \in Nat

(* A family that D1 calls active belongs to an enabled user and, when it   *)
(* came from a browser session, to a session of that user that nobody has  *)
(* revoked: logout, disabling a user and deleting one race with issuance   *)
(* and rotation, and the guards of the batches must always win.            *)
OwnedBySomeoneActive ==
  \A f \in ActiveRows :
    /\ user[row[f].user] = "enabled"
    /\ row[f].session # NoSession =>
         /\ sess[row[f].session].st = "live"
         /\ sess[row[f].session].user = row[f].user

(* The token the object would exchange, once any client holds it, is the   *)
(* one the D1 row mirrors, with the scope and the generation of the        *)
(* object: no crash, error or interleaving of rotations separates the two  *)
(* stores in a way a client can see.                                       *)
MirrorAgrees ==
  \A f \in Families :
    family[f].current \in known[f] =>
      /\ row[f].st # "absent"
      /\ row[f].hash = family[f].current
      /\ row[f].scope = family[f].scope
      /\ row[f].gen = family[f].generation

(* The inductive strengthening of MirrorAgrees, in three parts.  First:    *)
(* tokens are stored before anyone holds them, and a family has no holder  *)
(* before it has a row.                                                    *)
TokensAreMinted ==
  \A f \in Families :
    /\ \A t \in known[f] \cup family[f].used : t < minted[f]
    /\ minted[f] > 0 => family[f].current < minted[f]
    /\ minted[f] = 0 => row[f].st = "absent"
    /\ row[f].st = "absent" => known[f] = {} /\ row[f].hash = 0

(* Second: a request on its way to the object was checked against scopes   *)
(* that are still the object's if its token is.                            *)
SnapshotHolds(r) ==
  LET f == req[r].fam
  IN  req[r].pc \in {"policy", "rotate"} =>
        /\ row[f].st # "absent"
        /\ req[r].tok \in Presentable(f)
        /\ req[r].tok = family[f].current => req[r].scope \subseteq family[f].scope

(* Third: a request that carries a new token is the only one of its        *)
(* family, carries the object's current token, which nobody holds, and     *)
(* finds the row either still at the presented token or at the new one.    *)
CarrierHolds(r) ==
  LET f == req[r].fam
  IN  req[r].pc \in Carrying =>
        /\ minted[f] > 0
        /\ req[r].new = family[f].current /\ req[r].new \notin known[f]
        /\ \A q \in Requests : q # r /\ req[q].fam = f => req[q].pc \notin Carrying
        /\ req[r].pc = "insert" =>
             /\ row[f].st = "absent" /\ req[r].new = 0
             /\ family[f].scope = req[r].scope /\ family[f].generation = 0
        /\ req[r].pc = "commit" =>
             /\ row[f].st # "absent" /\ row[f].hash = req[r].tok /\ req[r].tok \in known[f]
             /\ family[f].scope = req[r].scope /\ req[r].scope \subseteq row[f].scope
             /\ family[f].generation = req[r].gen /\ req[r].gen >= row[f].gen
        /\ req[r].pc \in {"issueMirror", "respond"} =>
             /\ row[f].st # "absent" /\ row[f].hash = req[r].new
             /\ row[f].scope = family[f].scope /\ row[f].gen = family[f].generation

(* Whatever the interleaving of rotations, issuances, revocations and      *)
(* faults, at most one successor of a family's newest token is under way,  *)
(* and it reaches D1 before it reaches a client.                           *)
RotationInv ==
  /\ MirrorAgrees
  /\ TokensAreMinted
  /\ \A r \in Requests : SnapshotHolds(r) /\ CarrierHolds(r)

(* A user and client never have more live families than the cap, whatever  *)
(* the order of concurrent issuances.                                      *)
FamilyCap ==
  \A u \in Users, c \in Clients :
    Cardinality({f \in ActiveRows : /\ row[f].user = u /\ row[f].client = c
                                    /\ row[f].expiresAt > clock})
      <= MaximumActiveFamilies

(* Once issued, the mirrored authorization of a family never gains a scope *)
(* and never goes back to an earlier generation, although a request checks *)
(* the requested scope against a row it read several awaits earlier.       *)
MirrorOnlyNarrows ==
  [][\A f \in Families :
       row[f].st # "absent" => row'[f].scope \subseteq row[f].scope /\ row'[f].gen >= row[f].gen]_vars

(* What the holder of the tokens sees is a linear chain (RefreshFamilySpec). *)
Chain == INSTANCE RefreshFamilySpec WITH
  phase  <- [f \in Families |-> IF row[f].st = "absent" THEN "none"
                               ELSE IF row[f].st = "active" THEN "open" ELSE "closed"],
  tip    <- [f \in Families |-> row[f].hash],
  handed <- known

(* The detailed specification implements the chain: no fork, no token that *)
(* comes back to life, no family that reopens.                             *)
ImplementsChain == Chain!Spec

(* A family burned in its object (reuse, generation limit, RFC 7009) does  *)
(* not stay active in D1, unless a fault cut the request short.            *)
BurnReachesMirror ==
  \A f \in Families :
    (family[f].st = "revoked" /\ row[f].st = "active")
      ~> (row[f].st # "active" \/ faults > 0)

(* A family whose revocation D1 has returned for mirroring stops listening *)
(* in its object too, unless a fault cut the request short.                *)
RevocationReachesObject ==
  \A f \in Families :
    (\E r \in Requests : f \in req[r].pending) ~> (family[f].st # "live" \/ faults > 0)
=============================================================================
