------------------------ MODULE RefreshTokensProofs ------------------------
(***************************************************************************)
(* Proofs about RefreshTokens for every number of families, users, clients, *)
(* sessions and concurrent requests, and every bound.                       *)
(***************************************************************************)
EXTENDS RefreshTokens, FiniteSetTheorems, TLAPS

-----------------------------------------------------------------------------
(* What the shared pieces of the handlers return.                          *)

(* A finished request is a well-formed record of locals.                   *)
LEMMA NoRequestType == NoRequest \in RequestRecords
<1>1. AnyOf(Families) \in Families /\ AnyOf(Users) \in Users /\ AnyOf(Clients) \in Clients
  BY ConstantsAssumption DEF AnyOf
<1> QED BY <1>1 DEF NoRequest, RequestRecords, Pcs, Forged, SessionIds

(* A step that leaves the stores of a request's family alone, and gives no  *)
(* other request a token of it, does not disturb what the request carries.  *)
LEMMA CarrierFramed ==
  ASSUME NEW q \in Requests, CarrierHolds(q), req'[q] = req[q],
         LET g == req[q].fam IN
           /\ family'[g] = family[g] /\ minted'[g] = minted[g] /\ known'[g] = known[g]
           /\ row'[g].hash = row[g].hash /\ row'[g].scope = row[g].scope /\ row'[g].gen = row[g].gen
           /\ row'[g].st = "absent" <=> row[g].st = "absent",
         req[q].pc \in Carrying =>
           \A p \in Requests : p # q /\ req'[p].fam = req[q].fam => req'[p].pc \notin Carrying
  PROVE  CarrierHolds(q)'
BY DEF CarrierHolds

(* DO.revoke keeps the object well formed.                                 *)
LEMMA BurnedType ==
  ASSUME TypeOK, NEW f \in Families
  PROVE  Burned(f) \in FamilyRecords
<1>1. family[f] \in FamilyRecords
  BY DEF TypeOK
<1> QED BY <1>1 DEF Burned, FamilyRecords

(* The bulk UPDATE of revoked_at keeps the table well formed.              *)
LEMMA RevokeRowsType ==
  ASSUME TypeOK, NEW F, NEW at \in Nat
  PROVE  RevokeRows(F, at) \in [Families -> RowRecords]
<1> SUFFICES ASSUME NEW f \in Families
             PROVE  [row[f] EXCEPT !.st = "revoked", !.revokedAt = at] \in RowRecords
  BY DEF TypeOK, RevokeRows
<1>1. row[f] \in RowRecords
  BY DEF TypeOK
<1> QED BY <1>1 DEF RowRecords

LEMMA RevokeSessionsType ==
  ASSUME TypeOK, NEW S
  PROVE  RevokeSessions(S) \in [Sessions -> SessionRecords]
BY DEF TypeOK, RevokeSessions, SessionRecords

(* The issuing batch keeps the table well formed.                          *)
LEMMA RowsAfterInsertType ==
  ASSUME TypeOK, NEW r \in Requests, req[r].pc = "insert"
  PROVE  RowsAfterInsert(r) \in [Families -> RowRecords]
<1>1. RevokeRows(Pruned(r), req[r].now) \in [Families -> RowRecords]
  BY RevokeRowsType DEF TypeOK, RequestRecords
<1>2. req[r].new \in Nat
  BY DEF TypeOK, Carrying
<1>3. [st |-> "active", hash |-> req[r].new, gen |-> 0, scope |-> req[r].scope,
       user |-> req[r].user, client |-> req[r].client, session |-> req[r].session,
       createdAt |-> req[r].now, expiresAt |-> req[r].now + RefreshTtl, revokedAt |-> 0]
        \in RowRecords
  BY <1>2, ConstantsAssumption DEF TypeOK, RequestRecords, RowRecords
<1> QED BY <1>1, <1>3 DEF RowsAfterInsert

(* So does the UPDATE that commits a rotation.                             *)
LEMMA RowsAfterCommitType ==
  ASSUME TypeOK, NEW r \in Requests, req[r].pc = "commit"
  PROVE  RowsAfterCommit(r) \in [Families -> RowRecords]
<1> DEFINE f == req[r].fam
<1>1. /\ f \in Families /\ row[f] \in RowRecords
      /\ req[r].new \in Nat /\ req[r].scope \in SUBSET Scopes /\ req[r].gen \in Nat
  BY DEF TypeOK, Carrying, RequestRecords
<1>2. [row[f] EXCEPT !.hash = req[r].new, !.scope = req[r].scope, !.gen = req[r].gen]
        \in RowRecords
  BY <1>1 DEF RowRecords
<1>3. [row EXCEPT ![f] = [row[f] EXCEPT !.hash = req[r].new, !.scope = req[r].scope,
                                       !.gen = req[r].gen]] \in [Families -> RowRecords]
  BY <1>1, <1>2 DEF TypeOK
<1> QED BY <1>1, <1>3 DEF RowsAfterCommit, TypeOK

(* The part of TypeOK that is about requests.                              *)
ReqTyped ==
  /\ req \in [Requests -> RequestRecords]
  /\ \A r \in Requests : req[r].pc \in Carrying => req[r].new \in Nat

(* A request that is given a well-formed record leaves all well formed.    *)
LEMMA ReqUpdateType ==
  ASSUME TypeOK, NEW r \in Requests, NEW rec \in RequestRecords,
         rec.pc \in Carrying => rec.new \in Nat,
         req' = [req EXCEPT ![r] = rec]
  PROVE  ReqTyped'
BY DEF TypeOK, ReqTyped

LEMMA FinishType ==
  ASSUME TypeOK, NEW r \in Requests, Finish(r)
  PROVE  ReqTyped'
<1>1. NoRequest.pc \notin Carrying
  BY DEF NoRequest, Carrying
<1> QED BY <1>1, NoRequestType, ReqUpdateType DEF Finish

LEMMA GotoType ==
  ASSUME TypeOK, NEW r \in Requests, NEW pc \in Pcs, Goto(r, pc),
         pc \in Carrying => req[r].pc \in Carrying
  PROVE  ReqTyped'
<1> DEFINE rec == [req[r] EXCEPT !.pc = pc]
<1>1. rec \in RequestRecords /\ rec.pc = pc /\ rec.new = req[r].new
  BY DEF TypeOK, RequestRecords
<1>2. req' = [req EXCEPT ![r] = rec]
  BY DEF Goto
<1>3. rec.pc \in Carrying => rec.new \in Nat
  BY <1>1 DEF TypeOK
<1> HIDE DEF rec
<1> QED BY <1>1, <1>2, <1>3, ReqUpdateType

LEMMA StartMirrorType ==
  ASSUME TypeOK, NEW r \in Requests, NEW F \in SUBSET Families, StartMirror(r, F)
  PROVE  ReqTyped'
<1> DEFINE rec == IF F = {} THEN NoRequest
                  ELSE [NoRequest EXCEPT !.pc = "mirror", !.pending = F]
<1>1. rec \in RequestRecords
  BY NoRequestType DEF RequestRecords, Pcs
<1>2. rec.pc \notin Carrying
  BY NoRequestType DEF RequestRecords, Carrying, NoRequest
<1>3. req' = [req EXCEPT ![r] = rec]
  BY DEF StartMirror
<1> HIDE DEF rec
<1> QED BY <1>1, <1>2, <1>3, ReqUpdateType

(* Dropping an id from the set a request still has to mirror.              *)
LEMMA DropPendingType ==
  ASSUME TypeOK, NEW r \in Requests, NEW g \in Families,
         \/ Finish(r)
         \/ req' = [req EXCEPT ![r].pending = @ \ {g}]
  PROVE  ReqTyped'
<1> DEFINE rec == [req[r] EXCEPT !.pending = @ \ {g}]
<1>1. rec \in RequestRecords /\ rec.pc = req[r].pc /\ rec.new = req[r].new
  BY DEF TypeOK, RequestRecords
<1>2. rec.pc \in Carrying => rec.new \in Nat
  BY <1>1 DEF TypeOK
<1>3. CASE Finish(r)
  BY <1>3, FinishType
<1>4. CASE req' = [req EXCEPT ![r].pending = @ \ {g}]
  <2>1. req' = [req EXCEPT ![r] = rec]
    BY <1>4
  <2> HIDE DEF rec
  <2> QED BY <2>1, <1>1, <1>2, ReqUpdateType
<1> QED BY <1>3, <1>4

-----------------------------------------------------------------------------
(* Type correctness.                                                       *)

LEMMA IssueStepType ==
  ASSUME TypeOK, NEW r \in Requests,
         \/ \E f \in Families, u \in Users, c \in Clients, s \in SessionIds,
               sc \in SUBSET Scopes : IssueInit(r, f, u, c, s, sc)
         \/ IssueInsert(r) \/ IssueInsertError(r) \/ IssueRespond(r)
  PROVE  TypeOK'
<1>1. ASSUME NEW f \in Families, NEW u \in Users, NEW c \in Clients, NEW s \in SessionIds,
             NEW sc \in SUBSET Scopes, IssueInit(r, f, u, c, s, sc)
      PROVE  TypeOK'
  <2> DEFINE rec == [NoRequest EXCEPT !.pc = "insert", !.fam = f, !.new = 0, !.scope = sc,
                         !.user = u, !.client = c, !.session = s, !.now = clock]
             obj == [st |-> "live", client |-> c, scope |-> sc, generation |-> 0,
                     current |-> 0, used |-> {}, lastRotatedAt |-> clock,
                     expiresAt |-> clock + RefreshTtl]
  <2>1. rec \in RequestRecords /\ rec.new = 0
    BY NoRequestType DEF TypeOK, RequestRecords, Pcs
  <2>2. obj \in FamilyRecords
    BY ConstantsAssumption DEF TypeOK, FamilyRecords
  <2>3. /\ req' = [req EXCEPT ![r] = rec]
        /\ family' = [family EXCEPT ![f] = obj]
        /\ minted' = [minted EXCEPT ![f] = 1]
        /\ UNCHANGED <<clock, user, sess, row, known, faults>>
    BY <1>1 DEF IssueInit
  <2> HIDE DEF rec, obj
  <2>4. ReqTyped'
    BY <2>1, <2>3, ReqUpdateType, 0 \in Nat
  <2>5. family' \in [Families -> FamilyRecords] /\ minted' \in [Families -> Nat]
    BY <2>2, <2>3 DEF TypeOK
  <2> QED BY <2>3, <2>4, <2>5 DEF TypeOK, ReqTyped
<1>2. ASSUME IssueInsert(r) PROVE TypeOK'
  <2>1. CASE InsertAllowed(r)
    <3> DEFINE rec == [req[r] EXCEPT !.pc = "issueMirror", !.pending = Pruned(r)]
    <3>1. Pruned(r) \in SUBSET Families
      BY DEF Pruned, PruneCandidates, ActiveRows
    <3>2. rec \in RequestRecords /\ rec.new = req[r].new
      <4>1. req[r] \in RequestRecords
        BY DEF TypeOK
      <4> QED BY <3>1, <4>1 DEF RequestRecords, Pcs
    <3>3. rec.new \in Nat
      BY <3>2, <1>2 DEF IssueInsert, TypeOK, Carrying
    <3>4. req' = [req EXCEPT ![r] = rec]
      BY <1>2, <2>1 DEF IssueInsert
    <3> HIDE DEF rec
    <3>5. ReqTyped'
      BY <3>2, <3>3, <3>4, ReqUpdateType
    <3>6. row' \in [Families -> RowRecords]
      BY <1>2, <2>1, RowsAfterInsertType DEF IssueInsert
    <3> QED BY <1>2, <3>5, <3>6 DEF IssueInsert, TypeOK, ReqTyped
  <2>2. CASE ~InsertAllowed(r)
    <3>1. ReqTyped'
      BY <1>2, <2>2, GotoType DEF IssueInsert, Pcs, Carrying
    <3> QED BY <1>2, <2>2, <3>1 DEF IssueInsert, TypeOK, ReqTyped
  <2> QED BY <2>1, <2>2
<1>3. ASSUME IssueInsertError(r) PROVE TypeOK'
  <2>1. ReqTyped'
    BY <1>3, GotoType DEF IssueInsertError, Pcs, Carrying
  <2>2. row' \in [Families -> RowRecords]
    BY <1>3, RowsAfterInsertType DEF IssueInsertError, TypeOK
  <2> QED BY <1>3, <2>1, <2>2 DEF IssueInsertError, TypeOK, ReqTyped, Fault
<1>4. ASSUME IssueRespond(r) PROVE TypeOK'
  <2>1. ReqTyped'
    BY <1>4, FinishType DEF IssueRespond
  <2>2. req[r].fam \in Families /\ req[r].new \in Nat
    BY <1>4 DEF IssueRespond, TypeOK, RequestRecords, Carrying
  <2>3. known' \in [Families -> SUBSET Nat]
    BY <1>4, <2>2 DEF IssueRespond, TypeOK
  <2> QED BY <1>4, <2>1, <2>3 DEF IssueRespond, TypeOK, ReqTyped
<1> QED BY <1>1, <1>2, <1>3, <1>4

LEMMA RefreshStepType ==
  ASSUME TypeOK, NEW r \in Requests,
         \/ \E f \in Families, c \in Clients :
               \E t \in Presentable(f), sc \in SUBSET Scopes : RefreshLookup(r, f, t, c, sc)
         \/ RefreshPolicy(r) \/ RefreshRotated(r) \/ RefreshBurned(r) \/ RefreshRefused(r)
         \/ RefreshCommit(r) \/ RefreshCommitError(r) \/ RefreshRespond(r)
         \/ Burn(r) \/ MarkRow(r)
  PROVE  TypeOK'
<1> DEFINE f == req[r].fam
<1>0. /\ f \in Families /\ family[f] \in FamilyRecords /\ minted[f] \in Nat
      /\ req[r] \in RequestRecords /\ clock \in Nat /\ family[f].generation + 1 \in Nat
  BY DEF TypeOK, RequestRecords, FamilyRecords
<1>1. ASSUME NEW g \in Families, NEW c \in Clients, NEW t \in Presentable(g),
             NEW sc \in SUBSET Scopes, RefreshLookup(r, g, t, c, sc)
      PROVE  TypeOK'
  <2> DEFINE rec == [NoRequest EXCEPT !.pc = "policy", !.fam = g, !.tok = t, !.scope = sc,
                         !.client = c, !.user = row[g].user, !.session = row[g].session]
  <2>1. t \in Nat \cup {Forged} /\ row[g].user \in Users /\ row[g].session \in SessionIds
    BY DEF TypeOK, Presentable, RowRecords
  <2>2. rec \in RequestRecords /\ rec.pc = "policy"
    BY <2>1, NoRequestType DEF RequestRecords, Pcs
  <2>3. req' = [req EXCEPT ![r] = rec] /\ "policy" \notin Carrying
    BY <1>1 DEF RefreshLookup, Carrying
  <2> HIDE DEF rec
  <2>4. ReqTyped'
    BY <2>2, <2>3, ReqUpdateType
  <2> QED BY <1>1, <2>4 DEF RefreshLookup, TypeOK, ReqTyped
<1>2. ASSUME RefreshPolicy(r) PROVE TypeOK'
  <2>1. ReqTyped'
    BY <1>2, FinishType, GotoType DEF RefreshPolicy, Pcs, Carrying
  <2> QED BY <1>2, <2>1 DEF RefreshPolicy, TypeOK, ReqTyped
<1>3. ASSUME RefreshRotated(r) PROVE TypeOK'
  <2> DEFINE rec == [req[r] EXCEPT !.pc = "commit", !.new = minted[f],
                                   !.gen = family[f].generation + 1]
             obj == [family[f] EXCEPT !.scope = req[r].scope,
                       !.generation = family[f].generation + 1, !.lastRotatedAt = clock,
                       !.current = minted[f], !.used = family[f].used \cup {family[f].current}]
  <2>1. rec \in RequestRecords /\ rec.new = minted[f]
    <3>1. \A q \in RequestRecords, n \in Nat, g \in Nat :
            [q EXCEPT !.pc = "commit", !.new = n, !.gen = g] \in RequestRecords
      BY DEF RequestRecords, Pcs
    <3>2. rec \in RequestRecords
      BY <1>0, <3>1
    <3> QED BY <1>0, <3>2 DEF RequestRecords
  <2>2. obj \in FamilyRecords
    <3>1. \A o \in FamilyRecords, sc \in SUBSET Scopes, g \in Nat, at \in Nat, n \in Nat :
            [o EXCEPT !.scope = sc, !.generation = g, !.lastRotatedAt = at, !.current = n,
                      !.used = o.used \cup {o.current}] \in FamilyRecords
      BY DEF FamilyRecords
    <3>2. req[r].scope \in SUBSET Scopes
      BY <1>0 DEF RequestRecords
    <3> QED BY <1>0, <3>1, <3>2
  <2>3. /\ req' = [req EXCEPT ![r] = rec]
        /\ family' = [family EXCEPT ![f] = obj]
        /\ minted' = [minted EXCEPT ![f] = minted[f] + 1]
        /\ UNCHANGED <<clock, user, sess, row, known, faults>>
    BY <1>3, <1>0 DEF RefreshRotated, TypeOK
  <2> HIDE DEF rec, obj
  <2>4. ReqTyped'
    BY <1>0, <2>1, <2>3, ReqUpdateType
  <2>5. family' \in [Families -> FamilyRecords] /\ minted' \in [Families -> Nat]
    BY <1>0, <2>2, <2>3 DEF TypeOK
  <2> QED BY <2>3, <2>4, <2>5 DEF TypeOK, ReqTyped
<1>4. ASSUME RefreshBurned(r) PROVE TypeOK'
  <2>1. ReqTyped'
    BY <1>4, GotoType DEF RefreshBurned, Pcs, Carrying
  <2>2. family' \in [Families -> FamilyRecords]
    BY <1>0, <1>4, BurnedType DEF RefreshBurned, BurnFamily, TypeOK
  <2> QED BY <1>4, <2>1, <2>2 DEF RefreshBurned, TypeOK, ReqTyped
<1>5. ASSUME RefreshRefused(r) PROVE TypeOK'
  <2>1. ReqTyped'
    BY <1>5, FinishType DEF RefreshRefused
  <2> QED BY <1>5, <2>1 DEF RefreshRefused, TypeOK, ReqTyped
<1>6. ASSUME RefreshCommit(r) PROVE TypeOK'
  <2>1. ReqTyped'
    BY <1>6, GotoType DEF RefreshCommit, Pcs, Carrying
  <2>2. row' \in [Families -> RowRecords]
    BY <1>6, RowsAfterCommitType DEF RefreshCommit
  <2> QED BY <1>6, <2>1, <2>2 DEF RefreshCommit, TypeOK, ReqTyped
<1>7. ASSUME RefreshCommitError(r) PROVE TypeOK'
  <2>1. ReqTyped'
    BY <1>7, GotoType DEF RefreshCommitError, Pcs, Carrying
  <2>2. row' \in [Families -> RowRecords]
    BY <1>7, RowsAfterCommitType DEF RefreshCommitError, TypeOK
  <2> QED BY <1>7, <2>1, <2>2 DEF RefreshCommitError, TypeOK, ReqTyped, Fault
<1>8. ASSUME RefreshRespond(r) PROVE TypeOK'
  <2>1. ReqTyped'
    BY <1>8, FinishType DEF RefreshRespond
  <2>2. req[r].new \in Nat
    BY <1>8 DEF RefreshRespond, TypeOK, Carrying
  <2>3. known' \in [Families -> SUBSET Nat]
    BY <1>0, <1>8, <2>2 DEF RefreshRespond, TypeOK
  <2> QED BY <1>8, <2>1, <2>3 DEF RefreshRespond, TypeOK, ReqTyped
<1>9. ASSUME Burn(r) PROVE TypeOK'
  <2>1. ReqTyped'
    BY <1>9, FinishType DEF Burn
  <2>2. family' \in [Families -> FamilyRecords]
    BY <1>0, <1>9, BurnedType DEF Burn, BurnFamily, TypeOK
  <2> QED BY <1>9, <2>1, <2>2 DEF Burn, TypeOK, ReqTyped
<1>10. ASSUME MarkRow(r) PROVE TypeOK'
  <2>1. ReqTyped'
    BY <1>10, FinishType DEF MarkRow
  <2>2. row' \in [Families -> RowRecords]
    BY <1>0, <1>10, RevokeRowsType DEF MarkRow, TypeOK
  <2> QED BY <1>10, <2>1, <2>2 DEF MarkRow, TypeOK, ReqTyped
<1> QED BY <1>1, <1>2, <1>3, <1>4, <1>5, <1>6, <1>7, <1>8, <1>9, <1>10

(* The rows and sessions a revocation selects.                             *)
LEMMA SelectionType ==
  ASSUME NEW u
  PROVE  FamiliesOf(u) \in SUBSET Families /\ SessionsOf(u) \in SUBSET Sessions
BY DEF FamiliesOf, SessionsOf, ActiveRows

LEMMA RevocationStepType ==
  ASSUME TypeOK, NEW r \in Requests,
         \/ \E f \in Families, c \in Clients : RevokeTokenLookup(r, f, c)
         \/ RevokeTokenObject(r)
         \/ \E s \in Sessions : RevokeSession(r, s) \/ RevokeOtherUserSessions(r, s)
         \/ \E u \in Users : RevokeAllUserSessions(r, u) \/ SetDisabled(r, u)
         \/ \E u \in Users, c \in Clients : RevokeApp(r, u, c)
         \/ \E f \in Families : RevokeDevice(r, f)
         \/ \E g \in Families : MirrorRevoke(r, g) \/ MirrorFail(r, g)
         \/ Crash(r)
  PROVE  TypeOK'
<1>0. clock \in Nat /\ req[r].fam \in Families
  BY DEF TypeOK, RequestRecords
<1>1. ASSUME NEW f \in Families, NEW c \in Clients, RevokeTokenLookup(r, f, c)
      PROVE  TypeOK'
  <2> DEFINE rec == [NoRequest EXCEPT !.pc = "revokeObject", !.fam = f]
  <2>1. rec \in RequestRecords /\ rec.pc = "revokeObject"
    BY NoRequestType DEF RequestRecords, Pcs
  <2>2. req' = [req EXCEPT ![r] = rec] /\ "revokeObject" \notin Carrying
    BY <1>1 DEF RevokeTokenLookup, Carrying
  <2> HIDE DEF rec
  <2>3. ReqTyped'
    BY <2>1, <2>2, ReqUpdateType
  <2> QED BY <1>1, <2>3 DEF RevokeTokenLookup, TypeOK, ReqTyped
<1>2. ASSUME RevokeTokenObject(r) PROVE TypeOK'
  <2>1. ReqTyped'
    BY <1>2, GotoType DEF RevokeTokenObject, Pcs, Carrying
  <2>2. family' \in [Families -> FamilyRecords]
    BY <1>0, <1>2, BurnedType DEF RevokeTokenObject, BurnFamily, TypeOK
  <2> QED BY <1>2, <2>1, <2>2 DEF RevokeTokenObject, TypeOK, ReqTyped
<1>3. ASSUME NEW s \in Sessions, RevokeSession(r, s) PROVE TypeOK'
  <2>1. ReqTyped'
    BY <1>3, StartMirrorType DEF RevokeSession, ActiveRows
  <2>2. row' \in [Families -> RowRecords] /\ sess' \in [Sessions -> SessionRecords]
    BY <1>0, <1>3, RevokeRowsType, RevokeSessionsType DEF RevokeSession
  <2> QED BY <1>3, <2>1, <2>2 DEF RevokeSession, TypeOK, ReqTyped
<1>4. ASSUME NEW s \in Sessions, RevokeOtherUserSessions(r, s) PROVE TypeOK'
  <2>1. ReqTyped'
    BY <1>4, StartMirrorType, SelectionType DEF RevokeOtherUserSessions
  <2>2. row' \in [Families -> RowRecords] /\ sess' \in [Sessions -> SessionRecords]
    BY <1>0, <1>4, RevokeRowsType, RevokeSessionsType DEF RevokeOtherUserSessions
  <2> QED BY <1>4, <2>1, <2>2 DEF RevokeOtherUserSessions, TypeOK, ReqTyped
<1>5. ASSUME NEW u \in Users, RevokeAllUserSessions(r, u) PROVE TypeOK'
  <2>1. ReqTyped'
    BY <1>5, StartMirrorType, SelectionType DEF RevokeAllUserSessions
  <2>2. row' \in [Families -> RowRecords] /\ sess' \in [Sessions -> SessionRecords]
    BY <1>0, <1>5, RevokeRowsType, RevokeSessionsType DEF RevokeAllUserSessions
  <2> QED BY <1>5, <2>1, <2>2 DEF RevokeAllUserSessions, TypeOK, ReqTyped
<1>6. ASSUME NEW u \in Users, SetDisabled(r, u) PROVE TypeOK'
  <2>1. ReqTyped'
    BY <1>6, StartMirrorType, SelectionType DEF SetDisabled
  <2>2. row' \in [Families -> RowRecords] /\ sess' \in [Sessions -> SessionRecords]
    BY <1>0, <1>6, RevokeRowsType, RevokeSessionsType DEF SetDisabled
  <2>3. user' \in [Users -> {"enabled", "disabled", "deleted"}]
    BY <1>6 DEF SetDisabled, TypeOK
  <2> QED BY <1>6, <2>1, <2>2, <2>3 DEF SetDisabled, TypeOK, ReqTyped
<1>7. ASSUME NEW u \in Users, NEW c \in Clients, RevokeApp(r, u, c) PROVE TypeOK'
  <2>1. ReqTyped'
    BY <1>7, StartMirrorType, SelectionType DEF RevokeApp
  <2>2. row' \in [Families -> RowRecords]
    BY <1>0, <1>7, RevokeRowsType DEF RevokeApp
  <2> QED BY <1>7, <2>1, <2>2 DEF RevokeApp, TypeOK, ReqTyped
<1>8. ASSUME NEW f \in Families, RevokeDevice(r, f) PROVE TypeOK'
  <2>1. ReqTyped'
    BY <1>8, StartMirrorType DEF RevokeDevice
  <2>2. row' \in [Families -> RowRecords]
    BY <1>0, <1>8, RevokeRowsType DEF RevokeDevice
  <2> QED BY <1>8, <2>1, <2>2 DEF RevokeDevice, TypeOK, ReqTyped
<1>9. ASSUME NEW g \in Families, MirrorRevoke(r, g) PROVE TypeOK'
  <2>1. ReqTyped'
    BY <1>9, DropPendingType DEF MirrorRevoke
  <2>2. family' \in [Families -> FamilyRecords]
    BY <1>9, BurnedType DEF MirrorRevoke, BurnFamily, TypeOK
  <2> QED BY <1>9, <2>1, <2>2 DEF MirrorRevoke, TypeOK, ReqTyped
<1>10. ASSUME NEW g \in Families, MirrorFail(r, g) PROVE TypeOK'
  <2>1. ReqTyped'
    BY <1>10, DropPendingType DEF MirrorFail
  <2> QED BY <1>10, <2>1 DEF MirrorFail, TypeOK, ReqTyped, Fault
<1>11. ASSUME Crash(r) PROVE TypeOK'
  <2>1. ReqTyped'
    BY <1>11, FinishType DEF Crash
  <2> QED BY <1>11, <2>1 DEF Crash, TypeOK, ReqTyped, Fault
<1> QED BY <1>1, <1>2, <1>3, <1>4, <1>5, <1>6, <1>7, <1>8, <1>9, <1>10, <1>11

(* A row that is deleted, or that loses its session, is still a row.        *)
LEMMA DeletedRowType ==
  ASSUME NEW x \in RowRecords
  PROVE  /\ [x EXCEPT !.st = "deleted"] \in RowRecords
         /\ [x EXCEPT !.session = NoSession] \in RowRecords
<1>1. [x EXCEPT !.st = "deleted"] \in RowRecords
  BY DEF RowRecords
<1>2. [x EXCEPT !.session = NoSession] \in RowRecords
  BY DEF RowRecords, SessionIds
<1> QED BY <1>1, <1>2

LEMMA EnvironmentType ==
  ASSUME TypeOK, Environment
  PROVE  TypeOK'
<1>1. ASSUME NEW F \in SUBSET Families, RevokeRowsOnly(F) PROVE TypeOK'
  <2>1. row' \in [Families -> RowRecords]
    BY <1>1, RevokeRowsType DEF RevokeRowsOnly, TypeOK
  <2> QED BY <1>1, <2>1 DEF RevokeRowsOnly, TypeOK
<1>2. ASSUME NEW s \in Sessions, NEW u \in Users, CreateSession(s, u) PROVE TypeOK'
  <2>1. [st |-> "live", user |-> u, expiresAt |-> clock + SessionTtl, revokedAt |-> 0]
          \in SessionRecords
    BY ConstantsAssumption DEF TypeOK, SessionRecords
  <2>2. sess' \in [Sessions -> SessionRecords]
    BY <1>2, <2>1 DEF CreateSession, TypeOK
  <2> QED BY <1>2, <2>2 DEF CreateSession, TypeOK
<1>3. ASSUME NEW u \in Users, DeleteUser(u) PROVE TypeOK'
  <2>1. sess' \in [Sessions -> SessionRecords]
    BY <1>3 DEF DeleteUser, TypeOK, SessionRecords
  <2>2. \A f \in Families : row[f] \in RowRecords /\ [row[f] EXCEPT !.st = "deleted"] \in RowRecords
    BY DeletedRowType DEF TypeOK
  <2>3. row' \in [Families -> RowRecords]
    BY <1>3, <2>2 DEF DeleteUser
  <2>4. user' \in [Users -> {"enabled", "disabled", "deleted"}]
    BY <1>3 DEF DeleteUser, TypeOK
  <2> QED BY <1>3, <2>1, <2>3, <2>4 DEF DeleteUser, TypeOK
<1>4. ASSUME Tick PROVE TypeOK'
  BY <1>4 DEF Tick, TypeOK
<1>5. ASSUME NEW f \in Families, Alarm(f) PROVE TypeOK'
  <2>1. [family[f] EXCEPT !.st = "empty"] \in FamilyRecords
    <3>1. family[f] \in FamilyRecords
      BY DEF TypeOK
    <3> QED BY <3>1 DEF FamilyRecords
  <2>2. family' \in [Families -> FamilyRecords]
    BY <1>5, <2>1 DEF Alarm, TypeOK
  <2> QED BY <1>5, <2>2 DEF Alarm, TypeOK
<1>6. ASSUME NEW f \in Families, CleanupRow(f) PROVE TypeOK'
  <2>1. [row[f] EXCEPT !.st = "deleted"] \in RowRecords
    BY DeletedRowType DEF TypeOK
  <2>2. row' \in [Families -> RowRecords]
    BY <1>6, <2>1 DEF CleanupRow, TypeOK
  <2> QED BY <1>6, <2>2 DEF CleanupRow, TypeOK
<1>7. ASSUME NEW s \in Sessions, CleanupSession(s) PROVE TypeOK'
  <2>1. \A f \in Families : /\ row[f] \in RowRecords
                            /\ [row[f] EXCEPT !.session = NoSession] \in RowRecords
    BY DeletedRowType DEF TypeOK
  <2>2. row' \in [Families -> RowRecords]
    BY <1>7, <2>1 DEF CleanupSession
  <2>3. [sess[s] EXCEPT !.st = "deleted"] \in SessionRecords
    BY DEF TypeOK, SessionRecords
  <2>4. sess' \in [Sessions -> SessionRecords]
    BY <1>7, <2>3 DEF CleanupSession, TypeOK
  <2> QED BY <1>7, <2>2, <2>4 DEF CleanupSession, TypeOK
<1> QED BY <1>1, <1>2, <1>3, <1>4, <1>5, <1>6, <1>7 DEF Environment

LEMMA InitType == Init => TypeOK
<1> SUFFICES ASSUME Init PROVE TypeOK
  OBVIOUS
<1>1. AnyOf(Users) \in Users /\ AnyOf(Clients) \in Clients
  BY ConstantsAssumption DEF AnyOf
<1>2. sess \in [Sessions -> SessionRecords]
  BY <1>1 DEF Init, SessionRecords
<1>3. family \in [Families -> FamilyRecords]
  BY <1>1 DEF Init, FamilyRecords
<1>4. row \in [Families -> RowRecords]
  BY <1>1 DEF Init, RowRecords, SessionIds
<1>5. req \in [Requests -> RequestRecords] /\ \A r \in Requests : req[r].pc \notin Carrying
  BY NoRequestType DEF Init, NoRequest, Carrying
<1> QED BY <1>2, <1>3, <1>4, <1>5 DEF Init, TypeOK

(* Every step keeps every variable in its type.                            *)
LEMMA NextType ==
  ASSUME TypeOK, [Next]_vars
  PROVE  TypeOK'
<1>1. ASSUME NEW r \in Requests, Start(r) \/ Continue(r) \/ Fail(r)
      PROVE  TypeOK'
  BY <1>1, IssueStepType, RefreshStepType, RevocationStepType
     DEF Start, Continue, Fail
<1>2. ASSUME UNCHANGED vars PROVE TypeOK'
  BY <1>2 DEF vars, TypeOK
<1> QED BY <1>1, <1>2, EnvironmentType DEF Next

(* Type correctness of the refresh-token subsystem.                        *)
THEOREM TypeCorrect == Spec => []TypeOK
BY InitType, NextType, PTL DEF Spec

-----------------------------------------------------------------------------
(* Every active family has an active owner.                                *)

(* Steps after which every active row was active before, with the same     *)
(* owner, and which touch neither users nor sessions.                      *)
LEMMA OwnedIfRowsShrink ==
  ASSUME TypeOK, OwnedBySomeoneActive, UNCHANGED <<user, sess>>,
         \A f \in Families : row'[f].st = "active" =>
            /\ row[f].st = "active" /\ row'[f].user = row[f].user
            /\ row'[f].session = row[f].session
  PROVE  OwnedBySomeoneActive'
BY DEF OwnedBySomeoneActive, ActiveRows

LEMMA RevokeRowsShrink ==
  ASSUME TypeOK, NEW F, NEW at, NEW f \in Families
  PROVE  /\ RevokeRows(F, at)[f].user = row[f].user
         /\ RevokeRows(F, at)[f].session = row[f].session
         /\ RevokeRows(F, at)[f].st = "active" => row[f].st = "active" /\ f \notin F
<1>1. row[f] \in RowRecords
  BY DEF TypeOK
<1> QED BY <1>1 DEF RevokeRows, RowRecords

LEMMA CommitKeepsOwner ==
  ASSUME TypeOK, NEW r \in Requests, NEW f \in Families
  PROVE  /\ RowsAfterCommit(r)[f].user = row[f].user
         /\ RowsAfterCommit(r)[f].session = row[f].session
         /\ RowsAfterCommit(r)[f].st = row[f].st
<1>1. row[f] \in RowRecords /\ req[r].fam \in Families
  BY DEF TypeOK, RequestRecords
<1> QED BY <1>1 DEF RowsAfterCommit, RowRecords, TypeOK

(* The issuing batch admits a family only for an enabled user and an       *)
(* unrevoked session of that user.                                         *)
LEMMA InsertKeepsOwned ==
  ASSUME TypeOK, OwnedBySomeoneActive, NEW r \in Requests, InsertAllowed(r),
         row' = RowsAfterInsert(r), UNCHANGED <<user, sess>>
  PROVE  OwnedBySomeoneActive'
<1> DEFINE f == req[r].fam
           old == RevokeRows(Pruned(r), req[r].now)
<1>1. f \in Families /\ req[r].user \in Users /\ req[r].now \in Nat
  BY DEF TypeOK, RequestRecords
<1>2. old \in [Families -> RowRecords]
  BY <1>1, RevokeRowsType
<1>3. ASSUME NEW g \in Families, g # f
      PROVE  row'[g] = old[g]
  BY <1>2, <1>3 DEF RowsAfterInsert
<1>4. row'[f].user = req[r].user /\ row'[f].session = req[r].session
  BY <1>1, <1>2 DEF RowsAfterInsert
<1>5. ASSUME NEW g \in Families, row'[g].st = "active"
      PROVE  /\ user[row'[g].user] = "enabled"
             /\ row'[g].session # NoSession =>
                  sess[row'[g].session].st = "live" /\ sess[row'[g].session].user = row'[g].user
  <2>1. CASE g = f
    BY <2>1, <1>4 DEF InsertAllowed, SessionValid
  <2>2. CASE g # f
    BY <2>2, <1>3, <1>5, RevokeRowsShrink DEF OwnedBySomeoneActive, ActiveRows
  <2> QED BY <2>1, <2>2
<1> QED BY <1>5 DEF OwnedBySomeoneActive, ActiveRows

(* Sessions a revocation leaves alone are as they were.                    *)
LEMMA RevokeSessionsKeep ==
  ASSUME TypeOK, NEW S, NEW s \in Sessions
  PROVE  /\ RevokeSessions(S)[s].user = sess[s].user
         /\ s \notin S => RevokeSessions(S)[s] = sess[s]
BY DEF TypeOK, RevokeSessions, SessionRecords

(* One batch revokes every session and every family of a user.             *)
LEMMA RevokeUserKeepsOwned ==
  ASSUME TypeOK, OwnedBySomeoneActive, NEW u \in Users,
         sess' = RevokeSessions(SessionsOf(u)), row' = RevokeRows(FamiliesOf(u), clock),
         \A v \in Users : v # u => user'[v] = user[v]
  PROVE  OwnedBySomeoneActive'
<1> SUFFICES ASSUME NEW f \in Families, row'[f].st = "active"
             PROVE  /\ user'[row'[f].user] = "enabled"
                    /\ row'[f].session # NoSession =>
                         /\ sess'[row'[f].session].st = "live"
                         /\ sess'[row'[f].session].user = row'[f].user
  BY DEF OwnedBySomeoneActive, ActiveRows
<1>1. /\ row[f].st = "active" /\ f \notin FamiliesOf(u)
      /\ row'[f].user = row[f].user /\ row'[f].session = row[f].session
  BY RevokeRowsShrink
<1>2. row[f].user # u /\ row[f].user \in Users /\ row[f].session \in SessionIds
  BY <1>1 DEF FamiliesOf, ActiveRows, TypeOK, RowRecords
<1>3. /\ user[row[f].user] = "enabled"
      /\ row[f].session # NoSession => /\ sess[row[f].session].st = "live"
                                       /\ sess[row[f].session].user = row[f].user
  BY <1>1 DEF OwnedBySomeoneActive, ActiveRows
<1>4. ASSUME row[f].session # NoSession
      PROVE  sess'[row[f].session] = sess[row[f].session]
  BY <1>2, <1>3, <1>4, RevokeSessionsKeep DEF SessionIds, SessionsOf
<1> QED BY <1>1, <1>2, <1>3, <1>4

LEMMA OwnedStep ==
  ASSUME TypeOK, OwnedBySomeoneActive, NEW r \in Requests,
         Start(r) \/ Continue(r) \/ Fail(r)
  PROVE  OwnedBySomeoneActive'
<1>0. clock \in Nat
  BY DEF TypeOK
<1>1. CASE UNCHANGED <<user, sess, row>>
  BY <1>1 DEF OwnedBySomeoneActive, ActiveRows
<1>2. CASE IssueInsert(r) \/ IssueInsertError(r)
  <2>1. CASE InsertAllowed(r) /\ row' = RowsAfterInsert(r)
    BY <1>2, <2>1, InsertKeepsOwned DEF IssueInsert, IssueInsertError
  <2>2. CASE UNCHANGED row
    BY <1>2, <2>2, <1>1 DEF IssueInsert, IssueInsertError
  <2> QED BY <1>2, <2>1, <2>2 DEF IssueInsert, IssueInsertError
<1>3. CASE RefreshCommit(r) \/ RefreshCommitError(r)
  BY <1>3, <1>1, CommitKeepsOwner, OwnedIfRowsShrink DEF RefreshCommit, RefreshCommitError
<1>4. CASE MarkRow(r)
  BY <1>4, <1>1, RevokeRowsShrink, OwnedIfRowsShrink DEF MarkRow
<1>5. ASSUME NEW s \in Sessions, RevokeSession(r, s) PROVE OwnedBySomeoneActive'
  <2>1. ASSUME NEW f \in Families, row'[f].st = "active"
        PROVE  /\ user[row'[f].user] = "enabled"
               /\ row'[f].session # NoSession =>
                    /\ sess'[row'[f].session].st = "live"
                    /\ sess'[row'[f].session].user = row'[f].user
    <3>1. /\ row[f].st = "active" /\ row[f].session # s
          /\ row'[f].user = row[f].user /\ row'[f].session = row[f].session
      BY <1>5, <2>1, RevokeRowsShrink DEF RevokeSession, ActiveRows
    <3>2. row[f].session \in SessionIds
      BY DEF TypeOK, RowRecords
    <3>3. row[f].session # NoSession => sess'[row[f].session] = sess[row[f].session]
      BY <1>5, <3>1, <3>2, RevokeSessionsKeep DEF RevokeSession, SessionIds
    <3> QED BY <3>1, <3>3 DEF OwnedBySomeoneActive, ActiveRows
  <2> QED BY <1>5, <2>1 DEF RevokeSession, OwnedBySomeoneActive, ActiveRows
<1>6. ASSUME NEW k \in Sessions, RevokeOtherUserSessions(r, k) PROVE OwnedBySomeoneActive'
  <2> DEFINE u == sess[k].user
  <2>1. ASSUME NEW f \in Families, row'[f].st = "active"
        PROVE  /\ user[row'[f].user] = "enabled"
               /\ row'[f].session # NoSession =>
                    /\ sess'[row'[f].session].st = "live"
                    /\ sess'[row'[f].session].user = row'[f].user
    <3>1. /\ row[f].st = "active" /\ (row[f].user # u \/ row[f].session = k)
          /\ row'[f].user = row[f].user /\ row'[f].session = row[f].session
      BY <1>6, <2>1, RevokeRowsShrink DEF RevokeOtherUserSessions, FamiliesOf, ActiveRows
    <3>2. row[f].session \in SessionIds
      BY DEF TypeOK, RowRecords
    <3>3. /\ user[row[f].user] = "enabled"
          /\ row[f].session # NoSession => /\ sess[row[f].session].st = "live"
                                           /\ sess[row[f].session].user = row[f].user
      BY <3>1 DEF OwnedBySomeoneActive, ActiveRows
    <3>4. row[f].session # NoSession => sess'[row[f].session] = sess[row[f].session]
      BY <1>6, <3>1, <3>2, <3>3, RevokeSessionsKeep
         DEF RevokeOtherUserSessions, SessionIds, SessionsOf
    <3> QED BY <3>1, <3>3, <3>4
  <2> QED BY <1>6, <2>1 DEF RevokeOtherUserSessions, OwnedBySomeoneActive, ActiveRows
<1>7. ASSUME NEW u \in Users, RevokeAllUserSessions(r, u) \/ SetDisabled(r, u)
      PROVE  OwnedBySomeoneActive'
  BY <1>7, RevokeUserKeepsOwned DEF RevokeAllUserSessions, SetDisabled, TypeOK
<1>8. ASSUME NEW u \in Users, NEW c \in Clients, RevokeApp(r, u, c)
      PROVE  OwnedBySomeoneActive'
  BY <1>8, RevokeRowsShrink, OwnedIfRowsShrink DEF RevokeApp
<1>9. ASSUME NEW f \in Families, RevokeDevice(r, f) PROVE OwnedBySomeoneActive'
  BY <1>9, RevokeRowsShrink, OwnedIfRowsShrink DEF RevokeDevice
<1>10. CASE Start(r)
  BY <1>10, <1>1, <1>5, <1>6, <1>7, <1>8, <1>9
     DEF Start, IssueInit, RevokeTokenLookup, RefreshLookup
<1>11. CASE Continue(r)
  BY <1>11, <1>1, <1>2, <1>3, <1>4
     DEF Continue, IssueRespond, RefreshPolicy, RefreshRotated, RefreshBurned, RefreshRefused,
         RefreshRespond, Burn, RevokeTokenObject, MirrorRevoke
<1>12. CASE Fail(r)
  BY <1>12, <1>1, <1>2, <1>3 DEF Fail, Crash, MirrorFail
<1> QED BY <1>10, <1>11, <1>12

LEMMA OwnedEnvironment ==
  ASSUME TypeOK, OwnedBySomeoneActive, Environment
  PROVE  OwnedBySomeoneActive'
<1>1. ASSUME NEW F \in SUBSET Families, RevokeRowsOnly(F) PROVE OwnedBySomeoneActive'
  BY <1>1, RevokeRowsShrink, OwnedIfRowsShrink DEF RevokeRowsOnly
<1>2. ASSUME NEW s \in Sessions, NEW u \in Users, CreateSession(s, u)
      PROVE  OwnedBySomeoneActive'
  <2>1. \A f \in Families : row[f].session \in SessionIds
    BY DEF TypeOK, RowRecords
  <2> QED BY <1>2, <2>1 DEF CreateSession, OwnedBySomeoneActive, ActiveRows, SessionIds, TypeOK
<1>3. ASSUME NEW u \in Users, DeleteUser(u) PROVE OwnedBySomeoneActive'
  <2>1. ASSUME NEW f \in Families, row'[f].st = "active"
        PROVE  row[f].st = "active" /\ row'[f] = row[f] /\ row[f].user # u
    <3>1. row[f] \in RowRecords
      BY DEF TypeOK
    <3> QED BY <1>3, <2>1, <3>1 DEF DeleteUser, RowRecords
  <2>2. \A f \in Families : row[f].session \in SessionIds /\ row[f].user \in Users
    BY DEF TypeOK, RowRecords
  <2>3. \A s \in Sessions : sess[s].user # u => sess'[s] = sess[s]
    BY <1>3 DEF DeleteUser
  <2>4. \A v \in Users : v # u => user'[v] = user[v]
    BY <1>3 DEF DeleteUser, TypeOK
  <2> QED BY <2>1, <2>2, <2>3, <2>4 DEF OwnedBySomeoneActive, ActiveRows, SessionIds
<1>4. ASSUME NEW f \in Families, CleanupRow(f) PROVE OwnedBySomeoneActive'
  <2>1. ASSUME NEW g \in Families
        PROVE  row'[g] = IF g = f THEN [row[g] EXCEPT !.st = "deleted"] ELSE row[g]
    BY <1>4 DEF CleanupRow, TypeOK
  <2>2. ASSUME NEW g \in Families, row'[g].st = "active" PROVE row'[g] = row[g]
    BY <2>1, <2>2 DEF TypeOK, RowRecords
  <2> QED BY <1>4, <2>2, OwnedIfRowsShrink DEF CleanupRow
<1>5. ASSUME NEW s \in Sessions, CleanupSession(s) PROVE OwnedBySomeoneActive'
  <2>1. ASSUME NEW f \in Families
        PROVE  /\ row'[f].st = row[f].st /\ row'[f].user = row[f].user
               /\ row'[f].session = IF row[f].session = s THEN NoSession ELSE row[f].session
               /\ row[f].session \in SessionIds
    <3>1. row[f] \in RowRecords
      BY DEF TypeOK
    <3> QED BY <1>5, <3>1 DEF CleanupSession, RowRecords
  <2>2. \A q \in Sessions : q # s => sess'[q] = sess[q]
    BY <1>5 DEF CleanupSession, TypeOK
  <2> QED BY <1>5, <2>1, <2>2 DEF CleanupSession, OwnedBySomeoneActive, ActiveRows, SessionIds
<1>6. CASE UNCHANGED <<user, sess, row>>
  BY <1>6 DEF OwnedBySomeoneActive, ActiveRows
<1> QED BY <1>1, <1>2, <1>3, <1>4, <1>5, <1>6 DEF Environment, Tick, Alarm

(* No interleaving of issuance, rotation, logout, disabling, deletion,     *)
(* maintenance and faults leaves a family active in D1 whose user is       *)
(* disabled or deleted or whose session is revoked.                        *)
THEOREM ActiveFamiliesAreOwned == Spec => []OwnedBySomeoneActive
<1>1. Init => OwnedBySomeoneActive
  BY DEF Init, OwnedBySomeoneActive, ActiveRows
<1>2. TypeOK /\ OwnedBySomeoneActive /\ [Next]_vars => OwnedBySomeoneActive'
  <2> SUFFICES ASSUME TypeOK, OwnedBySomeoneActive, [Next]_vars PROVE OwnedBySomeoneActive'
    OBVIOUS
  <2>1. CASE UNCHANGED vars
    BY <2>1 DEF vars, OwnedBySomeoneActive, ActiveRows
  <2> QED BY <2>1, OwnedStep, OwnedEnvironment DEF Next
<1> QED BY <1>1, <1>2, TypeCorrect, PTL DEF Spec

-----------------------------------------------------------------------------
(* Rotation: the two stores and the requests between them.                 *)

(* Two records of locals that say the same about rotation.                 *)
SameWork(q, p) ==
  /\ q.fam = p.fam /\ q.tok = p.tok /\ q.new = p.new /\ q.gen = p.gen /\ q.scope = p.scope
  /\ q.pc = p.pc \/ {q.pc, p.pc} \subseteq {"policy", "rotate"}

Rotating == Carrying \cup {"policy", "rotate"}

(* Burning or wiping objects, revoking or deleting rows, and starting or   *)
(* ending other work leave the rotation invariant alone.                   *)
RotationFramed ==
  /\ \A f \in Families :
       /\ family'[f].current = family[f].current /\ family'[f].used = family[f].used
       /\ family'[f].scope = family[f].scope /\ family'[f].generation = family[f].generation
       /\ row'[f].hash = row[f].hash /\ row'[f].scope = row[f].scope /\ row'[f].gen = row[f].gen
       /\ row'[f].st = "absent" <=> row[f].st = "absent"
  /\ UNCHANGED <<minted, known>>
  /\ \A q \in Requests : SameWork(req'[q], req[q]) \/ req'[q].pc \notin Rotating

LEMMA RotationFrame ==
  ASSUME TypeOK, RotationInv, RotationFramed
  PROVE  RotationInv'
<1>0. \A q \in Requests : req[q].fam \in Families
  BY DEF TypeOK, RequestRecords
<1>1. MirrorAgrees'
  BY DEF RotationInv, RotationFramed, MirrorAgrees
<1>2. TokensAreMinted'
  BY DEF RotationInv, RotationFramed, TokensAreMinted
<1>3. ASSUME NEW r \in Requests PROVE SnapshotHolds(r)'
  BY <1>0 DEF RotationInv, RotationFramed, SnapshotHolds, SameWork, Rotating, Presentable
<1>4. ASSUME NEW r \in Requests PROVE CarrierHolds(r)'
  <2> SUFFICES ASSUME req'[r].pc \in Carrying PROVE CarrierHolds(r)'
    BY DEF CarrierHolds
  <2>1. SameWork(req'[r], req[r]) /\ req'[r].pc = req[r].pc /\ req[r].pc \in Carrying
    BY DEF RotationFramed, SameWork, Rotating, Carrying
  <2>2. CarrierHolds(r)
    BY DEF RotationInv
  <2>3. ASSUME NEW q \in Requests, q # r, req'[q].fam = req'[r].fam
        PROVE  req'[q].pc \notin Carrying
    BY <2>1, <2>2, <2>3 DEF RotationFramed, SameWork, Rotating, CarrierHolds, Carrying
  <2> QED BY <1>0, <2>1, <2>2, <2>3 DEF RotationFramed, SameWork, CarrierHolds
<1> QED BY <1>1, <1>2, <1>3, <1>4 DEF RotationInv

(* How the shared pieces of the handlers fit the frame.                    *)
LEMMA BurnFrame ==
  ASSUME TypeOK, NEW f \in Families, BurnFamily(f)
  PROVE  \A g \in Families :
           /\ family'[g].current = family[g].current /\ family'[g].used = family[g].used
           /\ family'[g].scope = family[g].scope /\ family'[g].generation = family[g].generation
<1> SUFFICES ASSUME NEW g \in Families
             PROVE  /\ family'[g].current = family[g].current /\ family'[g].used = family[g].used
                    /\ family'[g].scope = family[g].scope
                    /\ family'[g].generation = family[g].generation
  OBVIOUS
<1>1. family[g] \in FamilyRecords
  BY DEF TypeOK
<1> QED BY <1>1 DEF BurnFamily, Burned, FamilyRecords, TypeOK

RowsFramed(new) ==
  \A g \in Families :
    /\ new[g].hash = row[g].hash /\ new[g].scope = row[g].scope /\ new[g].gen = row[g].gen
    /\ new[g].user = row[g].user /\ new[g].client = row[g].client /\ new[g].expiresAt = row[g].expiresAt
    /\ new[g].st = "absent" <=> row[g].st = "absent"

LEMMA RevokeRowsFrame ==
  ASSUME TypeOK, NEW F \in SUBSET Families, NEW at,
         \A f \in F : row[f].st # "absent"
  PROVE  RowsFramed(RevokeRows(F, at))
<1> SUFFICES ASSUME NEW g \in Families
             PROVE  /\ RevokeRows(F, at)[g].hash = row[g].hash
                    /\ RevokeRows(F, at)[g].scope = row[g].scope
                    /\ RevokeRows(F, at)[g].gen = row[g].gen
                    /\ RevokeRows(F, at)[g].user = row[g].user
                    /\ RevokeRows(F, at)[g].client = row[g].client
                    /\ RevokeRows(F, at)[g].expiresAt = row[g].expiresAt
                    /\ RevokeRows(F, at)[g].st = "absent" <=> row[g].st = "absent"
  BY DEF RowsFramed
<1>1. row[g] \in RowRecords
  BY DEF TypeOK
<1> QED BY <1>1 DEF RevokeRows, RowRecords

LEMMA FinishFrame ==
  ASSUME TypeOK, NEW r \in Requests, Finish(r)
  PROVE  \A q \in Requests : SameWork(req'[q], req[q]) \/ req'[q].pc \notin Rotating
BY DEF TypeOK, Finish, NoRequest, SameWork, Rotating, Carrying

LEMMA StartMirrorFrame ==
  ASSUME TypeOK, NEW r \in Requests, NEW F, StartMirror(r, F)
  PROVE  \A q \in Requests : SameWork(req'[q], req[q]) \/ req'[q].pc \notin Rotating
BY DEF TypeOK, StartMirror, NoRequest, SameWork, Rotating, Carrying

LEMMA GotoFrame ==
  ASSUME TypeOK, NEW r \in Requests, NEW pc, Goto(r, pc),
         pc \notin Rotating \/ (pc = "rotate" /\ req[r].pc = "policy")
  PROVE  \A q \in Requests : SameWork(req'[q], req[q]) \/ req'[q].pc \notin Rotating
<1>1. \A q \in Requests : req[q] \in RequestRecords
  BY DEF TypeOK
<1>2. \A q \in Requests : req'[q] = IF q = r THEN [req[q] EXCEPT !.pc = pc] ELSE req[q]
  BY DEF Goto, TypeOK
<1>3. ASSUME NEW q \in Requests PROVE SameWork(req'[q], req[q]) \/ req'[q].pc \notin Rotating
  <2>1. CASE q # r
    BY <1>2, <2>1 DEF SameWork
  <2>2. CASE q = r
    <3>1. /\ req'[q].pc = pc /\ req'[q].fam = req[q].fam /\ req'[q].tok = req[q].tok
          /\ req'[q].new = req[q].new /\ req'[q].gen = req[q].gen /\ req'[q].scope = req[q].scope
      BY <1>1, <1>2, <2>2 DEF RequestRecords
    <3> QED BY <2>2, <3>1 DEF SameWork
  <2> QED BY <2>1, <2>2
<1> QED BY <1>3

LEMMA DropPendingFrame ==
  ASSUME TypeOK, NEW r \in Requests, NEW g,
         Finish(r) \/ req' = [req EXCEPT ![r].pending = @ \ {g}]
  PROVE  \A q \in Requests : SameWork(req'[q], req[q]) \/ req'[q].pc \notin Rotating
<1>1. CASE Finish(r)
  BY <1>1, FinishFrame
<1>2. CASE req' = [req EXCEPT ![r].pending = @ \ {g}]
  <2>1. \A q \in Requests : req[q] \in RequestRecords
    BY DEF TypeOK
  <2>2. \A q \in Requests :
          req'[q] = IF q = r THEN [req[q] EXCEPT !.pending = @ \ {g}] ELSE req[q]
    BY <1>2 DEF TypeOK
  <2> QED BY <2>1, <2>2 DEF SameWork, RequestRecords
<1> QED BY <1>1, <1>2

(* The steps of a request that the frame covers.                           *)
LEMMA FramedStep ==
  ASSUME TypeOK, RotationInv, NEW r \in Requests,
         \/ RefreshPolicy(r) \/ RefreshBurned(r) \/ RefreshRefused(r) \/ Burn(r) \/ MarkRow(r)
         \/ RevokeTokenObject(r) \/ Crash(r)
         \/ \E f \in Families, c \in Clients : RevokeTokenLookup(r, f, c)
         \/ \E s \in Sessions : RevokeSession(r, s) \/ RevokeOtherUserSessions(r, s)
         \/ \E u \in Users : RevokeAllUserSessions(r, u) \/ SetDisabled(r, u)
         \/ \E u \in Users, c \in Clients : RevokeApp(r, u, c)
         \/ \E f \in Families : RevokeDevice(r, f)
         \/ \E g \in Families : MirrorRevoke(r, g) \/ MirrorFail(r, g)
  PROVE  RotationFramed
<1> USE DEF RotationFramed
<1>0. req[r].fam \in Families /\ clock \in Nat
  BY DEF TypeOK, RequestRecords
<1>1. CASE RefreshPolicy(r)
  BY <1>1, GotoFrame, FinishFrame DEF RefreshPolicy
<1>2. CASE RefreshBurned(r)
  BY <1>0, <1>2, GotoFrame, BurnFrame DEF RefreshBurned, Rotating, Carrying
<1>3. CASE RefreshRefused(r)
  BY <1>3, FinishFrame DEF RefreshRefused
<1>4. CASE Burn(r)
  BY <1>0, <1>4, FinishFrame, BurnFrame DEF Burn
<1>5. CASE MarkRow(r)
  <2>1. RowsFramed(row')
    <3>1. CASE UNCHANGED row
      BY <3>1 DEF RowsFramed
    <3>2. CASE row[req[r].fam].st # "absent" /\ row' = RevokeRows({req[r].fam}, clock)
      BY <1>0, <3>2, RevokeRowsFrame
    <3> QED BY <1>5, <3>1, <3>2 DEF MarkRow
  <2> QED BY <1>5, <2>1, FinishFrame DEF MarkRow, RowsFramed
<1>6. CASE RevokeTokenObject(r)
  BY <1>0, <1>6, GotoFrame, BurnFrame DEF RevokeTokenObject, Rotating, Carrying
<1>7. CASE Crash(r)
  BY <1>7, FinishFrame DEF Crash
<1>8. ASSUME NEW f \in Families, NEW c \in Clients, RevokeTokenLookup(r, f, c)
      PROVE  RotationFramed
  <2>1. \A q \in Requests : SameWork(req'[q], req[q]) \/ req'[q].pc \notin Rotating
    BY <1>8 DEF RevokeTokenLookup, TypeOK, NoRequest, SameWork, Rotating, Carrying
  <2> QED BY <1>8, <2>1 DEF RevokeTokenLookup
<1>9. ASSUME NEW F \in SUBSET ActiveRows, row' = RevokeRows(F, clock), StartMirror(r, F),
             UNCHANGED <<family, minted, known>>
      PROVE  RotationFramed
  <2>1. RowsFramed(row')
    BY <1>0, <1>9, RevokeRowsFrame DEF ActiveRows
  <2> QED BY <1>9, <2>1, StartMirrorFrame DEF RowsFramed
<1>10. ASSUME NEW s \in Sessions, RevokeSession(r, s) \/ RevokeOtherUserSessions(r, s)
       PROVE  RotationFramed
  BY <1>10, <1>9 DEF RevokeSession, RevokeOtherUserSessions, FamiliesOf
<1>11. ASSUME NEW u \in Users, RevokeAllUserSessions(r, u) \/ SetDisabled(r, u)
       PROVE  RotationFramed
  BY <1>11, <1>9 DEF RevokeAllUserSessions, SetDisabled, FamiliesOf
<1>12. ASSUME NEW u \in Users, NEW c \in Clients, RevokeApp(r, u, c) PROVE RotationFramed
  BY <1>12, <1>9 DEF RevokeApp, FamiliesOf
<1>13. ASSUME NEW f \in Families, RevokeDevice(r, f) PROVE RotationFramed
  BY <1>13, <1>9 DEF RevokeDevice, ActiveRows
<1>14. ASSUME NEW g \in Families, MirrorRevoke(r, g) \/ MirrorFail(r, g)
       PROVE  RotationFramed
  BY <1>14, BurnFrame, DropPendingFrame DEF MirrorRevoke, MirrorFail
<1> QED BY <1>1, <1>2, <1>3, <1>4, <1>5, <1>6, <1>7, <1>8, <1>10, <1>11, <1>12, <1>13, <1>14

LEMMA FramedEnvironment ==
  ASSUME TypeOK, RotationInv, Environment
  PROVE  RotationFramed
<1> USE DEF RotationFramed
<1>1. ASSUME UNCHANGED req
      PROVE  \A q \in Requests : SameWork(req'[q], req[q])
  BY <1>1 DEF SameWork
<1>2. ASSUME NEW F \in SUBSET Families, RevokeRowsOnly(F) PROVE RotationFramed
  <2>1. RowsFramed(row')
    BY <1>2, RevokeRowsFrame DEF RevokeRowsOnly, ActiveRows, TypeOK
  <2> QED BY <1>1, <1>2, <2>1 DEF RevokeRowsOnly, RowsFramed
<1>3. ASSUME NEW s \in Sessions, NEW u \in Users, CreateSession(s, u) PROVE RotationFramed
  BY <1>1, <1>3 DEF CreateSession
<1>4. ASSUME NEW u \in Users, DeleteUser(u) PROVE RotationFramed
  <2>1. \A f \in Families : row[f] \in RowRecords
    BY DEF TypeOK
  <2>2. RowsFramed(row')
    BY <1>4, <2>1 DEF DeleteUser, RowsFramed, RowRecords
  <2> QED BY <1>1, <1>4, <2>2 DEF DeleteUser, RowsFramed
<1>5. CASE Tick
  BY <1>1, <1>5 DEF Tick
<1>6. ASSUME NEW f \in Families, Alarm(f) PROVE RotationFramed
  <2>1. ASSUME NEW g \in Families
        PROVE  family'[g] = IF g = f THEN [family[g] EXCEPT !.st = "empty"] ELSE family[g]
    BY <1>6 DEF Alarm, TypeOK
  <2>2. \A g \in Families : family[g] \in FamilyRecords
    BY DEF TypeOK
  <2>3. \A g \in Families :
          /\ family'[g].current = family[g].current /\ family'[g].used = family[g].used
          /\ family'[g].scope = family[g].scope /\ family'[g].generation = family[g].generation
    BY <2>1, <2>2 DEF FamilyRecords
  <2> QED BY <1>1, <1>6, <2>3 DEF Alarm
<1>7. ASSUME NEW f \in Families, CleanupRow(f) PROVE RotationFramed
  <2>1. ASSUME NEW g \in Families
        PROVE  row'[g] = IF g = f THEN [row[g] EXCEPT !.st = "deleted"] ELSE row[g]
    BY <1>7 DEF CleanupRow, TypeOK
  <2>2. \A g \in Families : row[g] \in RowRecords
    BY DEF TypeOK
  <2>3. row[f].st # "absent"
    BY <1>7 DEF CleanupRow, Terminal
  <2>4. RowsFramed(row')
    BY <2>1, <2>2, <2>3 DEF RowsFramed, RowRecords
  <2> QED BY <1>1, <1>7, <2>4 DEF CleanupRow, RowsFramed
<1>8. ASSUME NEW s \in Sessions, CleanupSession(s) PROVE RotationFramed
  <2>1. \A f \in Families : row[f] \in RowRecords
    BY DEF TypeOK
  <2>2. RowsFramed(row')
    BY <1>8, <2>1 DEF CleanupSession, RowsFramed, RowRecords
  <2> QED BY <1>1, <1>8, <2>2 DEF CleanupSession, RowsFramed
<1> QED BY <1>2, <1>3, <1>4, <1>5, <1>6, <1>7, <1>8 DEF Environment

(* A new family: nobody else works on it.                                  *)
LEMMA IssueInitRotation ==
  ASSUME TypeOK, RotationInv, NEW r \in Requests, NEW f \in Families, NEW u \in Users,
         NEW c \in Clients, NEW s \in SessionIds, NEW sc \in SUBSET Scopes,
         IssueInit(r, f, u, c, s, sc)
  PROVE  RotationInv'
<1>1. /\ \A g \in Families \ {f} : family'[g] = family[g] /\ minted'[g] = minted[g]
      /\ family'[f].current = 0 /\ family'[f].used = {} /\ family'[f].scope = sc
      /\ family'[f].generation = 0 /\ minted'[f] = 1 /\ minted[f] = 0
      /\ UNCHANGED <<row, known>>
  BY DEF IssueInit, TypeOK
<1>2. /\ \A q \in Requests \ {r} : req'[q] = req[q]
      /\ req'[r].pc = "insert" /\ req'[r].fam = f /\ req'[r].new = 0 /\ req'[r].scope = sc
  BY NoRequestType DEF IssueInit, TypeOK, RequestRecords
<1>3. row[f].st = "absent" /\ known[f] = {} /\ row[f].hash = 0
  BY <1>1 DEF RotationInv, TokensAreMinted
<1>4. \A q \in Requests : req[q].fam \in Families
  BY DEF TypeOK, RequestRecords
<1>5. ASSUME NEW q \in Requests, req[q].pc \in Rotating PROVE req[q].fam # f
  BY <1>1, <1>3, <1>5 DEF RotationInv, SnapshotHolds, CarrierHolds, Rotating
<1>6. MirrorAgrees'
  BY <1>1, <1>3 DEF RotationInv, MirrorAgrees
<1>7. TokensAreMinted'
  BY <1>1, <1>3 DEF RotationInv, TokensAreMinted
<1>8. ASSUME NEW q \in Requests PROVE SnapshotHolds(q)' /\ CarrierHolds(q)'
  <2>1. CASE q = r
    <3>1. SnapshotHolds(q)'
      BY <1>2, <2>1 DEF SnapshotHolds
    <3>2. \A p \in Requests : p # q /\ req'[p].fam = f => req'[p].pc \notin Carrying
      BY <1>2, <1>5, <2>1 DEF Rotating
    <3>3. CarrierHolds(q)'
      BY <1>1, <1>2, <1>3, <2>1, <3>2 DEF CarrierHolds, Carrying
    <3> QED BY <3>1, <3>3
  <2>2. CASE q # r /\ req[q].pc \in Rotating
    <3>1. req'[q] = req[q] /\ req[q].fam \in Families \ {f}
      BY <1>2, <1>4, <1>5, <2>2
    <3>2. SnapshotHolds(q)'
      BY <1>1, <3>1 DEF RotationInv, SnapshotHolds, Presentable
    <3>3. CarrierHolds(q)'
      BY <1>1, <1>2, <3>1 DEF RotationInv, CarrierHolds
    <3> QED BY <3>2, <3>3
  <2>3. CASE q # r /\ req[q].pc \notin Rotating
    BY <1>2, <2>3 DEF SnapshotHolds, CarrierHolds, Rotating
  <2> QED BY <2>1, <2>2, <2>3
<1> QED BY <1>6, <1>7, <1>8 DEF RotationInv

(* The row of a new family appears with the values of the object, and the  *)
(* families it prunes keep theirs.                                         *)
LEMMA InsertedRows ==
  ASSUME TypeOK, RotationInv, NEW r \in Requests, req[r].pc = "insert"
  PROVE  LET f == req[r].fam  new == RowsAfterInsert(r)
         IN  /\ f \in Families
             /\ new[f].st = "active" /\ new[f].hash = req[r].new /\ new[f].gen = 0
             /\ new[f].scope = req[r].scope
             /\ \A g \in Families \ {f} :
                  /\ new[g].hash = row[g].hash /\ new[g].scope = row[g].scope
                  /\ new[g].gen = row[g].gen
                  /\ new[g].st = "absent" <=> row[g].st = "absent"
<1>1. req[r].fam \in Families /\ req[r].now \in Nat
  BY DEF TypeOK, RequestRecords
<1>2. Pruned(r) \in SUBSET Families /\ \A g \in Pruned(r) : row[g].st = "active"
  BY DEF Pruned, PruneCandidates, ActiveRows
<1>3. RowsFramed(RevokeRows(Pruned(r), req[r].now))
  BY <1>1, <1>2, RevokeRowsFrame
<1>4. RevokeRows(Pruned(r), req[r].now) \in [Families -> RowRecords]
  BY <1>1, RevokeRowsType
<1> QED BY <1>1, <1>3, <1>4 DEF RowsAfterInsert, RowsFramed

LEMMA InsertRotation ==
  ASSUME TypeOK, RotationInv, NEW r \in Requests, req[r].pc = "insert",
         row' = RowsAfterInsert(r), UNCHANGED <<family, minted, known>>,
         \A q \in Requests \ {r} : req'[q] = req[q],
         \/ req'[r].pc \notin Rotating
         \/ /\ req'[r].pc = "issueMirror" /\ req'[r].fam = req[r].fam
            /\ req'[r].new = req[r].new
  PROVE  RotationInv'
<1> DEFINE f == req[r].fam
<1>1. /\ f \in Families
      /\ row'[f].st = "active" /\ row'[f].hash = req[r].new /\ row'[f].gen = 0
      /\ row'[f].scope = req[r].scope
      /\ \A g \in Families \ {f} :
            /\ row'[g].hash = row[g].hash /\ row'[g].scope = row[g].scope
            /\ row'[g].gen = row[g].gen
            /\ row'[g].st = "absent" <=> row[g].st = "absent"
  BY InsertedRows
<1>2. /\ CarrierHolds(r) /\ req[r].pc \in Carrying
  BY DEF RotationInv, Carrying
<1>3. /\ row[f].st = "absent" /\ known[f] = {} /\ minted[f] > 0 /\ req[r].new = 0
      /\ family[f].scope = req[r].scope /\ family[f].generation = 0 /\ family[f].current = 0
  BY <1>1, <1>2 DEF RotationInv, TokensAreMinted, CarrierHolds
<1>4. \A q \in Requests : req[q].fam \in Families
  BY DEF TypeOK, RequestRecords
<1>5. ASSUME NEW q \in Requests, q # r, req[q].pc \in Rotating PROVE req[q].fam # f
  BY <1>2, <1>3, <1>5 DEF RotationInv, SnapshotHolds, CarrierHolds, Rotating
<1>6. MirrorAgrees'
  BY <1>1, <1>3 DEF RotationInv, MirrorAgrees
<1>7. TokensAreMinted'
  <2> SUFFICES ASSUME NEW g \in Families
               PROVE  /\ minted[g] = 0 => row'[g].st = "absent"
                      /\ row'[g].st = "absent" => known[g] = {} /\ row'[g].hash = 0
    BY DEF RotationInv, TokensAreMinted
  <2> QED BY <1>1, <1>3 DEF RotationInv, TokensAreMinted
<1>8. ASSUME NEW q \in Requests PROVE SnapshotHolds(q)' /\ CarrierHolds(q)'
  <2>1. CASE q = r /\ req'[r].pc \notin Rotating
    BY <2>1 DEF SnapshotHolds, CarrierHolds, Rotating
  <2>2. CASE q = r /\ req'[r].pc \in Rotating
    <3>1. req'[r].pc = "issueMirror" /\ req'[r].fam = f /\ req'[r].new = req[r].new
      BY <2>2
    <3>2. \A p \in Requests : p # q /\ req'[p].fam = f => req'[p].pc \notin Carrying
      BY <1>5, <2>2 DEF Rotating
    <3>3. SnapshotHolds(q)'
      BY <2>2, <3>1 DEF SnapshotHolds
    <3>4. CarrierHolds(q)'
      BY <1>1, <1>3, <2>2, <3>1, <3>2 DEF CarrierHolds
    <3> QED BY <3>3, <3>4
  <2>3. CASE q # r /\ req[q].pc \in Rotating
    <3>1. req'[q] = req[q] /\ req[q].fam \in Families \ {f}
      BY <1>4, <1>5, <2>3
    <3>2. SnapshotHolds(q)'
      BY <1>1, <3>1 DEF RotationInv, SnapshotHolds, Presentable
    <3>3. req'[r].fam = req[q].fam => req'[r].pc \notin Carrying
      BY <3>1 DEF Rotating
    <3>4. CarrierHolds(q)'
      <4> DEFINE g == req[q].fam
      <4>1. CarrierHolds(q)
        BY DEF RotationInv
      <4>2. /\ family'[g] = family[g] /\ minted'[g] = minted[g] /\ known'[g] = known[g]
            /\ row'[g].hash = row[g].hash /\ row'[g].scope = row[g].scope /\ row'[g].gen = row[g].gen
            /\ row'[g].st = "absent" <=> row[g].st = "absent"
        BY <1>1, <3>1
      <4>3. req[q].pc \in Carrying =>
              \A p \in Requests : p # q /\ req'[p].fam = g => req'[p].pc \notin Carrying
        BY <3>3, <4>1 DEF CarrierHolds
      <4> QED BY <3>1, <4>1, <4>2, <4>3, CarrierFramed
    <3> QED BY <3>2, <3>4
  <2>4. CASE q # r /\ req[q].pc \notin Rotating
    BY <2>4 DEF SnapshotHolds, CarrierHolds, Rotating
  <2> QED BY <2>1, <2>2, <2>3, <2>4
<1> QED BY <1>6, <1>7, <1>8 DEF RotationInv

LEMMA IssueInsertRotation ==
  ASSUME TypeOK, RotationInv, NEW r \in Requests, IssueInsert(r) \/ IssueInsertError(r)
  PROVE  RotationInv'
<1>0. req[r].pc = "insert" /\ req[r] \in RequestRecords /\ UNCHANGED <<family, minted, known>>
  BY DEF IssueInsert, IssueInsertError, TypeOK
<1>1. CASE UNCHANGED row /\ Goto(r, "burn")
  <2>1. RotationFramed
    BY <1>0, <1>1, GotoFrame DEF RotationFramed, Rotating, Carrying
  <2> QED BY <2>1, RotationFrame
<1>2. CASE row' = RowsAfterInsert(r) /\ Goto(r, "burn")
  <2>1. \A q \in Requests \ {r} : req'[q] = req[q]
    BY <1>2 DEF Goto, TypeOK
  <2>2. req'[r].pc = "burn"
    BY <1>0, <1>2 DEF Goto, TypeOK, RequestRecords
  <2> QED BY <1>0, <1>2, <2>1, <2>2, InsertRotation DEF Rotating, Carrying
<1>3. CASE /\ row' = RowsAfterInsert(r)
           /\ req' = [req EXCEPT ![r].pc = "issueMirror", ![r].pending = Pruned(r)]
  <2>1. \A q \in Requests \ {r} : req'[q] = req[q]
    BY <1>3 DEF TypeOK
  <2>2. req'[r].pc = "issueMirror" /\ req'[r].fam = req[r].fam /\ req'[r].new = req[r].new
    BY <1>0, <1>3 DEF TypeOK, RequestRecords
  <2> QED BY <1>0, <1>3, <2>1, <2>2, InsertRotation
<1> QED BY <1>1, <1>2, <1>3 DEF IssueInsert, IssueInsertError

(* A response delivers the token D1 already mirrors.                       *)
LEMMA DeliverRotation ==
  ASSUME TypeOK, RotationInv, NEW r \in Requests, req[r].pc \in {"issueMirror", "respond"},
         known' = [known EXCEPT ![req[r].fam] = @ \cup {req[r].new}],
         Finish(r), UNCHANGED <<family, row, minted>>
  PROVE  RotationInv'
<1> DEFINE f == req[r].fam
<1>0. \A q \in Requests : req[q].fam \in Families
  BY DEF TypeOK, RequestRecords
<1>1. /\ \A q \in Requests \ {r} : req'[q] = req[q]
      /\ req'[r].pc = "idle"
  BY DEF Finish, TypeOK, NoRequest
<1>2. /\ known'[f] = known[f] \cup {req[r].new}
      /\ \A g \in Families : g # f => known'[g] = known[g]
  BY <1>0 DEF TypeOK
<1>3. /\ minted[f] > 0 /\ req[r].new = family[f].current
      /\ \A q \in Requests : q # r /\ req[q].fam = f => req[q].pc \notin Carrying
      /\ row[f].st # "absent" /\ row[f].hash = req[r].new
      /\ row[f].scope = family[f].scope /\ row[f].gen = family[f].generation
  BY DEF RotationInv, CarrierHolds, Carrying
<1>4. MirrorAgrees'
  BY <1>0, <1>2, <1>3 DEF RotationInv, MirrorAgrees
<1>5. TokensAreMinted'
  BY <1>0, <1>2, <1>3 DEF RotationInv, TokensAreMinted
<1>6. ASSUME NEW q \in Requests PROVE SnapshotHolds(q)' /\ CarrierHolds(q)'
  <2>1. CASE q = r
    BY <1>1, <2>1 DEF SnapshotHolds, CarrierHolds, Carrying
  <2>2. CASE q # r
    <3>1. req'[q] = req[q]
      BY <1>1, <2>2
    <3>2. SnapshotHolds(q)'
      BY <1>0, <1>2, <3>1 DEF RotationInv, SnapshotHolds, Presentable
    <3>3. CASE req[q].pc \in Carrying
      <4>1. req[q].fam # f
        BY <1>3, <2>2, <3>3
      <4>2. \A p \in Requests : p # q /\ req'[p].fam = req'[q].fam => req'[p].pc \notin Carrying
        BY <1>1, <3>1, <3>3 DEF RotationInv, CarrierHolds, Carrying
      <4> QED BY <1>0, <1>2, <3>1, <3>2, <4>1, <4>2 DEF RotationInv, CarrierHolds
    <3>4. CASE req[q].pc \notin Carrying
      BY <3>1, <3>2, <3>4 DEF CarrierHolds
    <3> QED BY <3>3, <3>4
  <2> QED BY <2>1, <2>2
<1> QED BY <1>4, <1>5, <1>6 DEF RotationInv

LEMMA RespondRotation ==
  ASSUME TypeOK, RotationInv, NEW r \in Requests, IssueRespond(r) \/ RefreshRespond(r)
  PROVE  RotationInv'
<1>1. CASE /\ req[r].pc \in {"issueMirror", "respond"}
           /\ known' = [known EXCEPT ![req[r].fam] = @ \cup {req[r].new}]
           /\ Finish(r) /\ UNCHANGED <<family, row, minted>>
  BY <1>1, DeliverRotation
<1>2. CASE Finish(r) /\ UNCHANGED <<family, row, minted, known>>
  <2>1. RotationFramed
    BY <1>2, FinishFrame DEF RotationFramed
  <2> QED BY <2>1, RotationFrame
<1> QED BY <1>1, <1>2 DEF IssueRespond, RefreshRespond

(* A request that starts takes its scopes from a row that mirrors the      *)
(* object, if it presents the object's token.                              *)
LEMMA LookupRotation ==
  ASSUME TypeOK, RotationInv, NEW r \in Requests, NEW f \in Families, NEW t, NEW c \in Clients,
         NEW sc \in SUBSET Scopes, RefreshLookup(r, f, t, c, sc)
  PROVE  RotationInv'
<1>1. /\ \A q \in Requests \ {r} : req'[q] = req[q]
      /\ req'[r].pc = "policy" /\ req'[r].fam = f /\ req'[r].tok = t /\ req'[r].scope = sc
      /\ UNCHANGED <<family, row, minted, known>>
  BY NoRequestType DEF RefreshLookup, TypeOK, RequestRecords
<1>2. t \in Presentable(f) /\ row[f].st = "active" /\ sc \subseteq row[f].scope
  BY DEF RefreshLookup, ScopeAllowed
<1>3. t = family[f].current => t \in known[f]
  BY <1>2 DEF Presentable, Forged, TypeOK, FamilyRecords
<1>4. MirrorAgrees' /\ TokensAreMinted'
  BY <1>1 DEF RotationInv, MirrorAgrees, TokensAreMinted
<1>5. ASSUME NEW q \in Requests PROVE SnapshotHolds(q)' /\ CarrierHolds(q)'
  <2>1. CASE q = r
    <3>1. t = family[f].current => sc \subseteq family[f].scope
      BY <1>2, <1>3 DEF RotationInv, MirrorAgrees
    <3> QED BY <1>1, <1>2, <2>1, <3>1 DEF SnapshotHolds, CarrierHolds, Carrying, Presentable
  <2>2. CASE q # r
    <3>1. req'[q] = req[q]
      BY <1>1, <2>2
    <3>2. SnapshotHolds(q)'
      BY <1>1, <3>1 DEF RotationInv, SnapshotHolds, Presentable
    <3>3. req'[r].pc \notin Carrying
      BY <1>1 DEF Carrying
    <3>4. CarrierHolds(q)'
      BY <1>1, <3>1, <3>3 DEF RotationInv, CarrierHolds
    <3> QED BY <3>2, <3>4
  <2> QED BY <2>1, <2>2
<1> QED BY <1>4, <1>5 DEF RotationInv

(* The exchange itself: the presented token is the object's and was        *)
(* delivered, so no other request carries a token of the family, and the   *)
(* new token is one nobody holds.                                          *)
LEMMA RotatedRotation ==
  ASSUME TypeOK, RotationInv, NEW r \in Requests, RefreshRotated(r)
  PROVE  RotationInv'
<1> DEFINE f == req[r].fam
<1>0. /\ \A q \in Requests : req[q].fam \in Families
      /\ req[r].pc = "rotate" /\ req[r] \in RequestRecords
      /\ UNCHANGED <<row, known>>
  BY DEF TypeOK, RequestRecords, RefreshRotated
<1>1. /\ family[f] \in FamilyRecords /\ minted[f] \in Nat /\ row[f] \in RowRecords
      /\ known[f] \subseteq Nat
  BY <1>0 DEF TypeOK
<1>2. /\ family'[f].scope = req[r].scope /\ family'[f].generation = family[f].generation + 1
      /\ family'[f].current = minted[f]
      /\ family'[f].used = family[f].used \cup {family[f].current}
      /\ minted'[f] = minted[f] + 1
      /\ \A g \in Families : g # f => family'[g] = family[g] /\ minted'[g] = minted[g]
  BY <1>0, <1>1 DEF RefreshRotated, TypeOK, FamilyRecords
<1>3. /\ \A q \in Requests : q # r => req'[q] = req[q]
      /\ req'[r].pc = "commit" /\ req'[r].fam = f /\ req'[r].new = minted[f]
      /\ req'[r].tok = req[r].tok /\ req'[r].scope = req[r].scope
      /\ req'[r].gen = family[f].generation + 1
  BY <1>0 DEF RefreshRotated, TypeOK, RequestRecords
<1>4. req[r].tok = family[f].current
  BY DEF RefreshRotated, Exchangeable
<1>5. /\ row[f].st # "absent" /\ req[r].tok \in known[f]
      /\ req[r].scope \subseteq family[f].scope
  BY <1>0, <1>1, <1>4 DEF RotationInv, SnapshotHolds, Presentable, Forged, FamilyRecords
<1>6. /\ row[f].hash = req[r].tok /\ row[f].scope = family[f].scope
      /\ row[f].gen = family[f].generation
  BY <1>0, <1>4, <1>5 DEF RotationInv, MirrorAgrees
<1>7. \A t \in known[f] \cup family[f].used : t < minted[f]
  BY <1>0 DEF RotationInv, TokensAreMinted
<1>8. minted[f] \notin known[f]
  BY <1>1, <1>7
<1>9. ASSUME NEW q \in Requests, req[q].pc \in Carrying PROVE req[q].fam # f
  BY <1>4, <1>5, <1>9 DEF RotationInv, CarrierHolds
<1>10. MirrorAgrees'
  BY <1>0, <1>2, <1>8 DEF RotationInv, MirrorAgrees
<1>11. TokensAreMinted'
  <2> SUFFICES ASSUME NEW g \in Families
               PROVE  /\ \A t \in known[g] \cup family'[g].used : t < minted'[g]
                      /\ minted'[g] > 0 => family'[g].current < minted'[g]
                      /\ minted'[g] = 0 => row[g].st = "absent"
                      /\ row[g].st = "absent" => known[g] = {} /\ row[g].hash = 0
    BY <1>0 DEF TokensAreMinted
  <2>1. CASE g # f
    BY <1>2, <2>1 DEF RotationInv, TokensAreMinted
  <2>2. CASE g = f
    <3>1. family[f].current < minted[f]
      BY <1>4, <1>5, <1>7
    <3>2. \A t \in known[f] \cup family'[f].used : t < minted'[f]
      <4>1. \A t \in known[f] \cup family[f].used : t \in Nat
        BY <1>1 DEF FamilyRecords
      <4> QED BY <1>1, <1>2, <1>7, <3>1, <4>1 DEF FamilyRecords
    <3> QED BY <1>1, <1>2, <1>5, <2>2, <3>2
  <2> QED BY <2>1, <2>2
<1>12. ASSUME NEW q \in Requests PROVE SnapshotHolds(q)' /\ CarrierHolds(q)'
  <2>1. CASE q = r
    <3>1. SnapshotHolds(q)'
      BY <1>3, <2>1 DEF SnapshotHolds
    <3>2. \A p \in Requests : p # q /\ req'[p].fam = f => req'[p].pc \notin Carrying
      BY <1>3, <1>9, <2>1
    <3>3. minted'[f] > 0 /\ family[f].generation + 1 >= row[f].gen
      BY <1>1, <1>2, <1>6 DEF FamilyRecords
    <3> QED BY <1>0, <1>2, <1>3, <1>5, <1>6, <1>8, <2>1, <3>1, <3>2, <3>3 DEF CarrierHolds
  <2>2. CASE q # r
    <3>0. req'[q] = req[q] /\ req[q].fam \in Families
      BY <1>0, <1>3, <2>2
    <3>1. SnapshotHolds(q)'
      <4>1. CASE req[q].fam # f
        BY <1>0, <1>2, <3>0, <4>1 DEF RotationInv, SnapshotHolds, Presentable
      <4>2. CASE req[q].fam = f
        <5>1. req[q].tok \in Presentable(f) => req[q].tok # minted[f]
          BY <1>1, <1>8 DEF Presentable, Forged
        <5> QED BY <1>0, <1>2, <3>0, <4>2, <5>1 DEF RotationInv, SnapshotHolds, Presentable
      <4> QED BY <4>1, <4>2
    <3>2. CASE req[q].pc \in Carrying
      <4>1. req[q].fam # f
        BY <1>9, <3>2
      <4>2. \A p \in Requests : p # q /\ req'[p].fam = req'[q].fam => req'[p].pc \notin Carrying
        BY <1>3, <3>0, <3>2, <4>1 DEF RotationInv, CarrierHolds
      <4>3. CarrierHolds(q)
        BY DEF RotationInv
      <4>4. LET g == req[q].fam IN
              family'[g] = family[g] /\ minted'[g] = minted[g] /\ row'[g] = row[g] /\ known'[g] = known[g]
        BY <1>0, <1>2, <3>0, <4>1
      <4>5. CarrierHolds(q)'
        BY <3>0, <4>2, <4>3, <4>4, CarrierFramed
      <4> QED BY <3>1, <4>5
    <3>3. CASE req[q].pc \notin Carrying
      BY <3>0, <3>1, <3>3 DEF CarrierHolds
    <3> QED BY <3>2, <3>3
  <2> QED BY <2>1, <2>2
<1> QED BY <1>10, <1>11, <1>12 DEF RotationInv

(* D1 takes the carried token over, for the request that carries it.       *)
LEMMA CommitRotation ==
  ASSUME TypeOK, RotationInv, NEW r \in Requests, RefreshCommit(r) \/ RefreshCommitError(r)
  PROVE  RotationInv'
<1> DEFINE f == req[r].fam
<1>0. /\ \A q \in Requests : req[q].fam \in Families
      /\ req[r].pc = "commit" /\ req[r] \in RequestRecords /\ row[f] \in RowRecords
      /\ UNCHANGED <<family, minted, known>>
  BY DEF TypeOK, RequestRecords, RefreshCommit, RefreshCommitError
<1>1. CASE UNCHANGED row /\ Goto(r, "burn")
  <2>1. RotationFramed
    BY <1>0, <1>1, GotoFrame DEF RotationFramed, Rotating, Carrying
  <2> QED BY <2>1, RotationFrame
<1>2. ASSUME NEW pc \in {"respond", "burn"}, row[f].st = "active", row' = RowsAfterCommit(r),
             Goto(r, pc)
      PROVE  RotationInv'
  <2>1. /\ row'[f].hash = req[r].new /\ row'[f].scope = req[r].scope /\ row'[f].gen = req[r].gen
        /\ row'[f].st = "active"
        /\ \A g \in Families : g # f => row'[g] = row[g]
    BY <1>0, <1>2 DEF RowsAfterCommit, TypeOK, RowRecords
  <2>2. /\ \A q \in Requests : q # r => req'[q] = req[q]
        /\ req'[r].pc = pc /\ req'[r].fam = f /\ req'[r].new = req[r].new
    BY <1>0, <1>2 DEF Goto, TypeOK, RequestRecords
  <2>3. /\ minted[f] > 0 /\ req[r].new = family[f].current /\ req[r].new \notin known[f]
        /\ \A q \in Requests : q # r /\ req[q].fam = f => req[q].pc \notin Carrying
        /\ family[f].scope = req[r].scope /\ family[f].generation = req[r].gen
    BY <1>0 DEF RotationInv, CarrierHolds, Carrying
  <2>4. MirrorAgrees'
    BY <1>0, <2>1, <2>3 DEF RotationInv, MirrorAgrees
  <2>5. TokensAreMinted'
    BY <1>0, <1>2, <2>1, <2>3 DEF RotationInv, TokensAreMinted
  <2>6. ASSUME NEW q \in Requests PROVE SnapshotHolds(q)' /\ CarrierHolds(q)'
    <3>1. CASE q = r
      <4>1. SnapshotHolds(q)'
        BY <1>2, <2>2, <3>1 DEF SnapshotHolds
      <4>2. CarrierHolds(q)'
        BY <1>0, <1>2, <2>1, <2>2, <2>3, <3>1 DEF CarrierHolds, Carrying
      <4> QED BY <4>1, <4>2
    <3>2. CASE q # r
      <4>0. req'[q] = req[q] /\ req[q].fam \in Families
        BY <1>0, <2>2, <3>2
      <4>1. SnapshotHolds(q)'
        BY <1>0, <2>1, <4>0 DEF RotationInv, SnapshotHolds, Presentable
      <4>2. CASE req[q].pc \in Carrying
        <5>1. req[q].fam # f
          BY <2>3, <3>2, <4>2
        <5>2. \A p \in Requests : p # q /\ req'[p].fam = req'[q].fam => req'[p].pc \notin Carrying
          BY <2>2, <4>0, <4>2, <5>1 DEF RotationInv, CarrierHolds
        <5>3. CarrierHolds(q)
          BY DEF RotationInv
        <5>4. LET g == req[q].fam IN
                family'[g] = family[g] /\ minted'[g] = minted[g] /\ row'[g] = row[g] /\ known'[g] = known[g]
          BY <1>0, <2>1, <4>0, <5>1
        <5>5. CarrierHolds(q)'
          BY <4>0, <5>2, <5>3, <5>4, CarrierFramed
        <5> QED BY <4>1, <5>5
      <4>3. CASE req[q].pc \notin Carrying
        BY <4>0, <4>1, <4>3 DEF CarrierHolds
      <4> QED BY <4>2, <4>3
    <3> QED BY <3>1, <3>2
  <2> QED BY <2>4, <2>5, <2>6 DEF RotationInv
<1>3. row[f].st # "active" => RowsAfterCommit(r) = row
  BY DEF RowsAfterCommit
<1> QED BY <1>1, <1>2, <1>3 DEF RefreshCommit, RefreshCommitError

LEMMA RotationStep ==
  ASSUME TypeOK, RotationInv, Next
  PROVE  RotationInv'
<1>1. CASE Environment
  BY <1>1, FramedEnvironment, RotationFrame
<1>2. ASSUME NEW r \in Requests, Continue(r) PROVE RotationInv'
  BY <1>2, FramedStep, RotationFrame, IssueInsertRotation, RespondRotation, RotatedRotation,
     CommitRotation DEF Continue
<1>3. ASSUME NEW r \in Requests, Fail(r) PROVE RotationInv'
  BY <1>3, FramedStep, RotationFrame, IssueInsertRotation, CommitRotation DEF Fail
<1>4. ASSUME NEW r \in Requests, Start(r) PROVE RotationInv'
  BY <1>4, FramedStep, RotationFrame, IssueInitRotation, LookupRotation DEF Start
<1> QED BY <1>1, <1>2, <1>3, <1>4 DEF Next

(* For any number of families, clients and concurrent requests, whatever   *)
(* faults happen: at most one successor of a family's newest token is      *)
(* under way (rotateRefreshToken), D1 has it before a client does, and the *)
(* token a client can exchange is the one D1 mirrors.                      *)
THEOREM RotationIsSerial == Spec => []RotationInv
<1>1. Init => RotationInv
  BY DEF Init, RotationInv, MirrorAgrees, TokensAreMinted, SnapshotHolds, CarrierHolds,
         NoRequest, Carrying
<1>2. TypeOK /\ RotationInv /\ [Next]_vars => RotationInv'
  <2> SUFFICES ASSUME TypeOK, RotationInv, [Next]_vars PROVE RotationInv'
    OBVIOUS
  <2>1. CASE UNCHANGED vars
    BY <2>1 DEF vars, RotationInv, MirrorAgrees, TokensAreMinted, SnapshotHolds, CarrierHolds,
                Presentable
  <2> QED BY <2>1, RotationStep
<1> QED BY <1>1, <1>2, TypeCorrect, PTL DEF Spec
-----------------------------------------------------------------------------
(* What the rows of refresh_tokens do in one step.                         *)

(* A step that only closes families: no row appears or becomes active, and *)
(* no mirrored value changes.                                              *)
OnlyCloses ==
  /\ RowsFramed(row')
  /\ \A f \in Families : row'[f].st = "active" => row[f].st = "active"
  /\ UNCHANGED known

LEMMA RevokeRowsCloses ==
  ASSUME TypeOK, NEW F \in SUBSET ActiveRows, NEW at, row' = RevokeRows(F, at), UNCHANGED known
  PROVE  OnlyCloses
<1>1. F \in SUBSET Families /\ \A f \in F : row[f].st # "absent"
  BY DEF ActiveRows
<1>2. RowsFramed(row')
  BY <1>1, RevokeRowsFrame
<1>3. \A f \in F : row[f].st = "active"
  BY DEF ActiveRows
<1>4. \A f \in Families : f \notin F => row'[f] = row[f]
  BY <1>1 DEF RevokeRows
<1> QED BY <1>2, <1>3, <1>4 DEF OnlyCloses

LEMMA SameRowsClose ==
  ASSUME UNCHANGED <<row, known>>
  PROVE  OnlyCloses
BY DEF OnlyCloses, RowsFramed

LEMMA MarkRowCloses ==
  ASSUME TypeOK, NEW r \in Requests, MarkRow(r)
  PROVE  OnlyCloses
<1> DEFINE f == req[r].fam
<1>1. f \in Families /\ clock \in Nat /\ row[f] \in RowRecords /\ UNCHANGED known
  BY DEF TypeOK, RequestRecords, MarkRow
<1>2. CASE UNCHANGED row
  BY <1>1, <1>2, SameRowsClose
<1>3. CASE row[f].st # "absent" /\ row' = RevokeRows({f}, clock)
  <2>1. RowsFramed(row')
    BY <1>1, <1>3, RevokeRowsFrame
  <2>2. row'[f].st = "revoked" /\ \A g \in Families : g # f => row'[g] = row[g]
    BY <1>1, <1>3 DEF RevokeRows, RowRecords
  <2> QED BY <1>1, <2>1, <2>2 DEF OnlyCloses
<1> QED BY <1>2, <1>3 DEF MarkRow

LEMMA EnvironmentCloses ==
  ASSUME TypeOK, Environment
  PROVE  OnlyCloses
<1>0. \A f \in Families : row[f] \in RowRecords
  BY DEF TypeOK
<1>1. ASSUME NEW F \in SUBSET Families, RevokeRowsOnly(F) PROVE OnlyCloses
  BY <1>1, RevokeRowsCloses DEF RevokeRowsOnly
<1>2. ASSUME NEW u \in Users, DeleteUser(u) PROVE OnlyCloses
  BY <1>0, <1>2 DEF DeleteUser, OnlyCloses, RowsFramed, RowRecords
<1>3. ASSUME NEW f \in Families, CleanupRow(f) PROVE OnlyCloses
  <2>1. ASSUME NEW g \in Families
        PROVE  row'[g] = IF g = f THEN [row[g] EXCEPT !.st = "deleted"] ELSE row[g]
    BY <1>3 DEF CleanupRow, TypeOK
  <2>2. row[f].st # "absent"
    BY <1>3 DEF CleanupRow, Terminal
  <2>3. UNCHANGED known
    BY <1>3 DEF CleanupRow
  <2> QED BY <1>0, <2>1, <2>2, <2>3 DEF OnlyCloses, RowsFramed, RowRecords
<1>4. ASSUME NEW s \in Sessions, CleanupSession(s) PROVE OnlyCloses
  BY <1>0, <1>4 DEF CleanupSession, OnlyCloses, RowsFramed, RowRecords
<1>5. ASSUME NEW s \in Sessions, NEW u \in Users, CreateSession(s, u) PROVE OnlyCloses
  BY <1>5, SameRowsClose DEF CreateSession
<1>6. CASE Tick
  BY <1>6, SameRowsClose DEF Tick
<1>7. ASSUME NEW f \in Families, Alarm(f) PROVE OnlyCloses
  BY <1>7, SameRowsClose DEF Alarm
<1> QED BY <1>1, <1>2, <1>3, <1>4, <1>5, <1>6, <1>7 DEF Environment

(* The three steps of a request that do more than close families.          *)
Opens(r) ==
  /\ req[r].pc = "insert" /\ row' = RowsAfterInsert(r) /\ UNCHANGED known
Exchanges(r) ==
  /\ req[r].pc = "commit" /\ row[req[r].fam].st = "active"
  /\ row' = RowsAfterCommit(r) /\ UNCHANGED known
Delivers(r) ==
  /\ req[r].pc \in {"issueMirror", "respond"}
  /\ known' = [known EXCEPT ![req[r].fam] = @ \cup {req[r].new}] /\ UNCHANGED row

LEMMA RequestSteps ==
  ASSUME TypeOK, NEW r \in Requests, Start(r) \/ Continue(r) \/ Fail(r)
  PROVE  OnlyCloses \/ Opens(r) \/ Exchanges(r) \/ Delivers(r)
<1>1. CASE Start(r)
  <2>1. CASE UNCHANGED <<row, known>>
    BY <2>1, SameRowsClose
  <2>2. CASE \E F \in SUBSET ActiveRows : row' = RevokeRows(F, clock) /\ UNCHANGED known
    BY <2>2, RevokeRowsCloses
  <2>3. ASSUME NEW s \in Sessions, RevokeSession(r, s) \/ RevokeOtherUserSessions(r, s)
        PROVE  \E F \in SUBSET ActiveRows : row' = RevokeRows(F, clock) /\ UNCHANGED known
    BY <2>3 DEF RevokeSession, RevokeOtherUserSessions, FamiliesOf
  <2>4. ASSUME NEW u \in Users, RevokeAllUserSessions(r, u) \/ SetDisabled(r, u)
        PROVE  \E F \in SUBSET ActiveRows : row' = RevokeRows(F, clock) /\ UNCHANGED known
    BY <2>4 DEF RevokeAllUserSessions, SetDisabled, FamiliesOf
  <2>5. ASSUME NEW u \in Users, NEW c \in Clients, RevokeApp(r, u, c)
        PROVE  \E F \in SUBSET ActiveRows : row' = RevokeRows(F, clock) /\ UNCHANGED known
    BY <2>5 DEF RevokeApp, FamiliesOf
  <2>6. ASSUME NEW f \in Families, RevokeDevice(r, f)
        PROVE  \E F \in SUBSET ActiveRows : row' = RevokeRows(F, clock) /\ UNCHANGED known
    BY <2>6 DEF RevokeDevice, ActiveRows
  <2> QED BY <1>1, <2>1, <2>2, <2>3, <2>4, <2>5, <2>6
          DEF Start, IssueInit, RevokeTokenLookup, RefreshLookup
<1>2. CASE Continue(r)
  <2>1. CASE UNCHANGED <<row, known>>
    BY <2>1, SameRowsClose
  <2>2. CASE IssueInsert(r)
    BY <2>1, <2>2 DEF IssueInsert, Opens
  <2>3. CASE IssueRespond(r)
    BY <2>3 DEF IssueRespond, Delivers
  <2>4. CASE RefreshRespond(r)
    BY <2>1, <2>4 DEF RefreshRespond, Delivers
  <2>5. CASE RefreshCommit(r)
    BY <2>1, <2>5 DEF RefreshCommit, RowsAfterCommit, Exchanges
  <2>6. CASE MarkRow(r)
    BY <2>6, MarkRowCloses
  <2> QED BY <1>2, <2>1, <2>2, <2>3, <2>4, <2>5, <2>6
          DEF Continue, RefreshPolicy, RefreshRotated, RefreshBurned, RefreshRefused, Burn,
              RevokeTokenObject, MirrorRevoke
<1>3. CASE Fail(r)
  <2>1. CASE UNCHANGED <<row, known>>
    BY <2>1, SameRowsClose
  <2>2. CASE IssueInsertError(r)
    BY <2>1, <2>2 DEF IssueInsertError, Opens
  <2>3. CASE RefreshCommitError(r)
    BY <2>1, <2>3 DEF RefreshCommitError, RowsAfterCommit, Exchanges
  <2> QED BY <1>3, <2>1, <2>2, <2>3 DEF Fail, Crash, MirrorFail
<1> QED BY <1>1, <1>2, <1>3

(* The exchange, in terms of the row alone.                                *)
LEMMA ExchangedRow ==
  ASSUME TypeOK, RotationInv, NEW r \in Requests, Exchanges(r)
  PROVE  LET f == req[r].fam
         IN  /\ f \in Families
             /\ \A g \in Families : g # f => row'[g] = row[g]
             /\ row'[f].st = row[f].st
             /\ row[f].hash \in known[f] /\ row'[f].hash \notin known[f]
             /\ row'[f].scope \subseteq row[f].scope /\ row'[f].gen >= row[f].gen
<1> DEFINE f == req[r].fam
<1>1. f \in Families /\ row[f] \in RowRecords /\ req[r] \in RequestRecords
  BY DEF TypeOK, RequestRecords
<1>2. /\ \A g \in Families : g # f => row'[g] = row[g]
      /\ row'[f].st = row[f].st /\ row'[f].hash = req[r].new
      /\ row'[f].scope = req[r].scope /\ row'[f].gen = req[r].gen
  BY <1>1 DEF Exchanges, RowsAfterCommit, TypeOK, RowRecords
<1>3. /\ row[f].hash \in known[f] /\ req[r].new \notin known[f]
      /\ req[r].scope \subseteq row[f].scope /\ req[r].gen >= row[f].gen
  BY DEF Exchanges, RotationInv, CarrierHolds, Carrying
<1> QED BY <1>1, <1>2, <1>3

LEMMA NarrowStep ==
  ASSUME TypeOK, RotationInv, Next, NEW f \in Families, row[f].st # "absent"
  PROVE  row'[f].scope \subseteq row[f].scope /\ row'[f].gen >= row[f].gen
<1>0. row[f] \in RowRecords
  BY DEF TypeOK
<1>1. CASE OnlyCloses
  BY <1>0, <1>1 DEF OnlyCloses, RowsFramed, RowRecords
<1>2. ASSUME NEW r \in Requests, Opens(r)
      PROVE  row'[f].scope \subseteq row[f].scope /\ row'[f].gen >= row[f].gen
  <2>1. row[req[r].fam].st = "absent"
    BY <1>2 DEF Opens, RotationInv, CarrierHolds, Carrying
  <2>2. row'[f].scope = row[f].scope /\ row'[f].gen = row[f].gen
    BY <1>2, <2>1, InsertedRows DEF Opens
  <2> QED BY <1>0, <2>2 DEF RowRecords
<1>3. ASSUME NEW r \in Requests, Exchanges(r)
      PROVE  row'[f].scope \subseteq row[f].scope /\ row'[f].gen >= row[f].gen
  BY <1>0, <1>3, ExchangedRow DEF RowRecords
<1>4. ASSUME NEW r \in Requests, Delivers(r)
      PROVE  row'[f].scope \subseteq row[f].scope /\ row'[f].gen >= row[f].gen
  BY <1>0, <1>4 DEF Delivers, RowRecords
<1> QED BY <1>1, <1>2, <1>3, <1>4, EnvironmentCloses, RequestSteps DEF Next

(* The mirrored scopes of a family only shrink and its generation only     *)
(* grows (UPDATE refresh_tokens in rotateRefreshToken), for any number of  *)
(* concurrent requests that read the row earlier.                          *)
THEOREM MirrorNarrows == Spec => MirrorOnlyNarrows
<1>1. /\ TypeOK /\ RotationInv /\ [Next]_vars
      => [\A f \in Families :
            row[f].st # "absent" =>
              row'[f].scope \subseteq row[f].scope /\ row'[f].gen >= row[f].gen]_vars
  BY NarrowStep
<1> QED BY <1>1, TypeCorrect, RotationIsSerial, PTL DEF Spec, MirrorOnlyNarrows

-----------------------------------------------------------------------------
(* The refinement.                                                         *)

LEMMA ChainStep ==
  ASSUME TypeOK, RotationInv, Next
  PROVE  [Chain!Next]_Chain!specVars
<1> DEFINE P(st) == IF st = "absent" THEN "none" ELSE IF st = "active" THEN "open" ELSE "closed"
<1>1. ASSUME OnlyCloses, NEW F \in SUBSET Families,
             F = {f \in Families : row[f].st = "active" /\ row'[f].st # "active"}
      PROVE  Chain!Next
  <2>1. \A f \in Families : P(row'[f].st) = IF f \in F THEN "closed" ELSE P(row[f].st)
    BY <1>1 DEF OnlyCloses, RowsFramed
  <2>2. [f \in Families |-> row'[f].hash] = [f \in Families |-> row[f].hash]
    BY <1>1 DEF OnlyCloses, RowsFramed
  <2>3. Chain!Close(F)
    BY <1>1, <2>1, <2>2 DEF Chain!Close, OnlyCloses
  <2> QED BY <2>3 DEF Chain!Next
<1>2. ASSUME NEW r \in Requests, Opens(r), NEW f \in Families, f = req[r].fam,
             NEW F \in SUBSET Families, F = Pruned(r)
      PROVE  Chain!Next
  <2>0. req[r].now \in Nat /\ \A g \in Families : row[g] \in RowRecords
    BY DEF TypeOK, RequestRecords
  <2>1. row[f].st = "absent" /\ row[f].hash = 0 /\ req[r].new = 0
    BY <1>2, <2>0 DEF Opens, RotationInv, CarrierHolds, TokensAreMinted, Carrying
  <2>2. \A g \in F : row[g].st = "active"
    BY <1>2 DEF Pruned, PruneCandidates, ActiveRows
  <2>3. /\ row'[f].hash = req[r].new
        /\ \A g \in Families \ {f} : row'[g].hash = row[g].hash
    BY <1>2, InsertedRows DEF Opens
  <2>4. \A g \in Families : P(row'[g].st) = IF g = f THEN "open"
                                            ELSE IF g \in F THEN "closed" ELSE P(row[g].st)
    <3>1. RevokeRows(F, req[r].now) \in [Families -> RowRecords]
      BY <1>2, <2>0, RevokeRowsType
    <3>2. row'[f].st = "active" /\ \A g \in Families : g # f =>
            row'[g] = IF g \in F THEN [row[g] EXCEPT !.st = "revoked", !.revokedAt = req[r].now]
                      ELSE row[g]
      BY <1>2, <2>0, <3>1 DEF Opens, RowsAfterInsert, RevokeRows
    <3> QED BY <2>0, <3>2 DEF RowRecords
  <2>5. [g \in Families |-> row'[g].hash] = [g \in Families |-> row[g].hash]
    BY <2>1, <2>3
  <2>6. Chain!Open(f, F)
    BY <1>2, <2>0, <2>1, <2>2, <2>4, <2>5 DEF Chain!Open, Opens
  <2> QED BY <2>6 DEF Chain!Next
<1>3. ASSUME NEW r \in Requests, Exchanges(r), NEW f \in Families, f = req[r].fam
      PROVE  Chain!Next
  <2>1. /\ row[f].st = "active"
        /\ \A g \in Families : g # f => row'[g] = row[g]
        /\ row'[f].st = row[f].st
        /\ row[f].hash \in known[f] /\ row'[f].hash \notin known[f]
    BY <1>3, ExchangedRow DEF Exchanges
  <2>2. \A g \in Families : row'[g].st = row[g].st
    BY <2>1
  <2>3. Chain!Exchange(f)
    BY <1>3, <2>1, <2>2 DEF Chain!Exchange, Exchanges
  <2> QED BY <2>3 DEF Chain!Next
<1>4. ASSUME NEW r \in Requests, Delivers(r), NEW f \in Families, f = req[r].fam
      PROVE  Chain!Next
  <2>2. row[f].st # "absent" /\ row[f].hash = req[r].new
    BY <1>4 DEF Delivers, RotationInv, CarrierHolds, Carrying
  <2>3. Chain!HandOut(f)
    BY <1>4, <2>2 DEF Chain!HandOut, Delivers
  <2> QED BY <2>3 DEF Chain!Next
<1>5. \A r \in Requests : req[r].fam \in Families /\ Pruned(r) \in SUBSET Families
  BY DEF TypeOK, RequestRecords, Pruned, PruneCandidates, ActiveRows
<1>6. OnlyCloses => Chain!Next
  BY <1>1
<1> QED BY <1>2, <1>3, <1>4, <1>5, <1>6, EnvironmentCloses, RequestSteps DEF Next

(* To the holder of its tokens a family is a linear chain that never forks *)
(* and never reopens: RefreshTokenFamilyDO, refresh_tokens and the         *)
(* handlers between them implement RefreshFamilySpec.                      *)
THEOREM Refinement == Spec => ImplementsChain
<1>1. Init => Chain!Init
  BY DEF Init, Chain!Init
<1>2. TypeOK /\ RotationInv /\ [Next]_vars => [Chain!Next]_Chain!specVars
  <2>1. ASSUME UNCHANGED vars PROVE UNCHANGED Chain!specVars
    BY <2>1 DEF vars, Chain!specVars
  <2> QED BY <2>1, ChainStep
<1> QED BY <1>1, <1>2, TypeCorrect, RotationIsSerial, PTL DEF Spec, ImplementsChain, Chain!Spec

-----------------------------------------------------------------------------
(* The cap on live families.                                               *)

(* "ORDER BY created_at, id" is a strict total order.                      *)
LEMMA OlderIsTotal ==
  ASSUME TypeOK
  PROVE  /\ \A g \in Families : ~OlderThan(g, g)
         /\ \A g, h \in Families : g # h => OlderThan(g, h) \/ OlderThan(h, g)
         /\ \A g, h, i \in Families : OlderThan(g, h) /\ OlderThan(h, i) => OlderThan(g, i)
<1>1. \A g \in Families : row[g].createdAt \in Nat /\ g \in Nat
  BY ConstantsAssumption DEF TypeOK, RowRecords
<1> QED BY <1>1 DEF OlderThan

(* How many of the families in S are older than g.                         *)
Rank(S, g) == Cardinality({h \in S : OlderThan(h, g)})

LEMMA RankType ==
  ASSUME TypeOK, NEW S \in SUBSET Families, NEW g \in S
  PROVE  /\ IsFiniteSet(S) /\ Cardinality(S) \in Nat
         /\ Rank(S, g) \in Nat /\ Rank(S, g) < Cardinality(S)
<1> DEFINE T == {h \in S : OlderThan(h, g)}
<1>1. IsFiniteSet(S) /\ Cardinality(S) \in Nat
  BY ConstantsAssumption, FS_Subset, FS_CardinalityType
<1>2. T \in SUBSET S /\ g \notin T /\ g \in S
  BY OlderIsTotal
<1> HIDE DEF T
<1>3. IsFiniteSet(T) /\ Cardinality(T) <= Cardinality(S) /\ (Cardinality(S) = Cardinality(T) => S = T)
  BY <1>1, <1>2, FS_Subset
<1>4. Cardinality(T) \in Nat
  BY <1>3, FS_CardinalityType
<1>5. Cardinality(T) < Cardinality(S)
  BY <1>1, <1>2, <1>3, <1>4
<1> QED BY <1>1, <1>4, <1>5 DEF Rank, T

LEMMA RanksDiffer ==
  ASSUME TypeOK, NEW S \in SUBSET Families, NEW g \in S, NEW h \in S, g # h
  PROVE  Rank(S, g) # Rank(S, h)
<1>1. ASSUME NEW x \in S, NEW y \in S, OlderThan(x, y)
      PROVE  Rank(S, x) # Rank(S, y)
  <2> DEFINE X == {i \in S : OlderThan(i, x)}
             Y == {i \in S : OlderThan(i, y)}
  <2>1. x \in Families /\ y \in Families /\ S \subseteq Families
    OBVIOUS
  <2>2. X \in SUBSET Y /\ x \in Y /\ x \notin X /\ Y \in SUBSET S
    BY <1>1, <2>1, OlderIsTotal
  <2> HIDE DEF X, Y
  <2>3. IsFiniteSet(S)
    BY RankType
  <2>4. IsFiniteSet(Y)
    BY <2>2, <2>3, FS_Subset
  <2>5. Cardinality(Y) = Cardinality(X) => Y = X
    BY <2>2, <2>4, FS_Subset
  <2>6. Cardinality(Y) # Cardinality(X)
    BY <2>2, <2>5
  <2> QED BY <2>6 DEF Rank, X, Y
<1>2. OlderThan(g, h) \/ OlderThan(h, g)
  BY OlderIsTotal
<1> QED BY <1>1, <1>2

(* Of the candidates, LIMIT max(count - maximum, 0) leaves room for the     *)
(* family that is being inserted.                                          *)
LEMMA PruningLeavesRoom ==
  ASSUME TypeOK, NEW r \in Requests
  PROVE  LET kept == PruneCandidates(r) \ Pruned(r)
         IN  IsFiniteSet(kept) /\ Cardinality(kept) < MaximumActiveFamilies
<1> DEFINE S == PruneCandidates(r)
           n == Cardinality(S)
           k == n + 1 - MaximumActiveFamilies
           kept == S \ Pruned(r)
<1>1. S \in SUBSET Families /\ IsFiniteSet(S) /\ n \in Nat /\ MaximumActiveFamilies \in Nat \ {0}
  <2>1. S \in SUBSET Families
    BY DEF PruneCandidates, ActiveRows
  <2>2. IsFiniteSet(S)
    BY <2>1, ConstantsAssumption, FS_Subset
  <2> QED BY <2>1, <2>2, ConstantsAssumption, FS_CardinalityType
<1>2. kept = {g \in S : ~(Rank(S, g) < k)}
  BY DEF Pruned, Rank
<1> HIDE DEF S, kept
<1>3. IsFiniteSet(kept) /\ Cardinality(kept) <= n
  <2>1. kept \in SUBSET S
    BY <1>2
  <2> QED BY <1>1, <2>1, FS_Subset
<1>4. CASE k <= 0
  <2>1. Cardinality(kept) \in Nat
    BY <1>3, FS_CardinalityType
  <2> QED BY <1>1, <1>3, <1>4, <2>1 DEF kept, S
<1>5. CASE k > 0
  <2> DEFINE T == k..(n - 1)
             m == [g \in kept |-> Rank(S, g)]
  <2>1. ASSUME NEW g \in kept PROVE Rank(S, g) \in T
    <3>1. g \in S /\ ~(Rank(S, g) < k)
      BY <1>2, <2>1
    <3>2. Rank(S, g) \in Nat /\ Rank(S, g) < n
      BY <1>1, <3>1, RankType
    <3> QED BY <1>1, <3>1, <3>2
  <2>2. \A g, h \in kept : g # h => Rank(S, g) # Rank(S, h)
    BY <1>1, <1>2, RanksDiffer
  <2>3. m \in Injection(kept, T)
    BY <2>1, <2>2 DEF Injection, IsInjective
  <2>4. IsFiniteSet(T) /\ Cardinality(T) = (IF k > n - 1 THEN 0 ELSE n - 1 - k + 1)
    <3>1. \A a, b \in Int : IsFiniteSet(a..b) /\ Cardinality(a..b) = IF a > b THEN 0 ELSE b - a + 1
      BY FS_Interval
    <3>2. k \in Int /\ n - 1 \in Int
      BY <1>1
    <3> HIDE DEF k, n
    <3> QED BY <3>1, <3>2
  <2> HIDE DEF m, T
  <2>5. Cardinality(kept) <= Cardinality(T)
    BY <2>3, <2>4, FS_Injection
  <2>6. Cardinality(kept) \in Nat
    BY <1>3, FS_CardinalityType
  <2>7. Cardinality(kept) < MaximumActiveFamilies
    BY <1>1, <1>5, <2>4, <2>5, <2>6
  <2> QED BY <1>3, <2>7 DEF kept, S
<1>6. k \in Int
  BY <1>1
<1> QED BY <1>4, <1>5, <1>6

(* The time a request has read is not in the future, and the clock does     *)
(* not run backwards.                                                      *)
NowInv == \A q \in Requests : req[q].now <= clock

KeepsNow == \A q \in Requests : req'[q].now \in {req[q].now, 0, clock}

LEMMA FinishNow ==
  ASSUME TypeOK, NEW r \in Requests, NEW p, req' = [req EXCEPT ![r] = p], p.now \in {0, clock}
  PROVE  KeepsNow
BY DEF TypeOK, KeepsNow

LEMMA NoRequestNow == NoRequest.now = 0
BY DEF NoRequest

LEMMA StartNow ==
  ASSUME TypeOK, NEW r \in Requests, Start(r)
  PROVE  KeepsNow /\ UNCHANGED clock
<1>1. UNCHANGED clock
  BY DEF Start, IssueInit, RevokeTokenLookup, RefreshLookup, RevokeSession, RevokeOtherUserSessions,
         RevokeAllUserSessions, SetDisabled, RevokeApp, RevokeDevice
<1>2. ASSUME NEW f \in Families, NEW u \in Users, NEW c \in Clients, NEW s \in SessionIds,
             NEW sc \in SUBSET Scopes, IssueInit(r, f, u, c, s, sc)
      PROVE  KeepsNow
  <2> DEFINE p == [NoRequest EXCEPT !.pc = "insert", !.fam = f, !.new = 0, !.scope = sc,
                                    !.user = u, !.client = c, !.session = s, !.now = clock]
  <2>1. req' = [req EXCEPT ![r] = p] /\ p.now = clock
    BY <1>2, NoRequestType DEF IssueInit, RequestRecords
  <2> HIDE DEF p
  <2> QED BY <2>1, FinishNow
<1>3. ASSUME NEW f \in Families, NEW c \in Clients, RevokeTokenLookup(r, f, c) PROVE KeepsNow
  <2> DEFINE p == [NoRequest EXCEPT !.pc = "revokeObject", !.fam = f]
  <2>1. req' = [req EXCEPT ![r] = p] /\ p.now = 0
    BY <1>3, NoRequestType, NoRequestNow DEF RevokeTokenLookup, RequestRecords
  <2> HIDE DEF p
  <2> QED BY <2>1, FinishNow
<1>4. ASSUME NEW f \in Families, NEW c \in Clients, NEW t, NEW sc, RefreshLookup(r, f, t, c, sc) PROVE KeepsNow
  <2> DEFINE p == [NoRequest EXCEPT !.pc = "policy", !.fam = f, !.tok = t, !.scope = sc, !.client = c,
                                    !.user = row[f].user, !.session = row[f].session]
  <2>1. req' = [req EXCEPT ![r] = p] /\ p.now = 0
    BY <1>4, NoRequestType, NoRequestNow DEF RefreshLookup, RequestRecords
  <2> HIDE DEF p
  <2> QED BY <2>1, FinishNow
<1>5. ASSUME NEW F, StartMirror(r, F) PROVE KeepsNow
  <2> DEFINE p == [NoRequest EXCEPT !.pc = "mirror", !.pending = F]
  <2>1. p.now = 0
    BY NoRequestType, NoRequestNow DEF RequestRecords
  <2>2. req' = [req EXCEPT ![r] = IF F = {} THEN NoRequest ELSE p]
    BY <1>5 DEF StartMirror
  <2> HIDE DEF p
  <2> QED BY <2>1, <2>2, NoRequestNow, FinishNow
<1>6. ASSUME \/ \E s \in Sessions : RevokeSession(r, s) \/ RevokeOtherUserSessions(r, s)
             \/ \E u \in Users : RevokeAllUserSessions(r, u) \/ SetDisabled(r, u)
             \/ \E u \in Users, c \in Clients : RevokeApp(r, u, c)
             \/ \E f \in Families : RevokeDevice(r, f)
      PROVE  KeepsNow
  BY <1>5, <1>6 DEF RevokeSession, RevokeOtherUserSessions, RevokeAllUserSessions, SetDisabled, RevokeApp, RevokeDevice
<1>7. KeepsNow
  BY <1>2, <1>3, <1>4, <1>6 DEF Start
<1> QED BY <1>1, <1>7

LEMMA ContinueNow ==
  ASSUME TypeOK, NEW r \in Requests, Continue(r) \/ Fail(r)
  PROVE  KeepsNow /\ UNCHANGED clock
<1>1. UNCHANGED clock
  BY DEF Continue, IssueInsert, IssueRespond, RefreshPolicy, RefreshRotated, RefreshBurned, RefreshRefused, RefreshCommit,
         RefreshRespond, Burn, MarkRow, RevokeTokenObject, MirrorRevoke, Fail, IssueInsertError, RefreshCommitError,
         Crash, MirrorFail
<1>2. \A q \in Requests : req[q] \in RequestRecords
  BY DEF TypeOK
<1>3. ASSUME Finish(r) PROVE KeepsNow
  BY <1>3, NoRequestNow, FinishNow DEF Finish
<1>4. ASSUME NEW pc, Goto(r, pc) PROVE KeepsNow
  <2>1. \A q \in Requests : req'[q] = IF q = r THEN [req[q] EXCEPT !.pc = pc] ELSE req[q]
    BY <1>4 DEF Goto, TypeOK
  <2> QED BY <1>2, <2>1 DEF KeepsNow, RequestRecords
<1>5. ASSUME NEW g, req' = [req EXCEPT ![r].pending = @ \ {g}] PROVE KeepsNow
  <2>1. \A q \in Requests : req'[q] = IF q = r THEN [req[q] EXCEPT !.pending = @ \ {g}] ELSE req[q]
    BY <1>5 DEF TypeOK
  <2> QED BY <1>2, <2>1 DEF KeepsNow, RequestRecords
<1>6. ASSUME IssueInsert(r) PROVE KeepsNow
  <2>1. CASE Goto(r, "burn")
    BY <1>4, <2>1
  <2>2. CASE req' = [req EXCEPT ![r].pc = "issueMirror", ![r].pending = Pruned(r)]
    <3>1. \A q \in Requests :
            req'[q] = IF q = r THEN [req[q] EXCEPT !.pc = "issueMirror", !.pending = Pruned(r)] ELSE req[q]
      BY <2>2 DEF TypeOK
    <3> QED BY <1>2, <3>1 DEF KeepsNow, RequestRecords
  <2> QED BY <1>6, <2>1, <2>2 DEF IssueInsert
<1>7. ASSUME RefreshRotated(r) PROVE KeepsNow
  <2> DEFINE f == req[r].fam
  <2>1. \A q \in Requests :
          req'[q] = IF q = r THEN [req[q] EXCEPT !.pc = "commit", !.new = minted[f], !.gen = family[f].generation + 1]
                    ELSE req[q]
    BY <1>7 DEF RefreshRotated, TypeOK
  <2> QED BY <1>2, <2>1 DEF KeepsNow, RequestRecords
<1>8. ASSUME \/ IssueRespond(r) \/ RefreshPolicy(r) \/ RefreshBurned(r) \/ RefreshRefused(r) \/ RefreshCommit(r)
             \/ RefreshRespond(r) \/ Burn(r) \/ MarkRow(r) \/ RevokeTokenObject(r)
             \/ IssueInsertError(r) \/ RefreshCommitError(r) \/ Crash(r)
      PROVE  KeepsNow
  BY <1>3, <1>4, <1>8 DEF IssueRespond, RefreshPolicy, RefreshBurned, RefreshRefused, RefreshCommit, RefreshRespond, Burn,
     MarkRow, RevokeTokenObject, IssueInsertError, RefreshCommitError, Crash
<1>9. ASSUME NEW g \in Families, MirrorRevoke(r, g) \/ MirrorFail(r, g) PROVE KeepsNow
  BY <1>3, <1>5, <1>9 DEF MirrorRevoke, MirrorFail
<1>10. KeepsNow
  BY <1>6, <1>7, <1>8, <1>9 DEF Continue, Fail
<1> QED BY <1>1, <1>10

LEMMA NowStep ==
  ASSUME TypeOK, NowInv, Next
  PROVE  NowInv' /\ clock' >= clock
<1>1. clock \in Nat /\ \A q \in Requests : req[q].now \in Nat
  BY DEF TypeOK, RequestRecords
<1>2. CASE Environment
  <2>1. UNCHANGED req /\ (UNCHANGED clock \/ clock' = clock + 1)
    BY <1>2 DEF Environment, RevokeRowsOnly, CreateSession, DeleteUser, Tick, Alarm, CleanupRow, CleanupSession
  <2> QED BY <1>1, <2>1 DEF NowInv
<1>3. ASSUME KeepsNow, UNCHANGED clock PROVE NowInv' /\ clock' >= clock
  BY <1>1, <1>3 DEF NowInv, KeepsNow
<1> QED BY <1>2, <1>3, StartNow, ContinueNow DEF Next

(* The live families of a user at a client.                                *)
Live(u, c) == {f \in ActiveRows : row[f].user = u /\ row[f].client = c /\ row[f].expiresAt > clock}

LEMMA FewerLive ==
  ASSUME TypeOK, FamilyCap, NEW u \in Users, NEW c \in Clients, Live(u, c)' \subseteq Live(u, c)
  PROVE  Cardinality(Live(u, c)') <= MaximumActiveFamilies
<1>1. Live(u, c) \in SUBSET Families /\ Live(u, c)' \in SUBSET Live(u, c)
  BY DEF Live, ActiveRows
<1>2. IsFiniteSet(Live(u, c)) /\ Cardinality(Live(u, c)) \in Nat
  BY <1>1, ConstantsAssumption, FS_Subset, FS_CardinalityType
<1>3. IsFiniteSet(Live(u, c)') /\ Cardinality(Live(u, c)') <= Cardinality(Live(u, c))
  BY <1>1, <1>2, FS_Subset
<1>4. Cardinality(Live(u, c)') \in Nat
  BY <1>3, FS_CardinalityType
<1>5. Cardinality(Live(u, c)) <= MaximumActiveFamilies
  BY DEF FamilyCap, Live
<1> QED BY <1>2, <1>3, <1>4, <1>5, ConstantsAssumption

(* The batch of an issuance prunes and inserts at once.                    *)
LEMMA OpensCapped ==
  ASSUME TypeOK, RotationInv, NowInv, FamilyCap, clock' >= clock, clock' \in Nat, NEW r \in Requests, Opens(r),
         NEW u \in Users, NEW c \in Clients
  PROVE  Cardinality(Live(u, c)') <= MaximumActiveFamilies
<1> DEFINE f == req[r].fam
           kept == PruneCandidates(r) \ Pruned(r)
           old == RevokeRows(Pruned(r), req[r].now)
<1>1. f \in Families /\ req[r].now \in Nat /\ clock \in Nat /\ req[r].now <= clock
  BY DEF TypeOK, RequestRecords, NowInv
<1>2. old \in [Families -> RowRecords]
  BY <1>1, RevokeRowsType
<1>3. RowsFramed(old)
  <2>1. Pruned(r) \in SUBSET Families /\ \A g \in Pruned(r) : row[g].st = "active"
    BY DEF Pruned, PruneCandidates, ActiveRows
  <2> QED BY <1>1, <2>1, RevokeRowsFrame
<1>4. row'[f].user = req[r].user /\ row'[f].client = req[r].client /\ \A g \in Families : g # f => row'[g] = old[g]
  BY <1>1, <1>2 DEF Opens, RowsAfterInsert
<1>5. ASSUME NEW g \in Families, g # f, g \in Live(u, c)'
      PROVE  g \in Live(u, c) /\ g \notin Pruned(r)
  <2>1. row'[g] = old[g] /\ old[g].st = "active" /\ row'[g].user = u /\ row'[g].client = c /\ row'[g].expiresAt > clock'
    BY <1>4, <1>5 DEF Live, ActiveRows
  <2>2. row[g].st = "active" /\ g \notin Pruned(r)
    BY <2>1, RevokeRowsShrink
  <2>3. row[g].user = u /\ row[g].client = c /\ row[g].expiresAt = row'[g].expiresAt /\ row[g].expiresAt \in Nat
    BY <1>3, <2>1 DEF RowsFramed, TypeOK, RowRecords
  <2> QED BY <1>1, <2>1, <2>2, <2>3 DEF Live, ActiveRows
<1>6. CASE u = req[r].user /\ c = req[r].client
  <2> HIDE DEF old
  <2>1. ASSUME NEW g \in Live(u, c)', g # f PROVE g \in kept
    <3>1. g \in Families
      BY DEF Live, ActiveRows
    <3>2. g \in Live(u, c) /\ g \notin Pruned(r)
      BY <1>5, <2>1, <3>1
    <3>3. row[g].expiresAt \in Nat
      BY <3>1 DEF TypeOK, RowRecords
    <3> QED BY <1>1, <1>6, <2>1, <3>2, <3>3 DEF Live, PruneCandidates
  <2>2. IsFiniteSet(kept) /\ Cardinality(kept) < MaximumActiveFamilies
    BY PruningLeavesRoom
  <2>3. f \notin kept
    BY DEF PruneCandidates
  <2> HIDE DEF kept
  <2>4. IsFiniteSet(kept \cup {f}) /\ Cardinality(kept \cup {f}) = Cardinality(kept) + 1
    BY <2>2, <2>3, FS_AddElement
  <2>5. Live(u, c)' \in SUBSET (kept \cup {f})
    BY <2>1
  <2>6. IsFiniteSet(Live(u, c)') /\ Cardinality(Live(u, c)') <= Cardinality(kept \cup {f})
    BY <2>4, <2>5, FS_Subset
  <2>7. Cardinality(Live(u, c)') \in Nat /\ Cardinality(kept) \in Nat
    BY <2>2, <2>6, FS_CardinalityType
  <2> QED BY <2>2, <2>4, <2>6, <2>7, ConstantsAssumption
<1>7. CASE ~(u = req[r].user /\ c = req[r].client)
  <2>1. f \notin Live(u, c)'
    BY <1>4, <1>7 DEF Live
  <2>2. Live(u, c)' \subseteq Families
    BY DEF Live, ActiveRows
  <2>3. Live(u, c)' \subseteq Live(u, c)
    BY <1>5, <2>1, <2>2
  <2> QED BY <2>3, FewerLive
<1> QED BY <1>6, <1>7

LEMMA CapStep ==
  ASSUME TypeOK, TypeOK', RotationInv, NowInv, FamilyCap, Next
  PROVE  FamilyCap'
<1> SUFFICES ASSUME NEW u \in Users, NEW c \in Clients
             PROVE  Cardinality(Live(u, c)') <= MaximumActiveFamilies
  BY DEF FamilyCap, Live
<1>1. clock \in Nat /\ clock' \in Nat /\ clock' >= clock /\ \A f \in Families : row[f] \in RowRecords
  BY NowStep DEF TypeOK
<1>2. ASSUME \A f \in Families : row'[f].st = "active" =>
               /\ row[f].st = "active" /\ row'[f].user = row[f].user /\ row'[f].client = row[f].client
               /\ row'[f].expiresAt = row[f].expiresAt
      PROVE  Cardinality(Live(u, c)') <= MaximumActiveFamilies
  <2>1. \A f \in Families : row[f].expiresAt \in Nat
    BY <1>1 DEF RowRecords
  <2>2. Live(u, c)' \subseteq Live(u, c)
    BY <1>1, <1>2, <2>1 DEF Live, ActiveRows
  <2> QED BY <2>2, FewerLive
<1>3. CASE OnlyCloses
  BY <1>2, <1>3 DEF OnlyCloses, RowsFramed
<1>4. ASSUME NEW r \in Requests, Opens(r) PROVE Cardinality(Live(u, c)') <= MaximumActiveFamilies
  BY <1>1, <1>4, OpensCapped
<1>5. ASSUME NEW r \in Requests, Exchanges(r) PROVE Cardinality(Live(u, c)') <= MaximumActiveFamilies
  <2>1. req[r].fam \in Families
    BY DEF TypeOK, RequestRecords
  <2>2. \A f \in Families : row'[f].st = row[f].st /\ row'[f].user = row[f].user /\ row'[f].client = row[f].client
                            /\ row'[f].expiresAt = row[f].expiresAt
    <3> DEFINE committed == [row[req[r].fam] EXCEPT !.hash = req[r].new, !.scope = req[r].scope,
                                                    !.gen = req[r].gen]
    <3>1. \A f \in Families : row[f] \in RowRecords
      BY <1>1
    <3>2. /\ committed.st = row[req[r].fam].st /\ committed.user = row[req[r].fam].user
          /\ committed.client = row[req[r].fam].client
          /\ committed.expiresAt = row[req[r].fam].expiresAt
      BY <2>1, <3>1 DEF RowRecords
    <3>3. \A f \in Families : row'[f] = IF f = req[r].fam THEN committed ELSE row[f]
      BY <1>1, <1>5, <2>1 DEF Exchanges, RowsAfterCommit, TypeOK
    <3> HIDE DEF committed
    <3> QED BY <3>2, <3>3
  <2> QED BY <1>2, <2>2
<1>6. ASSUME NEW r \in Requests, Delivers(r) PROVE Cardinality(Live(u, c)') <= MaximumActiveFamilies
  BY <1>2, <1>6 DEF Delivers
<1> QED BY <1>3, <1>4, <1>5, <1>6, EnvironmentCloses, RequestSteps DEF Next

(* A user never has more live families at a client than                     *)
(* maximumActiveFamiliesPerUserClient (the pruning statement of             *)
(* issueRefreshToken), for any number of concurrent issuances.              *)
THEOREM FamiliesAreCapped == Spec => []FamilyCap
<1>1. Init => NowInv /\ FamilyCap
  <2> SUFFICES ASSUME Init PROVE NowInv /\ FamilyCap
    OBVIOUS
  <2>1. NowInv
    BY NoRequestNow DEF Init, NowInv
  <2>2. ASSUME NEW u \in Users, NEW c \in Clients PROVE Cardinality(Live(u, c)) <= MaximumActiveFamilies
    <3>1. Live(u, c) = {}
      BY DEF Init, Live, ActiveRows
    <3> QED BY <3>1, FS_EmptySet, ConstantsAssumption
  <2>3. FamilyCap
    BY <2>2 DEF FamilyCap, Live
  <2> QED BY <2>1, <2>3
<1>2. TypeOK /\ TypeOK' /\ RotationInv /\ NowInv /\ FamilyCap /\ [Next]_vars => NowInv' /\ FamilyCap'
  <2> SUFFICES ASSUME TypeOK, TypeOK', RotationInv, NowInv, FamilyCap, [Next]_vars PROVE NowInv' /\ FamilyCap'
    OBVIOUS
  <2>1. CASE Next
    BY <2>1, NowStep, CapStep
  <2>2. CASE UNCHANGED vars
    BY <2>2 DEF vars, NowInv, FamilyCap, ActiveRows
  <2> QED BY <2>1, <2>2
<1> QED BY <1>1, <1>2, TypeCorrect, RotationIsSerial, PTL DEF Spec
=============================================================================
