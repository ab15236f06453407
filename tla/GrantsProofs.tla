---------------------------- MODULE GrantsProofs ----------------------------
(***************************************************************************)
(* Proofs about Grants for every number of codes, devices, users, clients,  *)
(* sessions, scopes and concurrent requests, and every bound.               *)
(***************************************************************************)
EXTENDS Grants, FiniteSetTheorems, TLAPS

-----------------------------------------------------------------------------
(* Type correctness.                                                       *)

LEMMA NoRequestType == NoRequest \in RequestRecords
<1>1. /\ AnyOf(Sources) \in Sources /\ AnyOf(Clients) \in Clients /\ AnyOf(Users) \in Users
      /\ AnyOf(Sessions) \in Sessions /\ AnyOf(Issues) \in Issues
  BY ConstantsAssumption DEF AnyOf, Sources
<1> QED BY <1>1 DEF NoRequest, RequestRecords, Pcs

LEMMA FinishType ==
  ASSUME TypeOK, NEW r \in Requests, Finish(r)
  PROVE  req' \in [Requests -> RequestRecords]
BY NoRequestType DEF TypeOK, Finish

LEMMA GotoType ==
  ASSUME TypeOK, NEW r \in Requests, NEW pc \in Pcs, Goto(r, pc)
  PROVE  req' \in [Requests -> RequestRecords]
<1>1. [req[r] EXCEPT !.pc = pc] \in RequestRecords
  BY DEF TypeOK, RequestRecords
<1> QED BY <1>1 DEF TypeOK, Goto

LEMMA ClosingType ==
  ASSUME TypeOK, NEW I
  PROVE  Closing(I) \in [Issues -> IssueRecords]
<1> SUFFICES ASSUME NEW i \in Issues
             PROVE  [issue[i] EXCEPT !.st = "closed"] \in IssueRecords
  BY DEF TypeOK, Closing
<1> QED BY DEF TypeOK, IssueRecords

LEMMA RevokeGrantType ==
  ASSUME NEW x \in IssueRecords
  PROVE  RevokeGrant(x) \in IssueRecords
BY DEF RevokeGrant, IssueRecords

LEMMA DeviceStatusType ==
  ASSUME TypeOK, NEW d \in Devices,
         NEW st \in {"approved", "denied", "expired", "consumed"}
  PROVE  [device[d] EXCEPT !.st = st] \in DeviceRecords
BY DEF TypeOK, DeviceRecords

LEMMA InitTyped == Init => TypeOK
<1> SUFFICES ASSUME Init PROVE TypeOK
  OBVIOUS
<1>1. /\ AnyOf(Clients) \in Clients /\ AnyOf(Users) \in Users /\ AnyOf(Sessions) \in Sessions
      /\ AnyOf(Sources) \in Sources /\ PollInterval \in Nat
  BY ConstantsAssumption DEF AnyOf, Sources
<1>2. code \in [Codes -> CodeRecords]
  BY <1>1 DEF Init, CodeRecords
<1>3. device \in [Devices -> DeviceRecords]
  BY <1>1 DEF Init, DeviceRecords
<1>4. issue \in [Issues -> IssueRecords]
  BY <1>1 DEF Init, IssueRecords
<1>5. req \in [Requests -> RequestRecords]
  BY NoRequestType DEF Init
<1> QED BY <1>2, <1>3, <1>4, <1>5 DEF Init, TypeOK

LEMMA StartTyped ==
  ASSUME TypeOK, NEW r \in Requests, Start(r)
  PROVE  TypeOK'
<1>n. NoRequest \in RequestRecords
  BY NoRequestType
<1>1. ASSUME NEW c \in Clients, NEW s \in Sessions, NEW sc \in Bundles,
             AuthorizeStart(r, c, s, sc) \/ DecisionStart(r, c, s, sc)
      PROVE  TypeOK'
  <2>1. PICK pc \in {"consent", "save"} :
          req' = [req EXCEPT ![r] = [NoRequest EXCEPT
            !.pc = pc, !.client = c, !.session = s, !.user = OwnerOf[s], !.scope = sc]]
    BY <1>1 DEF AuthorizeStart, DecisionStart
  <2>2. [NoRequest EXCEPT !.pc = pc, !.client = c, !.session = s, !.user = OwnerOf[s],
                          !.scope = sc] \in RequestRecords
    BY <1>n, ConstantsAssumption DEF RequestRecords, Pcs, Bundles
  <2> QED BY <1>1, <2>1, <2>2 DEF TypeOK, AuthorizeStart, DecisionStart
<1>2. ASSUME NEW k \in Codes, NEW c \in Clients, ExchangeCode(r, k, c)
      PROVE  TypeOK'
  <2>1. code[k] \in CodeRecords
    BY DEF TypeOK
  <2>2. [NoRequest EXCEPT !.pc = "check", !.src = k, !.client = c, !.session = code[k].session,
          !.user = code[k].user, !.scope = code[k].scope, !.todo = Checks] \in RequestRecords
    BY <1>n, <2>1 DEF RequestRecords, Pcs, CodeRecords, Sources
  <2>3. [code[k] EXCEPT !.st = "consumed"] \in CodeRecords
    BY <2>1 DEF CodeRecords
  <2> QED BY <1>2, <2>2, <2>3 DEF TypeOK, ExchangeCode, Consumed
<1>3. ASSUME NEW d \in Devices, NEW c \in Clients, PollStart(r, d, c)
      PROVE  TypeOK'
  <2>1. device[d] \in DeviceRecords
    BY DEF TypeOK
  <2>2. PICK pc \in {"expire", "slow", "poll"} :
          req' = [req EXCEPT ![r] = [NoRequest EXCEPT !.pc = pc,
            !.src = d, !.client = c, !.session = device[d].session, !.user = device[d].user,
            !.scope = device[d].scope, !.ready = device[d].st = "approved"]]
    BY <1>3 DEF PollStart
  <2>3. (device[d].st = "approved") \in BOOLEAN
    OBVIOUS
  <2>4. [NoRequest EXCEPT !.pc = pc,
          !.src = d, !.client = c, !.session = device[d].session, !.user = device[d].user,
          !.scope = device[d].scope, !.ready = device[d].st = "approved"] \in RequestRecords
    BY <1>n, <2>1, <2>3 DEF RequestRecords, Pcs, DeviceRecords, Sources
  <2> QED BY <1>3, <2>2, <2>4 DEF TypeOK, PollStart
<1>4. ASSUME NEW d \in Devices, NEW s \in Sessions, NEW pc \in {"approve", "deny"},
             DecideStart(r, d, s, pc)
      PROVE  TypeOK'
  <2>1. device[d] \in DeviceRecords
    BY DEF TypeOK
  <2>2. [NoRequest EXCEPT !.pc = pc, !.src = d, !.client = device[d].client, !.session = s,
          !.user = OwnerOf[s], !.scope = device[d].scope] \in RequestRecords
    BY <1>n, <2>1, ConstantsAssumption DEF RequestRecords, Pcs, DeviceRecords, Sources
  <2> QED BY <1>4, <2>2 DEF TypeOK, DecideStart
<1>5. ASSUME NEW u \in Users, NEW c \in Clients, RevokeConsent(r, u, c)
      PROVE  TypeOK'
  <2>1. [NoRequest EXCEPT !.pc = "families", !.user = u, !.client = c] \in RequestRecords
    BY <1>n DEF RequestRecords, Pcs
  <2> QED BY <1>5, <2>1 DEF TypeOK, RevokeConsent
<1> QED BY <1>1, <1>2, <1>3, <1>4, <1>5 DEF Start

(* The steps of handlers under way, one by one.                            *)
LEMMA ContinueTyped ==
  ASSUME TypeOK, NEW r \in Requests, Continue(r)
  PROVE  TypeOK'
<1>q. req[r] \in RequestRecords /\ req \in [Requests -> RequestRecords]
  BY DEF TypeOK
<1>f. Finish(r) => req' \in [Requests -> RequestRecords]
  BY FinishType
<1>g. \A pc \in Pcs : Goto(r, pc) => req' \in [Requests -> RequestRecords]
  BY GotoType
<1>1. CASE AuthorizeConsent(r)
  BY <1>1, <1>f, <1>g DEF AuthorizeConsent, TypeOK, Pcs
<1>2. CASE SaveConsent(r)
  <2>1. consent' \in [Users \X Clients -> SUBSET Scopes]
    BY <1>2, <1>q DEF SaveConsent, TypeOK, RequestRecords
  <2> QED BY <1>2, <1>g, <2>1 DEF SaveConsent, TypeOK, Pcs
<1>3. ASSUME NEW k \in Codes, StoreCode(r, k) PROVE TypeOK'
  <2>1. [st |-> "live", client |-> req[r].client, user |-> req[r].user,
         session |-> req[r].session, scope |-> req[r].scope, expiresAt |-> clock + CodeTtl]
          \in CodeRecords
    BY <1>q, ConstantsAssumption DEF TypeOK, CodeRecords, RequestRecords
  <2> QED BY <1>3, <1>f, <2>1 DEF StoreCode, TypeOK
<1>4. ASSUME NEW x \in Checks, NEW pc \in Pcs,
             req' = [req EXCEPT ![r].todo = @ \ {x}, ![r].pc = pc],
             UNCHANGED <<clock, enabled, live, api, consent, code, device, issue, faults>>
      PROVE TypeOK'
  <2>1. [req[r] EXCEPT !.todo = @ \ {x}, !.pc = pc] \in RequestRecords
    BY <1>q DEF RequestRecords
  <2>2. req' = [req EXCEPT ![r] = [req[r] EXCEPT !.todo = @ \ {x}, !.pc = pc]]
    BY <1>q, <1>4
  <2> QED BY <1>4, <2>1, <2>2, <1>q DEF TypeOK
<1>5. ASSUME NEW x \in Checks, Check(r, x) PROVE TypeOK'
  <2>1. Checked(r) \in Pcs /\ req[r].pc \in Pcs
    BY <1>q DEF Checked, Pcs, RequestRecords
  <2>2. CASE Finish(r)
    BY <1>5, <2>2, <1>f DEF Check, TypeOK
  <2>3. CASE ~Finish(r)
    <3> DEFINE pc == IF req[r].todo = {x} THEN Checked(r) ELSE req[r].pc
    <3>1. req' = [req EXCEPT ![r].todo = @ \ {x}, ![r].pc = pc] /\ pc \in Pcs
      BY <1>5, <2>1, <2>3, <1>q DEF Check
    <3> QED BY <1>5, <3>1, <1>4 DEF Check
  <2> QED BY <2>2, <2>3
<1>6. ASSUME NEW x \in Checks, Recheck(r, x) PROVE TypeOK'
  <2>1. req[r].pc \in Pcs /\ "record" \in Pcs /\ "undo" \in Pcs
    BY <1>q DEF Pcs, RequestRecords
  <2>2. CASE Goto(r, "undo")
    BY <1>6, <2>1, <2>2, <1>g DEF Recheck, TypeOK
  <2>3. CASE ~Goto(r, "undo")
    <3> DEFINE pc == IF req[r].todo = {x} THEN "record" ELSE req[r].pc
    <3>1. req' = [req EXCEPT ![r].todo = @ \ {x}, ![r].pc = pc] /\ pc \in Pcs
      BY <1>6, <2>1, <2>3, <1>q DEF Recheck
    <3> QED BY <1>6, <3>1, <1>4 DEF Recheck
  <2> QED BY <2>2, <2>3
<1>7. CASE Refuse(r) \/ IssueRefused(r)
  BY <1>7, <1>f DEF Refuse, IssueRefused, TypeOK
<1>8. ASSUME NEW i \in Issues, NEW st \in {"bare", "open"}, Issue(r, i, st) PROVE TypeOK'
  <2>1. [st |-> st, src |-> req[r].src, client |-> req[r].client, user |-> req[r].user,
         session |-> req[r].session, scope |-> req[r].scope, grant |-> "none", given |-> FALSE]
          \in IssueRecords
    BY <1>q DEF IssueRecords, RequestRecords
  <2>2. [req[r] EXCEPT !.pc = Answered(r), !.issue = i, !.todo = {"session", "consent"}]
          \in RequestRecords
    BY <1>q DEF RequestRecords, Answered, Pcs, Checks
  <2>3. req' = [req EXCEPT ![r] = [req[r] EXCEPT !.pc = Answered(r), !.issue = i,
                                                 !.todo = {"session", "consent"}]]
    BY <1>8, <1>q DEF Issue
  <2> QED BY <1>8, <2>1, <2>2, <2>3 DEF Issue, TypeOK
<1>9. CASE RecordGrant(r)
  <2>1. [issue[req[r].issue] EXCEPT !.grant = "active"] \in IssueRecords
    <3>1. issue[req[r].issue] \in IssueRecords
      BY <1>q DEF TypeOK, RequestRecords
    <3> QED BY <3>1 DEF IssueRecords
  <2> QED BY <1>9, <1>g, <1>q, <2>1 DEF RecordGrant, TypeOK, Pcs
<1>10. CASE Respond(r)
  <2>1. [issue[req[r].issue] EXCEPT !.given = TRUE] \in IssueRecords
    <3>1. issue[req[r].issue] \in IssueRecords
      BY <1>q DEF TypeOK, RequestRecords
    <3> QED BY <3>1 DEF IssueRecords
  <2> QED BY <1>10, <1>f, <1>q, <2>1 DEF Respond, TypeOK
<1>11. CASE Undo(r)
  BY <1>11, <1>f, ClosingType DEF Undo, TypeOK
<1>12. CASE Approve(r)
  <2>1. req[r].src \in Devices =>
          [device[req[r].src] EXCEPT !.st = "approved", !.user = req[r].user,
                                     !.session = req[r].session] \in DeviceRecords
    <3> SUFFICES ASSUME req[r].src \in Devices
                 PROVE  [device[req[r].src] EXCEPT !.st = "approved", !.user = req[r].user,
                                                   !.session = req[r].session] \in DeviceRecords
      OBVIOUS
    <3>1. /\ device[req[r].src] \in DeviceRecords
          /\ req[r].user \in Users /\ req[r].session \in Sessions
      BY <1>q DEF TypeOK, RequestRecords
    <3> QED BY <3>1 DEF DeviceRecords
  <2>2. device' \in [Devices -> DeviceRecords]
    BY <1>12, <2>1 DEF Approve, TypeOK
  <2>3. consent' \in [Users \X Clients -> SUBSET Scopes]
    <3> DEFINE p == <<req[r].user, req[r].client>>
    <3>1. req[r].scope \in SUBSET Scopes
      BY <1>q DEF RequestRecords
    <3>2. \/ UNCHANGED consent
          \/ consent' = [consent EXCEPT ![p] = @ \cup req[r].scope]
      BY <1>12 DEF Approve
    <3>3. consent \in [Users \X Clients -> SUBSET Scopes]
      BY DEF TypeOK
    <3> HIDE DEF p
    <3> QED BY <3>1, <3>2, <3>3
  <2> QED BY <1>12, <1>f, <2>2, <2>3 DEF Approve, TypeOK
<1>13. CASE Deny(r)
  <2>1. device' \in [Devices -> DeviceRecords]
    BY <1>13, DeviceStatusType DEF Deny, TypeOK
  <2> QED BY <1>13, <1>f, <2>1 DEF Deny, TypeOK
<1>14. CASE PollExpire(r)
  <2>1. device' \in [Devices -> DeviceRecords]
    BY <1>14, DeviceStatusType DEF PollExpire, TypeOK
  <2> QED BY <1>14, <1>f, <2>1 DEF PollExpire, TypeOK
<1>15. CASE PollSlow(r)
  <2> DEFINE d == req[r].src
             wait == IF device[d].interval <= MaxClock THEN Slowed(d) ELSE device[d].interval
  <2>1. d \in Devices => wait \in Nat /\ clock \in Nat /\ device[d] \in DeviceRecords
    BY ConstantsAssumption DEF TypeOK, DeviceRecords, Slowed
  <2>2. d \in Devices => [device[d] EXCEPT !.polledAt = clock, !.interval = wait] \in DeviceRecords
    <3> HIDE DEF wait, d
    <3> QED BY <2>1 DEF DeviceRecords
  <2>3. d \in Devices =>
          device' = [device EXCEPT ![d] = [device[d] EXCEPT !.polledAt = clock, !.interval = wait]]
    BY <1>15 DEF PollSlow, TypeOK
  <2>4. d \notin Devices => device' = device
    BY <1>15 DEF PollSlow, TypeOK
  <2>5. device' \in [Devices -> DeviceRecords]
    <3> HIDE DEF d, wait
    <3> QED BY <2>2, <2>3, <2>4 DEF TypeOK
  <2> QED BY <1>15, <1>f, <2>5 DEF PollSlow, TypeOK
<1>16. CASE PollRecord(r)
  <2>1. req[r].src \in Devices => [device[req[r].src] EXCEPT !.polledAt = clock] \in DeviceRecords
    BY DEF TypeOK, DeviceRecords
  <2>2. device' \in [Devices -> DeviceRecords]
    BY <1>16, <2>1 DEF PollRecord, TypeOK
  <2>3. [req[r] EXCEPT !.pc = "check", !.todo = Checks] \in RequestRecords
    BY <1>q DEF RequestRecords, Pcs
  <2>4. [req EXCEPT ![r].pc = "check", ![r].todo = Checks]
          = [req EXCEPT ![r] = [req[r] EXCEPT !.pc = "check", !.todo = Checks]]
    BY <1>q
  <2>5. req' \in [Requests -> RequestRecords]
    BY <1>16, <1>f, <1>q, <2>3, <2>4 DEF PollRecord
  <2> QED BY <1>16, <2>2, <2>5 DEF PollRecord, TypeOK
<1>17. CASE ConsumeDevice(r)
  <2>1. device' \in [Devices -> DeviceRecords]
    <3>1. \/ device' = device
          \/ device' = [device EXCEPT ![req[r].src] = [device[req[r].src] EXCEPT !.st = "consumed"]]
      BY <1>17 DEF ConsumeDevice
    <3>2. req[r].src \in Devices =>
            [device[req[r].src] EXCEPT !.st = "consumed"] \in DeviceRecords
      BY DeviceStatusType
    <3> QED BY <3>1, <3>2 DEF TypeOK
  <2> QED BY <1>17, <1>f, <1>g, <2>1 DEF ConsumeDevice, TypeOK, Pcs
<1>18. CASE RevokeFamilies(r)
  BY <1>18, <1>g, ClosingType DEF RevokeFamilies, TypeOK, Pcs
<1>19. CASE RevokeGrants(r)
  <2>1. issue' \in [Issues -> IssueRecords]
    BY <1>19, RevokeGrantType DEF RevokeGrants, TypeOK
  <2> QED BY <1>19, <1>f, <2>1 DEF RevokeGrants, TypeOK
<1> QED BY <1>1, <1>2, <1>3, <1>5, <1>6, <1>7, <1>8, <1>9, <1>10, <1>11, <1>12, <1>13, <1>14,
           <1>15, <1>16, <1>17, <1>18, <1>19 DEF Continue

LEMMA EnvironmentTyped ==
  ASSUME TypeOK, Environment
  PROVE  TypeOK'
<1>1. ASSUME NEW d \in Devices, AdminRevokeDevice(d) PROVE TypeOK'
  BY <1>1, DeviceStatusType DEF AdminRevokeDevice, TypeOK
<1>2. ASSUME NEW d \in Devices, NEW c \in Clients, NEW sc \in Bundles, DeviceStart(d, c, sc)
      PROVE  TypeOK'
  <2>1. [device[d] EXCEPT !.st = "pending", !.client = c, !.scope = sc,
                          !.expiresAt = clock + DeviceTtl] \in DeviceRecords
    <3>1. /\ device[d] \in DeviceRecords /\ sc \in SUBSET Scopes
          /\ clock + DeviceTtl \in Nat
      BY ConstantsAssumption DEF TypeOK, Bundles
    <3> QED BY <3>1 DEF DeviceRecords
  <2> QED BY <1>2, <2>1 DEF DeviceStart, TypeOK
<1>3. ASSUME NEW k \in Codes, CodeAlarm(k) PROVE TypeOK'
  <2>1. [code[k] EXCEPT !.st = "gone"] \in CodeRecords
    BY DEF TypeOK, CodeRecords
  <2> QED BY <1>3, <2>1 DEF CodeAlarm, TypeOK
<1>4. ASSUME NEW s \in Sessions, RevokeSession(s) PROVE TypeOK'
  BY <1>4, ClosingType DEF RevokeSession, TypeOK
<1>5. ASSUME NEW u \in Users, DisableUser(u) PROVE TypeOK'
  BY <1>5, ClosingType DEF DisableUser, TypeOK
<1>6. CASE DeleteResource
  <2>1. issue' \in [Issues -> IssueRecords]
    <3>1. \A i \in Issues : [issue[i] EXCEPT !.st = "closed"] \in IssueRecords
      BY DEF TypeOK, IssueRecords
    <3> QED BY <1>6, <3>1, RevokeGrantType DEF DeleteResource, TypeOK
  <2>2. device' \in [Devices -> DeviceRecords]
    BY <1>6, DeviceStatusType DEF DeleteResource, TypeOK
  <2> QED BY <1>6, <2>1, <2>2 DEF DeleteResource, TypeOK
<1>7. CASE Tick
  BY <1>7 DEF Tick, TypeOK
<1> QED BY <1>1, <1>2, <1>3, <1>4, <1>5, <1>6, <1>7 DEF Environment

LEMMA StepTyped ==
  ASSUME TypeOK, [Next]_vars
  PROVE  TypeOK'
<1>1. CASE UNCHANGED vars
  BY <1>1 DEF TypeOK, vars
<1>2. ASSUME NEW r \in Requests, Crash(r) PROVE TypeOK'
  BY <1>2, FinishType DEF Crash, TypeOK
<1> QED BY <1>1, <1>2, StartTyped, ContinueTyped, EnvironmentTyped DEF Next

(* Codes, device rows, consents and token sets keep their types through     *)
(* every exchange, decision and revocation.                                *)
THEOREM GrantsTyped == Spec => []TypeOK
BY InitTyped, StepTyped, PTL DEF Spec

-----------------------------------------------------------------------------
(* Tokens follow the decision.  IssuedAsDecided speaks of token sets that   *)
(* are there; inductive it becomes with what the handlers carry before:     *)
(* who has spent a code or a device code is alone in that, has issued       *)
(* nothing for it yet, and carries what was decided; who has read an        *)
(* approved device carries what the row says for good.                     *)

Decided(x) == IF x \in Codes THEN code[x] ELSE device[x]
Agrees(a, b) == a.user = b.user /\ a.client = b.client /\ a.scope = b.scope

Spends(q) == q.pc = "issue" \/ (q.pc = "check" /\ q.src \in Codes)
Reads(q) == q.src \in Devices /\ (q.pc \in {"check", "consume"} \/ (q.pc = "poll" /\ q.ready))

IssuesAgree ==
  \A i \in Issues : issue[i].st # "none" =>
    Decided(issue[i].src).st = "consumed" /\ Agrees(issue[i], Decided(issue[i].src))

RequestAgrees(q) ==
  /\ q.pc \in {"poll", "consume"} => q.src \in Devices
  /\ Spends(q) => /\ Decided(q.src).st = "consumed" /\ Agrees(q, Decided(q.src))
                  /\ Issued(q.src) = {}
  /\ Reads(q) => device[q.src].st \notin {"none", "pending"} /\ Agrees(q, device[q.src])

SpentOnce ==
  \A r, q \in Requests : Spends(req[r]) /\ Spends(req[q]) /\ req[r].src = req[q].src => r = q

DecisionInv == IssuesAgree /\ (\A r \in Requests : RequestAgrees(req[r])) /\ SpentOnce

(* What no step takes back: a token set and what it carries, a decision.    *)
IssuesKept ==
  \A i \in Issues : /\ issue'[i].st = "none" <=> issue[i].st = "none"
                    /\ issue'[i].src = issue[i].src /\ Agrees(issue'[i], issue[i])
CodesKept ==
  \A k \in Codes : code[k].st = "consumed" => code'[k].st = "consumed" /\ Agrees(code'[k], code[k])
DevicesKept ==
  \A d \in Devices :
    /\ device[d].st \notin {"none", "pending"} =>
         device'[d].st \notin {"none", "pending"} /\ Agrees(device'[d], device[d])
    /\ device[d].st = "consumed" => device'[d].st = "consumed"

SameSource(a, b) == a.src = b.src /\ Agrees(a, b)

(* No request comes to spend or to read that did not before.               *)
RequestQuiet(new, old) ==
  /\ new.pc \in {"poll", "consume"} => new.src \in Devices
  /\ Spends(new) => Spends(old) /\ SameSource(new, old)
  /\ Reads(new) => Reads(old) /\ SameSource(new, old)

LEMMA QuietRequestAgrees ==
  ASSUME TypeOK, NEW old \in RequestRecords, RequestAgrees(old), IssuesKept, CodesKept, DevicesKept,
         NEW new \in RequestRecords, RequestQuiet(new, old)
  PROVE  RequestAgrees(new)'
<1>1. Spends(new) => /\ Decided(new.src)'.st = "consumed" /\ Agrees(new, Decided(new.src)')
                     /\ Issued(new.src)' = {}
  <2> SUFFICES ASSUME Spends(new)
               PROVE  /\ Decided(new.src)'.st = "consumed" /\ Agrees(new, Decided(new.src)')
                      /\ Issued(new.src)' = {}
    OBVIOUS
  <2>1. /\ Decided(old.src).st = "consumed" /\ Agrees(old, Decided(old.src))
        /\ Issued(old.src) = {} /\ new.src = old.src /\ Agrees(new, old) /\ new.src \in Sources
    BY DEF RequestAgrees, RequestQuiet, SameSource, RequestRecords
  <2>2. Issued(new.src)' = {}
    BY <2>1 DEF Issued, IssuesKept
  <2>3. CASE new.src \in Codes
    BY <2>1, <2>2, <2>3 DEF Decided, CodesKept, Agrees
  <2>4. CASE new.src \notin Codes
    BY <2>1, <2>2, <2>4 DEF Decided, DevicesKept, Agrees, Sources
  <2> QED BY <2>3, <2>4
<1>2. Reads(new) => device'[new.src].st \notin {"none", "pending"} /\ Agrees(new, device'[new.src])
  BY DEF RequestAgrees, RequestQuiet, SameSource, Reads, DevicesKept, Agrees
<1> QED BY <1>1, <1>2 DEF RequestAgrees, RequestQuiet, Decided, Agrees, Issued, Spends, Reads

LEMMA KeptIssuesAgree ==
  ASSUME TypeOK, IssuesAgree, IssuesKept, CodesKept, DevicesKept
  PROVE  IssuesAgree'
<1> SUFFICES ASSUME NEW i \in Issues, issue'[i].st # "none"
             PROVE  /\ Decided(issue[i].src)'.st = "consumed"
                    /\ Agrees(issue'[i], Decided(issue[i].src)')
  BY DEF IssuesAgree, IssuesKept, Decided, Agrees
<1>1. /\ Decided(issue[i].src).st = "consumed" /\ Agrees(issue[i], Decided(issue[i].src))
      /\ issue'[i].src = issue[i].src /\ Agrees(issue'[i], issue[i]) /\ issue[i].src \in Sources
  BY DEF IssuesAgree, IssuesKept, TypeOK, IssueRecords
<1>2. CASE issue[i].src \in Codes
  BY <1>1, <1>2 DEF Decided, CodesKept, Agrees
<1>3. CASE issue[i].src \notin Codes
  BY <1>1, <1>3 DEF Decided, DevicesKept, Agrees, Sources
<1> QED BY <1>2, <1>3

(* A step that keeps all of that, and whose requests come to nothing new.   *)
LEMMA QuietStep ==
  ASSUME TypeOK, TypeOK', DecisionInv, IssuesKept, CodesKept, DevicesKept,
         \A q \in Requests : RequestQuiet(req'[q], req[q])
  PROVE  DecisionInv'
<1>1. IssuesAgree'
  BY KeptIssuesAgree DEF DecisionInv
<1>2. ASSUME NEW q \in Requests PROVE RequestAgrees(req[q])'
  <2>1. req[q] \in RequestRecords /\ req'[q] \in RequestRecords
    BY DEF TypeOK
  <2>2. PICK old \in RequestRecords, new \in RequestRecords : old = req[q] /\ new = req'[q]
    BY <2>1
  <2>3. RequestAgrees(old) /\ RequestQuiet(new, old)
    BY <2>2 DEF DecisionInv
  <2>4. RequestAgrees(new)'
    BY <2>3, QuietRequestAgrees
  <2> QED BY <2>2, <2>4 DEF RequestAgrees, Spends, Reads, Decided, Issued, Agrees
<1>3. SpentOnce'
  BY DEF SpentOnce, DecisionInv, RequestQuiet, SameSource
<1> QED BY <1>1, <1>2, <1>3 DEF DecisionInv

(* A step in which r comes to spend x, which nobody has spent before.       *)
LEMMA SpendingStep ==
  ASSUME TypeOK, TypeOK', DecisionInv, IssuesKept, CodesKept, DevicesKept,
         NEW r \in Requests, NEW x \in Sources, req'[r].src = x,
         Decided(x).st # "consumed", Decided(x)'.st = "consumed", Agrees(req'[r], Decided(x)'),
         Spends(req'[r]), ~Reads(req'[r]), req'[r].pc \notin {"poll", "consume"},
         \A q \in Requests \ {r} : req'[q] = req[q]
  PROVE  DecisionInv'
<1>1. IssuesAgree'
  BY KeptIssuesAgree DEF DecisionInv
<1>2. ASSUME NEW q \in Requests \ {r} PROVE RequestAgrees(req[q])'
  <2>1. PICK old \in RequestRecords : old = req[q]
    BY DEF TypeOK
  <2>2. RequestAgrees(old) /\ RequestQuiet(old, old)
    BY <2>1 DEF DecisionInv, RequestQuiet, RequestAgrees, SameSource, Agrees
  <2>3. RequestAgrees(old)'
    BY <2>2, QuietRequestAgrees
  <2> QED BY <2>1, <2>3 DEF RequestAgrees, Spends, Reads, Decided, Issued, Agrees
<1>3. Issued(x)' = {}
  BY DEF Issued, IssuesKept, DecisionInv, IssuesAgree
<1>4. RequestAgrees(req[r])'
  BY <1>3 DEF RequestAgrees, Spends, Reads, Decided, Agrees, Issued
<1>5. \A q \in Requests \ {r} : Spends(req'[q]) => req'[q].src # x
  BY DEF DecisionInv, RequestAgrees
<1>6. SpentOnce'
  BY <1>5 DEF SpentOnce, DecisionInv
<1> QED BY <1>1, <1>2, <1>4, <1>6 DEF DecisionInv

(* What steps leave alone.                                                 *)
LEMMA UnchangedKept ==
  /\ UNCHANGED issue => IssuesKept
  /\ UNCHANGED code => CodesKept
  /\ UNCHANGED device => DevicesKept
BY DEF IssuesKept, CodesKept, DevicesKept, Agrees

LEMMA ClosingKept ==
  ASSUME TypeOK, NEW I, issue' = Closing(I)
  PROVE  IssuesKept
<1> SUFFICES ASSUME NEW i \in Issues
             PROVE  /\ Closing(I)[i].st = "none" <=> issue[i].st = "none"
                    /\ Closing(I)[i].src = issue[i].src /\ Agrees(Closing(I)[i], issue[i])
  BY DEF IssuesKept
<1>1. issue[i] \in IssueRecords
  BY DEF TypeOK
<1> QED BY <1>1 DEF Closing, IssueRecords, Agrees

LEMMA RevokingKept ==
  ASSUME TypeOK, \A i \in Issues :
           \/ issue'[i] \in {issue[i], RevokeGrant(issue[i])}
           \/ /\ issue[i].st = "open"
              /\ issue'[i] = RevokeGrant([issue[i] EXCEPT !.st = "closed"])
  PROVE  IssuesKept
<1> SUFFICES ASSUME NEW i \in Issues
             PROVE  /\ issue'[i].st = "none" <=> issue[i].st = "none"
                    /\ issue'[i].src = issue[i].src /\ Agrees(issue'[i], issue[i])
  BY DEF IssuesKept
<1>1. issue[i] \in IssueRecords
  BY DEF TypeOK
<1>2. CASE issue'[i] = issue[i]
  BY <1>2 DEF Agrees
<1>3. CASE issue'[i] = RevokeGrant(issue[i])
  BY <1>1, <1>3 DEF RevokeGrant, IssueRecords, Agrees
<1>4. CASE issue[i].st = "open" /\ issue'[i] = RevokeGrant([issue[i] EXCEPT !.st = "closed"])
  BY <1>1, <1>4 DEF RevokeGrant, IssueRecords, Agrees
<1> QED BY <1>2, <1>3, <1>4

LEMMA DevicesEndKept ==
  ASSUME TypeOK,
         \A d \in Devices :
           \/ device'[d] = device[d]
           \/ /\ device[d].st \in {"pending", "approved"}
              /\ \E st \in {"denied", "expired", "consumed"} :
                   device'[d] = [device[d] EXCEPT !.st = st]
  PROVE  DevicesKept
<1> SUFFICES ASSUME NEW d \in Devices
             PROVE  /\ device[d].st \notin {"none", "pending"} =>
                         /\ device'[d].st \notin {"none", "pending"}
                         /\ Agrees(device'[d], device[d])
                    /\ device[d].st = "consumed" => device'[d].st = "consumed"
  BY DEF DevicesKept
<1>1. device[d] \in DeviceRecords
  BY DEF TypeOK
<1>2. CASE device'[d] = device[d]
  BY <1>2 DEF Agrees
<1>3. CASE /\ device[d].st \in {"pending", "approved"}
           /\ \E st \in {"denied", "expired", "consumed"} :
                device'[d] = [device[d] EXCEPT !.st = st]
  BY <1>1, <1>3 DEF DeviceRecords, Agrees
<1> QED BY <1>2, <1>3

(* What a request does to itself.                                          *)
LEMMA OneRequestQuiet ==
  ASSUME TypeOK, DecisionInv, NEW r \in Requests, NEW rec, req' = [req EXCEPT ![r] = rec],
         RequestQuiet(rec, req[r])
  PROVE  \A q \in Requests : RequestQuiet(req'[q], req[q])
<1>1. \A q \in Requests : RequestQuiet(req[q], req[q])
  BY DEF DecisionInv, RequestAgrees, RequestQuiet, SameSource, Agrees
<1>2. req'[r] = rec /\ \A q \in Requests \ {r} : req'[q] = req[q]
  BY DEF TypeOK
<1> QED BY <1>1, <1>2

(* A place where a request neither spends nor reads.                       *)
LEMMA OffQuiet ==
  ASSUME NEW new, NEW old, new.pc \notin {"issue", "check", "consume", "poll"}
  PROVE  RequestQuiet(new, old)
BY DEF RequestQuiet, Spends, Reads

LEMMA FinishQuiet ==
  ASSUME TypeOK, DecisionInv, NEW r \in Requests, Finish(r)
  PROVE  \A q \in Requests : RequestQuiet(req'[q], req[q])
<1>1. RequestQuiet(NoRequest, req[r])
  BY OffQuiet DEF NoRequest
<1> QED BY <1>1, OneRequestQuiet DEF Finish

LEMMA GotoQuiet ==
  ASSUME TypeOK, DecisionInv, NEW r \in Requests, NEW pc,
         pc \notin {"issue", "check", "consume", "poll"}, Goto(r, pc)
  PROVE  \A q \in Requests : RequestQuiet(req'[q], req[q])
<1> DEFINE rec == [req[r] EXCEPT !.pc = pc]
<1>1. rec.pc = pc
  BY DEF TypeOK, RequestRecords
<1>2. req' = [req EXCEPT ![r] = rec]
  BY DEF Goto
<1> HIDE DEF rec
<1>3. RequestQuiet(rec, req[r])
  BY <1>1, OffQuiet
<1> QED BY <1>2, <1>3, OneRequestQuiet

(* The starts.                                                             *)
LEMMA StartDecides ==
  ASSUME TypeOK, TypeOK', DecisionInv, NEW r \in Requests, Start(r)
  PROVE  DecisionInv'
<1>n. NoRequest \in RequestRecords
  BY NoRequestType
<1>q. req \in [Requests -> RequestRecords]
  BY DEF TypeOK
<1>0. ASSUME NEW rec, req' = [req EXCEPT ![r] = rec],
             rec.pc \notin {"issue", "check", "consume", "poll"},
             UNCHANGED <<code, device, issue>>
      PROVE  DecisionInv'
  <2>1. RequestQuiet(rec, req[r])
    BY <1>0, OffQuiet
  <2>2. \A q \in Requests : RequestQuiet(req'[q], req[q])
    BY <1>0, <2>1, OneRequestQuiet
  <2>3. IssuesKept /\ CodesKept /\ DevicesKept
    BY <1>0, UnchangedKept
  <2> QED BY <2>2, <2>3, QuietStep
<1>1. ASSUME NEW c \in Clients, NEW s \in Sessions, NEW sc \in Bundles,
             AuthorizeStart(r, c, s, sc) \/ DecisionStart(r, c, s, sc)
      PROVE  DecisionInv'
  <2>1. PICK pc \in {"consent", "save"} :
          req' = [req EXCEPT ![r] = [NoRequest EXCEPT
            !.pc = pc, !.client = c, !.session = s, !.user = OwnerOf[s], !.scope = sc]]
    BY <1>1 DEF AuthorizeStart, DecisionStart
  <2> DEFINE rec == [NoRequest EXCEPT
               !.pc = pc, !.client = c, !.session = s, !.user = OwnerOf[s], !.scope = sc]
  <2>2. rec.pc = pc
    BY <1>n DEF RequestRecords
  <2>3. UNCHANGED <<code, device, issue>>
    BY <1>1 DEF AuthorizeStart, DecisionStart
  <2> HIDE DEF rec
  <2>4. rec.pc \notin {"issue", "check", "consume", "poll"}
    BY <2>2
  <2>5. req' = [req EXCEPT ![r] = rec]
    BY <2>1 DEF rec
  <2> QED BY <2>3, <2>4, <2>5, <1>0
<1>2. ASSUME NEW k \in Codes, NEW c \in Clients, ExchangeCode(r, k, c)
      PROVE  DecisionInv'
  <2>1. code[k] \in CodeRecords /\ code \in [Codes -> CodeRecords]
    BY DEF TypeOK
  <2>2. /\ req'[r].pc = "check" /\ req'[r].src = k /\ req'[r].client = c
        /\ req'[r].user = code[k].user /\ req'[r].scope = code[k].scope
    BY <1>2, <1>n, <1>q DEF ExchangeCode, RequestRecords
  <2>3. /\ code[k].st = "live" /\ code[k].client = c
        /\ code' = [code EXCEPT ![k] = [code[k] EXCEPT !.st = "consumed"]]
        /\ UNCHANGED <<device, issue>>
        /\ \A q \in Requests \ {r} : req'[q] = req[q]
    BY <1>2, <1>q DEF ExchangeCode, Bound, Consumed
  <2>4. /\ code'[k].st = "consumed" /\ Agrees(code'[k], code[k])
        /\ \A j \in Codes \ {k} : code'[j] = code[j]
    BY <2>1, <2>3 DEF CodeRecords, Agrees
  <2>5. CodesKept
    BY <2>3, <2>4 DEF CodesKept, Agrees
  <2>6. IssuesKept /\ DevicesKept
    BY <2>3, UnchangedKept
  <2>7. Spends(req'[r]) /\ ~Reads(req'[r])
    BY <2>2, ConstantsAssumption DEF Spends, Reads
  <2>8. Decided(k).st # "consumed" /\ Decided(k)'.st = "consumed" /\ k \in Sources
    BY <2>3, <2>4 DEF Decided, Sources
  <2>9. Agrees(req'[r], Decided(k)')
    BY <2>2, <2>3, <2>4 DEF Agrees, Decided
  <2>10. req'[r].pc \notin {"poll", "consume"}
    BY <2>2
  <2> QED BY <2>2, <2>3, <2>5, <2>6, <2>7, <2>8, <2>9, <2>10, SpendingStep
<1>3. ASSUME NEW d \in Devices, NEW c \in Clients, PollStart(r, d, c)
      PROVE  DecisionInv'
  <2>1. device[d] \in DeviceRecords
    BY DEF TypeOK
  <2>2. PICK pc \in {"expire", "slow", "poll"} :
          req' = [req EXCEPT ![r] = [NoRequest EXCEPT !.pc = pc,
            !.src = d, !.client = c, !.session = device[d].session, !.user = device[d].user,
            !.scope = device[d].scope, !.ready = device[d].st = "approved"]]
    BY <1>3 DEF PollStart
  <2>3. /\ req'[r].pc = pc /\ req'[r].src = d /\ req'[r].client = c
        /\ req'[r].user = device[d].user /\ req'[r].scope = device[d].scope
        /\ req'[r].ready = (device[d].st = "approved")
    BY <2>2, <1>n, <1>q DEF RequestRecords
  <2>4. /\ device[d].client = c /\ UNCHANGED <<code, device, issue>>
        /\ \A q \in Requests \ {r} : req'[q] = req[q]
    BY <1>3, <1>q DEF PollStart
  <2>5. ~Spends(req'[r])
    BY <2>3 DEF Spends
  <2>6. RequestAgrees(req[r])'
    <3>1. Reads(req'[r]) => device[d].st = "approved" /\ Agrees(req'[r], device[d])
      BY <2>3, <2>4 DEF Reads, Agrees
    <3> QED BY <2>3, <2>4, <2>5, <3>1 DEF RequestAgrees, Spends, Reads, Agrees
  <2>7. ASSUME NEW q \in Requests \ {r} PROVE RequestAgrees(req[q])'
    <3>1. RequestAgrees(req[q])
      BY DEF DecisionInv
    <3> QED BY <2>4, <3>1 DEF RequestAgrees, Spends, Reads, Decided, Issued, Agrees
  <2>8. IssuesAgree'
    BY <2>4, UnchangedKept, KeptIssuesAgree DEF DecisionInv
  <2>9. SpentOnce'
    BY <2>4, <2>5 DEF SpentOnce, DecisionInv
  <2> QED BY <2>6, <2>7, <2>8, <2>9 DEF DecisionInv
<1>4. ASSUME NEW d \in Devices, NEW s \in Sessions, NEW pc \in {"approve", "deny"},
             DecideStart(r, d, s, pc)
      PROVE  DecisionInv'
  <2> DEFINE rec == [NoRequest EXCEPT !.pc = pc, !.src = d, !.client = device[d].client,
                       !.session = s, !.user = OwnerOf[s], !.scope = device[d].scope]
  <2>1. rec.pc = pc
    BY <1>n DEF RequestRecords
  <2>2. req' = [req EXCEPT ![r] = rec] /\ UNCHANGED <<code, device, issue>>
    BY <1>4 DEF DecideStart
  <2> HIDE DEF rec
  <2>3. rec.pc \notin {"issue", "check", "consume", "poll"}
    BY <2>1
  <2> QED BY <2>2, <2>3, <1>0
<1>5. ASSUME NEW u \in Users, NEW c \in Clients, RevokeConsent(r, u, c)
      PROVE  DecisionInv'
  <2> DEFINE rec == [NoRequest EXCEPT !.pc = "families", !.user = u, !.client = c]
  <2>1. rec.pc = "families"
    BY <1>n DEF RequestRecords
  <2>2. req' = [req EXCEPT ![r] = rec] /\ UNCHANGED <<code, device, issue>>
    BY <1>5 DEF RevokeConsent
  <2> HIDE DEF rec
  <2>3. rec.pc \notin {"issue", "check", "consume", "poll"}
    BY <2>1
  <2> QED BY <2>2, <2>3, <1>0
<1> QED BY <1>1, <1>2, <1>3, <1>4, <1>5 DEF Start

(* The steps of handlers under way.                                        *)
LEMMA ContinueDecides ==
  ASSUME TypeOK, TypeOK', DecisionInv, NEW r \in Requests, Continue(r)
  PROVE  DecisionInv'
<1>q. req \in [Requests -> RequestRecords] /\ req[r] \in RequestRecords
  BY DEF TypeOK
<1>f. Finish(r) => \A q \in Requests : RequestQuiet(req'[q], req[q])
  BY FinishQuiet
<1>g. \A pc \in Pcs \ {"issue", "check", "consume", "poll"} :
        Goto(r, pc) => \A q \in Requests : RequestQuiet(req'[q], req[q])
  BY GotoQuiet
<1>u. /\ UNCHANGED issue => IssuesKept
      /\ UNCHANGED code => CodesKept
      /\ UNCHANGED device => DevicesKept
  BY UnchangedKept
<1>1. CASE AuthorizeConsent(r)
  BY <1>1, <1>f, <1>g, <1>u, QuietStep DEF AuthorizeConsent, Pcs
<1>2. CASE SaveConsent(r)
  BY <1>2, <1>g, <1>u, QuietStep DEF SaveConsent, Pcs
<1>3. ASSUME NEW k \in Codes, StoreCode(r, k) PROVE DecisionInv'
  <2>1. CodesKept
    BY <1>3 DEF StoreCode, CodesKept, Agrees, TypeOK
  <2> QED BY <1>3, <2>1, <1>f, <1>u, QuietStep DEF StoreCode
<1>4. ASSUME NEW x \in Checks, Check(r, x) PROVE DecisionInv'
  <2>1. CASE Finish(r)
    BY <1>4, <2>1, <1>f, <1>u, QuietStep DEF Check
  <2>2. CASE ~Finish(r)
    <3> DEFINE pc == IF req[r].todo = {x} THEN Checked(r) ELSE req[r].pc
               rec == [req[r] EXCEPT !.todo = @ \ {x}, !.pc = pc]
    <3>1. req' = [req EXCEPT ![r] = rec]
      BY <1>4, <2>2, <1>q DEF Check
    <3>2. rec.pc = pc /\ rec.src = req[r].src /\ Agrees(rec, req[r])
      BY <1>q DEF RequestRecords, Agrees
    <3>3. req[r].pc = "check" /\ req[r].src \in Sources
      BY <1>4, <1>q DEF Check, RequestRecords
    <3>4. IF req[r].src \in Devices THEN pc \in {"check", "consume"} ELSE pc \in {"check", "issue"}
      BY <3>3 DEF Checked
    <3> HIDE DEF rec, pc
    <3>5. RequestQuiet(rec, req[r])
      BY <3>2, <3>3, <3>4, ConstantsAssumption
         DEF RequestQuiet, Spends, Reads, SameSource, Sources
    <3> QED BY <1>4, <3>1, <3>5, <1>u, OneRequestQuiet, QuietStep DEF Check
  <2> QED BY <2>1, <2>2
<1>5. ASSUME NEW x \in Checks, Recheck(r, x) PROVE DecisionInv'
  <2>1. CASE Goto(r, "undo")
    BY <1>5, <2>1, <1>g, <1>u, QuietStep DEF Recheck, Pcs
  <2>2. CASE ~Goto(r, "undo")
    <3> DEFINE pc == IF req[r].todo = {x} THEN "record" ELSE req[r].pc
               rec == [req[r] EXCEPT !.todo = @ \ {x}, !.pc = pc]
    <3>1. req' = [req EXCEPT ![r] = rec] /\ UNCHANGED <<code, device, issue>>
      BY <1>5, <2>2, <1>q DEF Recheck
    <3>2. rec.pc = pc
      BY <1>q DEF RequestRecords
    <3>3. pc \in {"record", "recheck"}
      BY <1>5 DEF Recheck
    <3> HIDE DEF rec, pc
    <3>4. RequestQuiet(rec, req[r])
      BY <3>2, <3>3, OffQuiet
    <3> QED BY <3>1, <3>4, <1>u, OneRequestQuiet, QuietStep
  <2> QED BY <2>1, <2>2
<1>6. CASE Refuse(r) \/ IssueRefused(r)
  BY <1>6, <1>f, <1>u, QuietStep DEF Refuse, IssueRefused
<1>7. ASSUME NEW i \in Issues, NEW st \in {"bare", "open"}, Issue(r, i, st) PROVE DecisionInv'
  <2>1. /\ req[r].pc = "issue" /\ issue[i].st = "none" /\ UNCHANGED <<code, device>>
        /\ issue'[i].st # "none" /\ issue'[i].src = req[r].src /\ Agrees(issue'[i], req[r])
        /\ \A j \in Issues \ {i} : issue'[j] = issue[j]
        /\ \A q \in Requests \ {r} : req'[q] = req[q]
    BY <1>7, <1>q DEF Issue, Agrees, TypeOK
  <2>2. req'[r].pc \in {"recheck", "record"}
    BY <1>7, <1>q DEF Issue, Answered, RequestRecords
  <2>3. /\ Decided(req[r].src).st = "consumed" /\ Agrees(req[r], Decided(req[r].src))
    BY <2>1 DEF DecisionInv, RequestAgrees, Spends
  <2>4. IssuesAgree'
    <3> SUFFICES ASSUME NEW j \in Issues, issue'[j].st # "none"
                 PROVE  /\ Decided(issue[j].src)'.st = "consumed"
                        /\ Agrees(issue[j], Decided(issue[j].src))'
      BY DEF IssuesAgree
    <3>1. CASE j = i
      BY <2>1, <2>3, <3>1 DEF Decided, Agrees
    <3>2. CASE j # i
      BY <2>1, <3>2 DEF Decided, Agrees, DecisionInv, IssuesAgree
    <3> QED BY <3>1, <3>2
  <2>5. RequestAgrees(req[r])'
    BY <2>2 DEF RequestAgrees, Spends, Reads
  <2>6. ASSUME NEW q \in Requests \ {r} PROVE RequestAgrees(req[q])'
    <3>1. RequestAgrees(req[q])
      BY DEF DecisionInv
    <3>2. Spends(req[q]) => req[q].src # req[r].src
      BY <2>1 DEF DecisionInv, SpentOnce, Spends
    <3>3. Spends(req[q]) => Issued(req[q].src)' = {}
      BY <2>1, <3>1, <3>2 DEF Issued, RequestAgrees
    <3> QED BY <2>1, <3>1, <3>3 DEF RequestAgrees, Spends, Reads, Decided, Agrees, Issued
  <2>7. SpentOnce'
    BY <2>1, <2>2 DEF SpentOnce, DecisionInv, Spends
  <2> QED BY <2>4, <2>5, <2>6, <2>7 DEF DecisionInv
<1>8. CASE RecordGrant(r) \/ Respond(r)
  <2>1. IssuesKept
    <3> DEFINE i == req[r].issue
    <3>1. i \in Issues /\ issue[i] \in IssueRecords /\ issue \in [Issues -> IssueRecords]
      BY <1>q DEF TypeOK, RequestRecords
    <3>2. /\ \A j \in Issues \ {i} : issue'[j] = issue[j]
          /\ \/ issue'[i] = [issue[i] EXCEPT !.grant = "active"]
             \/ issue'[i] = [issue[i] EXCEPT !.given = TRUE]
      BY <1>8, <3>1 DEF RecordGrant, Respond
    <3> HIDE DEF i
    <3>3. /\ issue'[i].st = issue[i].st /\ issue'[i].src = issue[i].src
          /\ Agrees(issue'[i], issue[i])
      BY <3>1, <3>2 DEF IssueRecords, Agrees
    <3> QED BY <3>2, <3>3 DEF IssuesKept, Agrees
  <2> QED BY <1>8, <2>1, <1>f, <1>g, <1>u, QuietStep DEF RecordGrant, Respond, Pcs
<1>9. CASE Undo(r) \/ RevokeFamilies(r)
  <2>1. IssuesKept
    BY <1>9, ClosingKept DEF Undo, RevokeFamilies
  <2> QED BY <1>9, <2>1, <1>f, <1>g, <1>u, QuietStep DEF Undo, RevokeFamilies, Pcs
<1>10. CASE RevokeGrants(r)
  <2>1. IssuesKept
    BY <1>10, RevokingKept DEF RevokeGrants
  <2> QED BY <1>10, <2>1, <1>f, <1>u, QuietStep DEF RevokeGrants
<1>11. CASE Approve(r)
  <2>1. CASE Undecided(req[r].src)
    <3> DEFINE d == req[r].src
    <3>1. /\ device[d].st = "pending"
          /\ device' = [device EXCEPT ![d] = [device[d] EXCEPT
               !.st = "approved", !.user = req[r].user, !.session = req[r].session]]
      BY <1>11, <2>1 DEF Approve, Undecided
    <3>2. DevicesKept
      BY <3>1 DEF DevicesKept, Agrees, TypeOK, DeviceRecords
    <3> QED BY <1>11, <3>2, <1>f, <1>u, QuietStep DEF Approve
  <2>2. CASE ~Undecided(req[r].src)
    BY <1>11, <2>2, <1>f, <1>u, QuietStep DEF Approve
  <2> QED BY <2>1, <2>2
<1>12. CASE Deny(r)
  <2>1. DevicesKept
    <3>1. \A d \in Devices :
            \/ device'[d] = device[d]
            \/ device[d].st = "pending" /\ device'[d] = [device[d] EXCEPT !.st = "denied"]
      BY <1>12 DEF Deny, Undecided, TypeOK
    <3> QED BY <3>1, DevicesEndKept
  <2> QED BY <1>12, <2>1, <1>f, <1>u, QuietStep DEF Deny
<1>13. CASE PollExpire(r)
  <2>1. DevicesKept
    <3>1. \A d \in Devices :
            \/ device'[d] = device[d]
            \/ /\ device[d].st \in {"pending", "approved"}
               /\ device'[d] = [device[d] EXCEPT !.st = "expired"]
      BY <1>13 DEF PollExpire, Expirable, TypeOK
    <3> QED BY <3>1, DevicesEndKept
  <2> QED BY <1>13, <2>1, <1>f, <1>u, QuietStep DEF PollExpire
<1>14. CASE PollSlow(r) \/ PollRecord(r)
  <2>1. DevicesKept
    <3>1. \A d \in Devices : device[d] \in DeviceRecords
      BY DEF TypeOK
    <3>2. \A d \in Devices : /\ device'[d].st = device[d].st /\ device'[d].user = device[d].user
                             /\ device'[d].client = device[d].client
                             /\ device'[d].scope = device[d].scope
      BY <1>14, <3>1 DEF PollSlow, PollRecord, TypeOK, DeviceRecords
    <3> QED BY <3>2 DEF DevicesKept, Agrees
  <2>2. \A q \in Requests : RequestQuiet(req'[q], req[q])
    <3>1. CASE Finish(r)
      BY <3>1, <1>f
    <3>2. CASE ~Finish(r)
      <4> DEFINE rec == [req[r] EXCEPT !.pc = "check", !.todo = Checks]
      <4>1. /\ req[r].pc = "poll" /\ req[r].ready /\ req' = [req EXCEPT ![r] = rec]
        BY <1>14, <3>2, <1>q DEF PollSlow, PollRecord
      <4>2. rec.pc = "check" /\ rec.src = req[r].src /\ Agrees(rec, req[r])
        BY <1>q DEF RequestRecords, Agrees
      <4>3. req[r].src \in Devices
        BY <4>1 DEF DecisionInv, RequestAgrees
      <4> HIDE DEF rec
      <4>4. RequestQuiet(rec, req[r])
        BY <4>1, <4>2, <4>3, ConstantsAssumption DEF RequestQuiet, Spends, Reads, SameSource
      <4> QED BY <4>1, <4>4, OneRequestQuiet
    <3> QED BY <3>1, <3>2
  <2> QED BY <1>14, <2>1, <2>2, <1>u, QuietStep DEF PollSlow, PollRecord
<1>15. CASE ConsumeDevice(r)
  <2>0. PICK d \in Sources : d = req[r].src
    BY <1>q DEF RequestRecords
  <2>1. d \in Devices /\ d \notin Codes /\ RequestAgrees(req[r]) /\ req[r].pc = "consume"
    BY <1>15, <2>0, ConstantsAssumption DEF ConsumeDevice, DecisionInv, RequestAgrees
  <2>2. CASE StillApproved(d)
    <3>1. device \in [Devices -> DeviceRecords] /\ device[d] \in DeviceRecords
      BY <2>1 DEF TypeOK
    <3>2. /\ device[d].st = "approved"
          /\ device' = [device EXCEPT ![d] = [device[d] EXCEPT !.st = "consumed"]]
          /\ Goto(r, "issue") /\ UNCHANGED <<code, issue>>
      BY <1>15, <2>0, <2>2 DEF ConsumeDevice, StillApproved
    <3>3. /\ req'[r].pc = "issue" /\ req'[r].src = d /\ Agrees(req'[r], req[r])
          /\ \A q \in Requests \ {r} : req'[q] = req[q]
      BY <2>0, <3>2, <1>q DEF Goto, RequestRecords, Agrees
    <3>4. DevicesKept
      <4>1. \A e \in Devices :
              \/ device'[e] = device[e]
              \/ device[e].st = "approved" /\ device'[e] = [device[e] EXCEPT !.st = "consumed"]
        BY <3>1, <3>2
      <4> QED BY <4>1, DevicesEndKept
    <3>5. Agrees(req[r], device[d])
      BY <2>0, <2>1 DEF RequestAgrees, Reads
    <3>6. device'[d].st = "consumed" /\ Agrees(device'[d], device[d])
      BY <2>1, <3>1, <3>2 DEF DeviceRecords, Agrees
    <3>7. Decided(d).st # "consumed" /\ Decided(d)'.st = "consumed" /\ Decided(d)' = device'[d]
      BY <2>1, <3>2, <3>6 DEF Decided
    <3>8. Agrees(req'[r], Decided(d)')
      BY <3>3, <3>5, <3>6, <3>7 DEF Agrees
    <3>9. Spends(req'[r]) /\ ~Reads(req'[r]) /\ req'[r].pc \notin {"poll", "consume"}
      BY <3>3 DEF Spends, Reads
    <3>10. IssuesKept /\ CodesKept
      BY <3>2, <1>u
    <3> QED BY <3>3, <3>4, <3>7, <3>8, <3>9, <3>10, SpendingStep
  <2>3. CASE ~StillApproved(d)
    BY <1>15, <2>0, <2>3, <1>f, <1>u, QuietStep DEF ConsumeDevice
  <2> QED BY <2>2, <2>3
<1> QED BY <1>1, <1>2, <1>3, <1>4, <1>5, <1>6, <1>7, <1>8, <1>9, <1>10, <1>11, <1>12, <1>13,
           <1>14, <1>15 DEF Continue

LEMMA EnvironmentDecides ==
  ASSUME TypeOK, TypeOK', DecisionInv, Environment
  PROVE  DecisionInv'
<1>r. UNCHANGED req /\ \A q \in Requests : RequestQuiet(req[q], req[q])
  BY DEF Environment, AdminRevokeDevice, DeviceStart, CodeAlarm, RevokeSession, DisableUser,
         DeleteResource, Tick, DecisionInv, RequestAgrees, RequestQuiet, SameSource, Agrees
<1>u. /\ UNCHANGED issue => IssuesKept
      /\ UNCHANGED code => CodesKept
      /\ UNCHANGED device => DevicesKept
  BY UnchangedKept
<1>1. ASSUME NEW d \in Devices, AdminRevokeDevice(d) PROVE DecisionInv'
  <2>1. \A e \in Devices :
          \/ device'[e] = device[e]
          \/ /\ device[e].st \in {"pending", "approved"}
             /\ device'[e] = [device[e] EXCEPT !.st = "denied"]
    BY <1>1 DEF AdminRevokeDevice, TypeOK
  <2>2. DevicesKept
    BY <2>1, DevicesEndKept
  <2> QED BY <1>1, <2>2, <1>r, <1>u, QuietStep DEF AdminRevokeDevice
<1>2. ASSUME NEW d \in Devices, NEW c \in Clients, NEW sc \in Bundles, DeviceStart(d, c, sc)
      PROVE  DecisionInv'
  <2>1. DevicesKept
    BY <1>2 DEF DeviceStart, DevicesKept, Agrees, TypeOK
  <2> QED BY <1>2, <2>1, <1>r, <1>u, QuietStep DEF DeviceStart
<1>3. ASSUME NEW k \in Codes, CodeAlarm(k) PROVE DecisionInv'
  <2>1. CodesKept
    BY <1>3 DEF CodeAlarm, CodesKept, Agrees, TypeOK
  <2> QED BY <1>3, <2>1, <1>r, <1>u, QuietStep DEF CodeAlarm
<1>4. ASSUME NEW s \in Sessions, RevokeSession(s) PROVE DecisionInv'
  BY <1>4, <1>r, <1>u, ClosingKept, QuietStep DEF RevokeSession
<1>5. ASSUME NEW u \in Users, DisableUser(u) PROVE DecisionInv'
  BY <1>5, <1>r, <1>u, ClosingKept, QuietStep DEF DisableUser
<1>6. CASE DeleteResource
  <2>1. IssuesKept
    BY <1>6, RevokingKept DEF DeleteResource
  <2>2. DevicesKept
    <3>1. \A d \in Devices : device[d] \in DeviceRecords
      BY DEF TypeOK
    <3> QED BY <1>6, <3>1 DEF DeleteResource, DevicesKept, Agrees, DeviceRecords
  <2> QED BY <1>6, <2>1, <2>2, <1>r, <1>u, QuietStep DEF DeleteResource
<1>7. CASE Tick
  BY <1>7, <1>r, <1>u, QuietStep DEF Tick
<1> QED BY <1>1, <1>2, <1>3, <1>4, <1>5, <1>6, <1>7 DEF Environment

LEMMA InitDecides == Init => DecisionInv
<1> SUFFICES ASSUME Init PROVE DecisionInv
  OBVIOUS
<1>1. \A i \in Issues : issue[i].st = "none"
  BY DEF Init
<1>2. \A r \in Requests : req[r].pc = "idle"
  BY DEF Init, NoRequest
<1> QED BY <1>1, <1>2 DEF DecisionInv, IssuesAgree, RequestAgrees, SpentOnce, Spends, Reads

LEMMA StepDecides ==
  ASSUME TypeOK, TypeOK', DecisionInv, [Next]_vars
  PROVE  DecisionInv'
<1>1. CASE UNCHANGED vars
  <2>1. \A q \in Requests : RequestQuiet(req[q], req[q])
    BY DEF DecisionInv, RequestAgrees, RequestQuiet, SameSource, Agrees
  <2> QED BY <1>1, <2>1, UnchangedKept, QuietStep DEF vars
<1>2. ASSUME NEW r \in Requests, Crash(r) PROVE DecisionInv'
  BY <1>2, FinishQuiet, UnchangedKept, QuietStep DEF Crash
<1> QED BY <1>1, <1>2, StartDecides, ContinueDecides, EnvironmentDecides DEF Next

(* The inductive form of the next theorem.                                 *)
THEOREM DecisionInvariant == Spec => []DecisionInv
BY InitDecides, StepDecides, GrantsTyped, PTL DEF Spec

(* Whatever changes between the read and the issue, the tokens of a code or *)
(* a device code carry the user, the client and the scope of the decision,  *)
(* and that decision is spent.                                             *)
THEOREM TokensFollowDecision == Spec => []IssuedAsDecided
<1>1. DecisionInv => IssuedAsDecided
  BY DEF DecisionInv, IssuesAgree, IssuedAsDecided, Decided, Agrees
<1> QED BY <1>1, DecisionInvariant, PTL

-----------------------------------------------------------------------------
(* The life of a device row.                                               *)

Sames(a, b) == a.st = b.st /\ a.user = b.user /\ a.session = b.session

DeviceMoves(new, old) ==
  \/ Sames(new, old)
  \/ old.st = "none" /\ new.st = "pending"
  \/ old.st = "pending" /\ new.st = "approved"
  \/ /\ old.st \in {"pending", "approved"} /\ new.st \in {"denied", "expired"}
     /\ new.user = old.user /\ new.session = old.session
  \/ /\ old.st = "approved" /\ new.st = "consumed"
     /\ new.user = old.user /\ new.session = old.session

(* Every statement on device_authorization_sessions.                       *)
LEMMA DeviceStep ==
  ASSUME TypeOK, [Next]_vars
  PROVE  \A d \in Devices : DeviceMoves(device'[d], device[d])
<1> SUFFICES ASSUME NEW d \in Devices
             PROVE  DeviceMoves(device'[d], device[d])
  OBVIOUS
<1>t. device \in [Devices -> DeviceRecords] /\ device[d] \in DeviceRecords
  BY DEF TypeOK
<1>1. CASE UNCHANGED device
  BY <1>1 DEF DeviceMoves, Sames
<1>2. ASSUME NEW st \in {"denied", "expired"}, device[d].st \in {"pending", "approved"},
             device'[d] = [device[d] EXCEPT !.st = st]
      PROVE  DeviceMoves(device'[d], device[d])
  BY <1>2, <1>t DEF DeviceMoves, DeviceRecords
<1>3. ASSUME NEW r \in Requests, Approve(r) PROVE DeviceMoves(device'[d], device[d])
  <2>1. CASE Undecided(req[r].src) /\ req[r].src = d
    <3>1. device[d].st = "pending"
      BY <2>1 DEF Undecided
    <3>2. device'[d] = [device[d] EXCEPT !.st = "approved", !.user = req[r].user,
                                         !.session = req[r].session]
      BY <1>3, <1>t, <2>1 DEF Approve
    <3>3. device'[d].st = "approved"
      BY <3>2, <1>t DEF DeviceRecords
    <3> QED BY <3>1, <3>3 DEF DeviceMoves
  <2>2. CASE ~(Undecided(req[r].src) /\ req[r].src = d)
    <3>1. device'[d] = device[d]
      BY <1>3, <1>t, <2>2 DEF Approve
    <3> QED BY <3>1 DEF DeviceMoves, Sames
  <2> QED BY <2>1, <2>2
<1>4. ASSUME NEW r \in Requests, Deny(r) PROVE DeviceMoves(device'[d], device[d])
  BY <1>4, <1>t DEF Deny, Undecided, DeviceMoves, Sames, DeviceRecords
<1>5. ASSUME NEW r \in Requests, PollExpire(r) PROVE DeviceMoves(device'[d], device[d])
  BY <1>5, <1>t DEF PollExpire, Expirable, DeviceMoves, Sames, DeviceRecords
<1>6. ASSUME NEW r \in Requests, PollSlow(r) \/ PollRecord(r)
      PROVE  DeviceMoves(device'[d], device[d])
  <2>1. Sames(device'[d], device[d])
    BY <1>6, <1>t DEF PollSlow, PollRecord, Sames, DeviceRecords
  <2> QED BY <2>1 DEF DeviceMoves
<1>7. ASSUME NEW r \in Requests, ConsumeDevice(r) PROVE DeviceMoves(device'[d], device[d])
  BY <1>7, <1>t DEF ConsumeDevice, StillApproved, DeviceMoves, Sames, DeviceRecords
<1>8. ASSUME NEW e \in Devices, AdminRevokeDevice(e) PROVE DeviceMoves(device'[d], device[d])
  BY <1>8, <1>t DEF AdminRevokeDevice, DeviceMoves, Sames, DeviceRecords
<1>9. ASSUME NEW e \in Devices, NEW c \in Clients, NEW sc \in Bundles, DeviceStart(e, c, sc)
      PROVE  DeviceMoves(device'[d], device[d])
  BY <1>9, <1>t DEF DeviceStart, DeviceMoves, Sames, DeviceRecords
<1>10. CASE DeleteResource
  BY <1>10, <1>1, <1>2, <1>t DEF DeleteResource, DeviceMoves, Sames
<1>11. ASSUME NEW r \in Requests, Continue(r) PROVE DeviceMoves(device'[d], device[d])
  BY <1>1, <1>3, <1>4, <1>5, <1>6, <1>7, <1>11
     DEF Continue, AuthorizeConsent, SaveConsent, StoreCode, Check, Recheck, Refuse, Issue,
         IssueRefused, RecordGrant, Respond, Undo, RevokeFamilies, RevokeGrants
<1>12. ASSUME NEW r \in Requests, Start(r) \/ Crash(r) PROVE DeviceMoves(device'[d], device[d])
  BY <1>1, <1>12 DEF Start, Crash, AuthorizeStart, DecisionStart, ExchangeCode, PollStart,
                     DecideStart, RevokeConsent
<1>13. CASE Environment
  BY <1>1, <1>8, <1>9, <1>10, <1>13 DEF Environment, CodeAlarm, RevokeSession, DisableUser, Tick
<1> QED BY <1>1, <1>11, <1>12, <1>13 DEF Next, vars

(* Whoever decides on a device code first, decides: the approval keeps its  *)
(* user and session, and denied, expired and consumed are final, whatever   *)
(* confirmations, polls, administrators and deletions race.                *)
THEOREM DeviceDecisionsStand == Spec => DecisionsStand
<1>1. TypeOK /\ [Next]_vars =>
        [\A d \in Devices :
           /\ device[d].st \in {"approved", "consumed"} =>
                device'[d].user = device[d].user /\ device'[d].session = device[d].session
           /\ device[d].st \in {"denied", "expired", "consumed"} => device'[d].st = device[d].st]_vars
  BY DeviceStep DEF DeviceMoves, Sames
<1> QED BY <1>1, GrantsTyped, PTL DEF Spec, DecisionsStand

-----------------------------------------------------------------------------
(* Single use.                                                             *)

(* Token sets that stay are counted as before.                             *)
LEMMA KeptHonours ==
  ASSUME IssuesKept
  PROVE  \A x : Issued(x)' = Issued(x)
BY DEF IssuesKept, Issued

PhasesKept == \A x \in Sources : Phase(x)' = Phase(x)
OthersKept(x) == \A y \in Sources \ {x} : Phase(y)' = Phase(y)

LEMMA Stutters ==
  ASSUME IssuesKept, PhasesKept
  PROVE  UNCHANGED Abstract!grantVars
<1>1. [x \in Sources |-> Phase(x)]' = [x \in Sources |-> Phase(x)]
  BY DEF PhasesKept
<1>2. [x \in Sources |-> Cardinality(Issued(x))]' = [x \in Sources |-> Cardinality(Issued(x))]
  BY KeptHonours
<1> QED BY <1>1, <1>2 DEF Abstract!grantVars

LEMMA Offers ==
  ASSUME IssuesKept, NEW x \in Sources, Phase(x) = "none", Phase(x)' = "offered", OthersKept(x)
  PROVE  Abstract!Next
<1>2. [y \in Sources |-> Cardinality(Issued(y))]' = [y \in Sources |-> Cardinality(Issued(y))]
  BY KeptHonours
<1>3. Abstract!Offer(x)
  BY <1>2 DEF Abstract!Offer, OthersKept
<1> QED BY <1>3 DEF Abstract!Next

LEMMA SpendsIt ==
  ASSUME IssuesKept, NEW x \in Sources, Phase(x) = "offered", Phase(x)' = "spent", OthersKept(x)
  PROVE  Abstract!Next
<1>2. [y \in Sources |-> Cardinality(Issued(y))]' = [y \in Sources |-> Cardinality(Issued(y))]
  BY KeptHonours
<1>3. Abstract!Spend(x)
  BY <1>2 DEF Abstract!Spend, OthersKept
<1> QED BY <1>3 DEF Abstract!Next

LEMMA Refuses ==
  ASSUME IssuesKept, \A x \in Sources : \/ Phase(x)' = Phase(x)
                                        \/ Phase(x) = "offered" /\ Phase(x)' = "refused"
  PROVE  Abstract!Next
<1> DEFINE X == {x \in Sources : Phase(x) = "offered" /\ Phase(x)' = "refused"}
<1>1. [y \in Sources |-> Cardinality(Issued(y))]' = [y \in Sources |-> Cardinality(Issued(y))]
  BY KeptHonours
<1>2. Abstract!Refuse(X)
  BY <1>1 DEF Abstract!Refuse
<1>3. X \in SUBSET Sources
  OBVIOUS
<1> HIDE DEF X
<1> QED BY <1>2, <1>3 DEF Abstract!Next

(* The phases follow the statuses.                                         *)
LEMMA PhaseOfStatus ==
  ASSUME NEW x
  PROVE  /\ Status(x)' = Status(x) => Phase(x)' = Phase(x)
         /\ Status(x) = "none" => Phase(x) = "none"
         /\ Status(x) \in {"live", "pending", "approved"} => Phase(x) = "offered"
         /\ Status(x)' \in {"live", "pending", "approved"} => Phase(x)' = "offered"
         /\ Status(x)' = "consumed" => Phase(x)' = "spent"
         /\ Status(x)' \in {"gone", "denied", "expired"} => Phase(x)' = "refused"
BY DEF Phase

(* Only issueUserTokens adds a token set.                                  *)
LEMMA RecordKeepsIssues ==
  ASSUME TypeOK, NEW r \in Requests, RecordGrant(r) \/ Respond(r)
  PROVE  IssuesKept
<1> DEFINE i == req[r].issue
<1>1. i \in Issues /\ issue[i] \in IssueRecords /\ issue \in [Issues -> IssueRecords]
  BY DEF TypeOK, RequestRecords
<1>2. /\ \A j \in Issues \ {i} : issue'[j] = issue[j]
      /\ \/ issue'[i] = [issue[i] EXCEPT !.grant = "active"]
         \/ issue'[i] = [issue[i] EXCEPT !.given = TRUE]
  BY <1>1 DEF RecordGrant, Respond
<1> HIDE DEF i
<1>3. issue'[i].st = issue[i].st /\ issue'[i].src = issue[i].src /\ Agrees(issue'[i], issue[i])
  BY <1>1, <1>2 DEF IssueRecords, Agrees
<1> QED BY <1>2, <1>3 DEF IssuesKept, Agrees

LEMMA IssueStep ==
  ASSUME TypeOK, [Next]_vars
  PROVE  \/ IssuesKept
         \/ \E r \in Requests, i \in Issues, st \in {"bare", "open"} : Issue(r, i, st)
<1>1. UNCHANGED issue => IssuesKept
  BY UnchangedKept
<1>2. ASSUME NEW r \in Requests, Undo(r) \/ RevokeFamilies(r) PROVE IssuesKept
  BY <1>2, ClosingKept DEF Undo, RevokeFamilies
<1>3. ASSUME NEW r \in Requests, RevokeGrants(r) PROVE IssuesKept
  BY <1>3, RevokingKept DEF RevokeGrants
<1>4. CASE DeleteResource
  BY <1>4, RevokingKept DEF DeleteResource
<1>5. ASSUME NEW s \in Sessions, RevokeSession(s) PROVE IssuesKept
  BY <1>5, ClosingKept DEF RevokeSession
<1>6. ASSUME NEW u \in Users, DisableUser(u) PROVE IssuesKept
  BY <1>6, ClosingKept DEF DisableUser
<1>7. ASSUME NEW r \in Requests, Continue(r)
      PROVE  IssuesKept \/ \E i \in Issues, st \in {"bare", "open"} : Issue(r, i, st)
  BY <1>1, <1>2, <1>3, <1>7, RecordKeepsIssues
     DEF Continue, AuthorizeConsent, SaveConsent, StoreCode, Check, Recheck, Refuse,
         IssueRefused, Approve, Deny, PollExpire, PollSlow, PollRecord, ConsumeDevice
<1>8. ASSUME NEW r \in Requests, Start(r) \/ Crash(r) PROVE IssuesKept
  BY <1>1, <1>8 DEF Start, Crash, AuthorizeStart, DecisionStart, ExchangeCode, PollStart,
                    DecideStart, RevokeConsent
<1>9. CASE Environment
  BY <1>1, <1>4, <1>5, <1>6, <1>9 DEF Environment, AdminRevokeDevice, DeviceStart, CodeAlarm, Tick
<1> QED BY <1>1, <1>7, <1>8, <1>9 DEF Next, vars

LEMMA PhaseSame ==
  ASSUME NEW x \in Sources,
         x \in Codes => code'[x].st = code[x].st,
         x \in Devices => device'[x].st = device[x].st
  PROVE  Phase(x)' = Phase(x)
BY PhaseOfStatus DEF Status, Sources

(* A step that approves or ends devices.                                   *)
LEMMA DevicesRefuse ==
  ASSUME IssuesKept, UNCHANGED code,
         \A d \in Devices :
           \/ device'[d].st = device[d].st
           \/ device[d].st = "pending" /\ device'[d].st = "approved"
           \/ device[d].st \in {"pending", "approved"} /\ device'[d].st \in {"denied", "expired"}
  PROVE  Abstract!Next
<1> SUFFICES ASSUME NEW x \in Sources
             PROVE  \/ Phase(x)' = Phase(x)
                    \/ Phase(x) = "offered" /\ Phase(x)' = "refused"
  BY Refuses
<1>1. CASE x \in Codes
  BY <1>1, PhaseOfStatus DEF Status
<1>2. CASE x \notin Codes
  <2>1. x \in Devices /\ Status(x) = device[x].st /\ Status(x)' = device'[x].st
    BY <1>2 DEF Status, Sources
  <2> QED BY <2>1, PhaseOfStatus
<1> QED BY <1>1, <1>2

(* One code or device code moves.                                          *)
LEMMA OneCodeMoves ==
  ASSUME NEW k \in Codes, UNCHANGED device, \A j \in Codes \ {k} : code'[j] = code[j]
  PROVE  OthersKept(k) /\ Status(k) = code[k].st /\ Status(k)' = code'[k].st /\ k \in Sources
BY PhaseSame DEF OthersKept, Status, Sources

LEMMA OneDeviceMoves ==
  ASSUME NEW d \in Devices, UNCHANGED code, \A e \in Devices \ {d} : device'[e] = device[e]
  PROVE  OthersKept(d) /\ Status(d) = device[d].st /\ Status(d)' = device'[d].st /\ d \in Sources
<1>1. d \notin Codes
  BY ConstantsAssumption
<1> QED BY <1>1, PhaseSame DEF OthersKept, Status, Sources

(* issueUserTokens honours what was spent, and nobody has honoured before.  *)
LEMMA IssueHonours ==
  ASSUME TypeOK, DecisionInv, NEW r \in Requests, NEW i \in Issues, NEW st \in {"bare", "open"},
         Issue(r, i, st)
  PROVE  Abstract!Next
<1>1. PICK x \in Sources : x = req[r].src
  BY DEF TypeOK, RequestRecords
<1>2. Decided(x).st = "consumed" /\ Issued(x) = {}
  BY <1>1 DEF Issue, DecisionInv, RequestAgrees, Spends
<1>3. Phase(x) = "spent"
  BY <1>2 DEF Decided, Phase, Status
<1>4. /\ issue[i].st = "none" /\ issue'[i].st # "none" /\ issue'[i].src = x
      /\ \A j \in Issues \ {i} : issue'[j] = issue[j]
  BY <1>1 DEF Issue, TypeOK
<1>5. Issued(x)' = {i}
  BY <1>2, <1>4 DEF Issued
<1>6. \A y \in Sources \ {x} : Issued(y)' = Issued(y)
  BY <1>4 DEF Issued
<1>7. Cardinality(Issued(x)) = 0 /\ Cardinality(Issued(x))' = 1
  BY <1>2, <1>5, FS_EmptySet, FS_Singleton
<1>8. [y \in Sources |-> Cardinality(Issued(y))]'
        = [[y \in Sources |-> Cardinality(Issued(y))] EXCEPT ![x] = 1]
  BY <1>6, <1>7
<1>9. [y \in Sources |-> Phase(y)]' = [y \in Sources |-> Phase(y)]
  BY DEF Issue, Phase, Status
<1>10. Abstract!Honour(x)
  BY <1>3, <1>7, <1>8, <1>9 DEF Abstract!Honour
<1> QED BY <1>10 DEF Abstract!Next

LEMMA AbstractStep ==
  ASSUME TypeOK, DecisionInv, [Next]_vars
  PROVE  [Abstract!Next]_Abstract!grantVars
<1>t. /\ code \in [Codes -> CodeRecords] /\ device \in [Devices -> DeviceRecords]
      /\ \A k \in Codes : code[k] \in CodeRecords
      /\ \A d \in Devices : device[d] \in DeviceRecords
  BY DEF TypeOK
<1> SUFFICES ASSUME IssuesKept PROVE [Abstract!Next]_Abstract!grantVars
  BY IssueStep, IssueHonours
<1>1. CASE UNCHANGED <<code, device>>
  BY <1>1, PhaseSame, Stutters DEF PhasesKept
<1>2. ASSUME NEW r \in Requests, NEW k \in Codes, StoreCode(r, k) PROVE Abstract!Next
  <2>1. /\ code[k].st = "none" /\ code'[k].st = "live" /\ UNCHANGED device
        /\ \A j \in Codes \ {k} : code'[j] = code[j]
    BY <1>2, <1>t DEF StoreCode
  <2>2. OthersKept(k) /\ Status(k) = "none" /\ Status(k)' = "live" /\ k \in Sources
    BY <2>1, OneCodeMoves
  <2> QED BY <2>2, PhaseOfStatus, Offers
<1>3. ASSUME NEW k \in Codes, CodeAlarm(k) PROVE Abstract!Next
  <2>1. /\ code[k].st = "live" /\ code'[k].st = "gone" /\ UNCHANGED device
        /\ \A j \in Codes \ {k} : code'[j] = code[j]
    BY <1>3, <1>t DEF CodeAlarm, CodeRecords
  <2>2. OthersKept(k) /\ Status(k) = "live" /\ Status(k)' = "gone" /\ k \in Sources
    BY <2>1, OneCodeMoves
  <2>3. Phase(k) = "offered" /\ Phase(k)' = "refused"
    BY <2>2, PhaseOfStatus
  <2> QED BY <2>2, <2>3, Refuses DEF OthersKept
<1>4. ASSUME NEW r \in Requests, NEW k \in Codes, NEW c \in Clients, ExchangeCode(r, k, c)
      PROVE  Abstract!Next
  <2>1. /\ code[k].st = "live" /\ code'[k].st = "consumed" /\ UNCHANGED device
        /\ \A j \in Codes \ {k} : code'[j] = code[j]
    BY <1>4, <1>t DEF ExchangeCode, Consumed, CodeRecords
  <2>2. OthersKept(k) /\ Status(k) = "live" /\ Status(k)' = "consumed" /\ k \in Sources
    BY <2>1, OneCodeMoves
  <2> QED BY <2>2, PhaseOfStatus, SpendsIt
<1>5. ASSUME NEW d \in Devices, NEW c \in Clients, NEW sc \in Bundles, DeviceStart(d, c, sc)
      PROVE  Abstract!Next
  <2>1. /\ device[d].st = "none" /\ device'[d].st = "pending" /\ UNCHANGED code
        /\ \A e \in Devices \ {d} : device'[e] = device[e]
    BY <1>5, <1>t DEF DeviceStart, DeviceRecords
  <2>2. OthersKept(d) /\ Status(d) = "none" /\ Status(d)' = "pending" /\ d \in Sources
    BY <2>1, OneDeviceMoves
  <2> QED BY <2>2, PhaseOfStatus, Offers
<1>6. ASSUME NEW r \in Requests, ConsumeDevice(r) PROVE [Abstract!Next]_Abstract!grantVars
  <2>1. PICK d \in Sources : d = req[r].src
    BY DEF TypeOK, RequestRecords
  <2>2. d \in Devices
    BY <1>6, <2>1 DEF ConsumeDevice, DecisionInv, RequestAgrees
  <2>3. CASE StillApproved(d)
    <3>1. /\ device[d].st = "approved" /\ device'[d].st = "consumed" /\ UNCHANGED code
          /\ \A e \in Devices \ {d} : device'[e] = device[e]
      BY <1>6, <2>1, <2>2, <2>3, <1>t DEF ConsumeDevice, StillApproved, DeviceRecords
    <3>2. OthersKept(d) /\ Status(d) = "approved" /\ Status(d)' = "consumed"
      BY <2>2, <3>1, OneDeviceMoves
    <3> QED BY <3>2, PhaseOfStatus, SpendsIt
  <2>4. CASE ~StillApproved(d)
    BY <1>1, <1>6, <2>1, <2>4 DEF ConsumeDevice
  <2> QED BY <2>3, <2>4
<1>7. ASSUME NEW r \in Requests,
             Approve(r) \/ Deny(r) \/ PollExpire(r) \/ PollSlow(r) \/ PollRecord(r)
      PROVE  Abstract!Next
  <2>1. UNCHANGED code
    BY <1>7 DEF Approve, Deny, PollExpire, PollSlow, PollRecord
  <2>2. CASE Approve(r)
    <3>1. \A d \in Devices : \/ device'[d].st = device[d].st
                             \/ device[d].st = "pending" /\ device'[d].st = "approved"
      <4>1. PICK e : e = req[r].src
        OBVIOUS
      <4>2. \/ UNCHANGED device
            \/ /\ device[e].st = "pending"
               /\ device' = [device EXCEPT ![e] = [device[e] EXCEPT
                    !.st = "approved", !.user = req[r].user, !.session = req[r].session]]
        BY <2>2, <4>1 DEF Approve, Undecided
      <4> QED BY <4>2, <1>t DEF DeviceRecords
    <3> QED BY <2>1, <3>1, DevicesRefuse
  <2>3. CASE Deny(r) \/ PollExpire(r)
    <3>1. \A d \in Devices : \/ device'[d].st = device[d].st
                             \/ /\ device[d].st \in {"pending", "approved"}
                                /\ device'[d].st \in {"denied", "expired"}
      BY <2>3, <1>t DEF Deny, Undecided, PollExpire, Expirable, DeviceRecords
    <3> QED BY <2>1, <3>1, DevicesRefuse
  <2>4. CASE PollSlow(r) \/ PollRecord(r)
    <3>1. \A d \in Devices : device'[d].st = device[d].st
      BY <2>4, <1>t DEF PollSlow, PollRecord, DeviceRecords
    <3> QED BY <2>1, <3>1, DevicesRefuse
  <2> QED BY <1>7, <2>2, <2>3, <2>4
<1>8. CASE DeleteResource \/ \E d \in Devices : AdminRevokeDevice(d)
  <2>1. \A d \in Devices : \/ device'[d].st = device[d].st
                           \/ /\ device[d].st \in {"pending", "approved"}
                              /\ device'[d].st \in {"denied", "expired"}
    BY <1>8, <1>t DEF DeleteResource, AdminRevokeDevice, DeviceRecords
  <2>2. UNCHANGED code
    BY <1>8 DEF DeleteResource, AdminRevokeDevice
  <2> QED BY <2>1, <2>2, DevicesRefuse
<1>9. ASSUME NEW r \in Requests, Continue(r) PROVE [Abstract!Next]_Abstract!grantVars
  BY <1>1, <1>2, <1>6, <1>7, <1>9
     DEF Continue, AuthorizeConsent, SaveConsent, Check, Recheck, Refuse, Issue, IssueRefused,
         RecordGrant, Respond, Undo, RevokeFamilies, RevokeGrants
<1>10. ASSUME NEW r \in Requests, Start(r) \/ Crash(r)
       PROVE  [Abstract!Next]_Abstract!grantVars
  BY <1>1, <1>4, <1>10
     DEF Start, Crash, AuthorizeStart, DecisionStart, PollStart, DecideStart, RevokeConsent
<1>11. CASE Environment
  BY <1>1, <1>3, <1>5, <1>8, <1>11 DEF Environment, RevokeSession, DisableUser, Tick
<1> QED BY <1>1, <1>9, <1>10, <1>11 DEF Next, vars

LEMMA AbstractInit == Init => Abstract!Init
<1> SUFFICES ASSUME Init PROVE Abstract!Init
  OBVIOUS
<1>1. \A x \in Sources : Phase(x) = "none"
  BY DEF Init, Phase, Status, Sources
<1>2. \A x \in Sources : Issued(x) = {}
  BY DEF Init, Issued
<1>3. \A x \in Sources : Cardinality(Issued(x)) = 0
  BY <1>2, FS_EmptySet
<1> QED BY <1>1, <1>3 DEF Abstract!Init

(* The two exchanges implement GrantSpec: an authorization code or a device *)
(* code is offered once, spent or refused for good, and yields one set of   *)
(* tokens at most, whatever crashes, retries and revocations come between.  *)
THEOREM SingleUse == Spec => ImplementsGrant
<1>1. TypeOK /\ DecisionInv /\ [Next]_vars => [Abstract!Next]_Abstract!grantVars
  BY AbstractStep
<1> QED BY <1>1, AbstractInit, GrantsTyped, DecisionInvariant, PTL
        DEF Spec, ImplementsGrant, Abstract!Spec

-----------------------------------------------------------------------------
(* Revoking an application.  The property speaks of devices that were       *)
(* answered; inductive it becomes when it also covers the ones about to be: *)
(* from the look at the consent after the issue on, their request vouches   *)
(* for the token set.                                                      *)

Holds(q) == q.pc \in {"recheck", "undo", "record", "respond"}
Vouches(q) == q.pc \in {"record", "respond"} \/ (q.pc = "recheck" /\ "consent" \notin q.todo)
Vouched(i) == issue[i].given \/ \E r \in Requests : Vouches(req[r]) /\ req[r].issue = i
Backed(i) == Covers(issue[i].user, issue[i].client, issue[i].scope) \/ Revoking(i)

HoldersAgree ==
  \A r \in Requests : Holds(req[r]) =>
    issue[req[r].issue].st # "none" /\ Agrees(req[r], issue[req[r].issue])
NothingGivenEarly == \A i \in Issues : issue[i].st = "none" => ~issue[i].given
VouchedAreBacked ==
  \A i \in Issues :
    issue[i].st = "open" /\ issue[i].src \in Devices /\ Vouched(i) => Backed(i)
RevocationInv == HoldersAgree /\ NothingGivenEarly /\ (faults = 0 => VouchedAreBacked)

(* What a step may do to requests, token sets and consents.                *)
RequestHolds(new, old) ==
  Holds(new) => Holds(old) /\ new.issue = old.issue /\ Agrees(new, old)

LEMMA RevocationStep ==
  ASSUME TypeOK, TypeOK', RevocationInv, IssuesKept,
         \A i \in Issues : issue'[i].given => Vouched(i),
         \A i \in Issues : issue'[i].st = "open" => issue[i].st = "open",
         \A q \in Requests : RequestHolds(req'[q], req[q]),
         \A q \in Requests : Vouches(req'[q]) => Vouches(req[q]) \/ Backed(req[q].issue)',
         faults' = 0 => faults = 0,
         \A i \in Issues : issue'[i].st = "open" /\ faults' = 0 => (Backed(i) => Backed(i)')
  PROVE  RevocationInv'
<1>h. \A q : Vouches(q) => Holds(q)
  BY DEF Vouches, Holds
<1>i. \A q \in Requests : req[q].issue \in Issues
  BY DEF TypeOK, RequestRecords
<1>1. HoldersAgree'
  <2> SUFFICES ASSUME NEW r \in Requests, Holds(req'[r])
               PROVE  issue'[req'[r].issue].st # "none" /\ Agrees(req'[r], issue'[req'[r].issue])
    BY DEF HoldersAgree, Agrees, Holds
  <2>1. PICK i \in Issues : i = req[r].issue
    BY <1>i
  <2>2. /\ req'[r].issue = i /\ Agrees(req'[r], req[r])
        /\ issue[i].st # "none" /\ Agrees(req[r], issue[i])
    BY <2>1 DEF RequestHolds, RevocationInv, HoldersAgree
  <2> QED BY <2>2 DEF IssuesKept, Agrees
<1>2. NothingGivenEarly'
  <2> SUFFICES ASSUME NEW i \in Issues, issue'[i].st = "none", issue'[i].given PROVE FALSE
    BY DEF NothingGivenEarly
  <2>1. issue[i].st = "none" /\ Vouched(i)
    BY DEF IssuesKept
  <2>2. issue[i].st # "none"
    BY <2>1, <1>h DEF Vouched, RevocationInv, HoldersAgree, NothingGivenEarly
  <2> QED BY <2>1, <2>2
<1>3. ASSUME faults' = 0 PROVE VouchedAreBacked'
  <2> SUFFICES ASSUME NEW i \in Issues, issue'[i].st = "open", issue'[i].src \in Devices,
                      Vouched(i)'
               PROVE  Backed(i)'
    BY DEF VouchedAreBacked
  <2>1. VouchedAreBacked /\ issue[i].st = "open" /\ issue[i].src \in Devices
    BY <1>3 DEF RevocationInv, IssuesKept
  <2>2. CASE Vouched(i)
    BY <1>3, <2>1, <2>2 DEF VouchedAreBacked
  <2>3. CASE ~Vouched(i)
    <3>1. ~issue'[i].given
      BY <2>3
    <3>2. PICK r \in Requests : Vouches(req'[r]) /\ req'[r].issue = i
      BY <3>1 DEF Vouched, Vouches
    <3>3. req[r].issue = i
      BY <3>2, <1>h DEF RequestHolds
    <3>4. ~Vouches(req[r])
      BY <2>3, <3>3 DEF Vouched
    <3>5. Backed(req[r].issue)'
      BY <3>2, <3>4
    <3>6. req'[r].issue = i
      BY <3>2
    <3> QED BY <3>5, <3>6 DEF Backed, Covers, Revoking
  <2> QED BY <2>2, <2>3
<1> QED BY <1>1, <1>2, <1>3 DEF RevocationInv

(* The steps that take no consent away and bring no token set closer to     *)
(* being answered.                                                         *)
RequestsCalm ==
  \A q \in Requests : /\ RequestHolds(req'[q], req[q])
                      /\ Vouches(req'[q]) => Vouches(req[q])
                      /\ req[q].pc = "families" => req'[q] = req[q]
IssuesCalm ==
  IssuesKept /\ \A i \in Issues : /\ issue'[i].given => issue[i].given
                                  /\ issue'[i].st = "open" => issue[i].st = "open"
ConsentGrows == \A p \in Users \X Clients : consent[p] \subseteq consent'[p]
FamiliesStay == \A q \in Requests : req[q].pc = "families" => req'[q] = req[q]

LEMMA BackedKept ==
  ASSUME TypeOK, IssuesKept, ConsentGrows, FamiliesStay, NEW i \in Issues, Backed(i)
  PROVE  Backed(i)'
<1>1. <<issue[i].user, issue[i].client>> \in Users \X Clients
  BY DEF TypeOK, IssueRecords
<1>2. Agrees(issue'[i], issue[i])
  BY DEF IssuesKept
<1>3. CASE Covers(issue[i].user, issue[i].client, issue[i].scope)
  BY <1>1, <1>2, <1>3 DEF Covers, ConsentGrows, Agrees, Backed
<1>4. CASE Revoking(i)
  BY <1>2, <1>4 DEF Revoking, FamiliesStay, Agrees, Backed
<1> QED BY <1>3, <1>4 DEF Backed

LEMMA CalmStep ==
  ASSUME TypeOK, TypeOK', RevocationInv, IssuesCalm, RequestsCalm, ConsentGrows,
         faults' = 0 => faults = 0
  PROVE  RevocationInv'
<1>1. FamiliesStay /\ IssuesKept
  BY DEF FamiliesStay, RequestsCalm, IssuesCalm
<1>2. \A i \in Issues : Backed(i) => Backed(i)'
  BY <1>1, BackedKept
<1>3. \A i \in Issues : issue'[i].given => Vouched(i)
  BY DEF IssuesCalm, Vouched
<1> QED BY <1>1, <1>2, <1>3, RevocationStep DEF IssuesCalm, RequestsCalm

LEMMA UnchangedCalm ==
  /\ UNCHANGED issue => IssuesCalm
  /\ UNCHANGED req => RequestsCalm
  /\ UNCHANGED consent => ConsentGrows
BY DEF IssuesCalm, IssuesKept, Agrees, RequestsCalm, RequestHolds, ConsentGrows

LEMMA ClosingCalm ==
  ASSUME TypeOK, NEW I, issue' = Closing(I)
  PROVE  IssuesCalm
<1>1. \A i \in Issues : issue[i] \in IssueRecords
  BY DEF TypeOK
<1>2. \A i \in Issues : /\ Closing(I)[i].given => issue[i].given
                        /\ Closing(I)[i].st = "open" => issue[i].st = "open"
  BY <1>1 DEF Closing, IssueRecords
<1> QED BY <1>2, ClosingKept DEF IssuesCalm

LEMMA RevokingCalm ==
  ASSUME TypeOK, \A i \in Issues : issue'[i] \in {issue[i], RevokeGrant(issue[i])}
  PROVE  IssuesCalm
<1>1. \A i \in Issues : issue[i] \in IssueRecords
  BY DEF TypeOK
<1>2. \A i \in Issues : /\ RevokeGrant(issue[i]).given = issue[i].given
                        /\ RevokeGrant(issue[i]).st = issue[i].st
  BY <1>1 DEF RevokeGrant, IssueRecords
<1> QED BY <1>2, RevokingKept DEF IssuesCalm

(* A request that stays away from token sets, or gives one up.              *)
LEMMA OneRequestCalm ==
  ASSUME TypeOK, NEW r \in Requests, NEW rec, req' = [req EXCEPT ![r] = rec],
         req[r].pc # "families", RequestHolds(rec, req[r]), Vouches(rec) => Vouches(req[r])
  PROVE  RequestsCalm
<1>1. req'[r] = rec /\ \A q \in Requests \ {r} : req'[q] = req[q]
  BY DEF TypeOK
<1> QED BY <1>1 DEF RequestsCalm, RequestHolds, Agrees

LEMMA OffCalm ==
  ASSUME NEW new, NEW old, ~Holds(new)
  PROVE  RequestHolds(new, old) /\ ~Vouches(new)
BY DEF RequestHolds, Vouches, Holds

LEMMA FinishCalm ==
  ASSUME TypeOK, NEW r \in Requests, req[r].pc # "families", Finish(r)
  PROVE  RequestsCalm
<1>1. ~Holds(NoRequest)
  BY DEF Holds, NoRequest
<1> QED BY <1>1, OffCalm, OneRequestCalm DEF Finish

LEMMA GotoCalm ==
  ASSUME TypeOK, NEW r \in Requests, NEW pc, req[r].pc # "families", Goto(r, pc),
         \/ pc \notin {"recheck", "undo", "record", "respond"}
         \/ pc = "undo" /\ req[r].pc = "recheck"
         \/ pc = "respond" /\ req[r].pc = "record"
  PROVE  RequestsCalm
<1> DEFINE rec == [req[r] EXCEPT !.pc = pc]
<1>1. rec.pc = pc /\ rec.issue = req[r].issue /\ Agrees(rec, req[r])
  BY DEF TypeOK, RequestRecords, Agrees
<1>2. req' = [req EXCEPT ![r] = rec]
  BY DEF Goto
<1> HIDE DEF rec
<1>3. RequestHolds(rec, req[r]) /\ (Vouches(rec) => Vouches(req[r]))
  BY <1>1 DEF RequestHolds, Vouches, Holds
<1> QED BY <1>2, <1>3, OneRequestCalm

LEMMA StartReaches ==
  ASSUME TypeOK, TypeOK', RevocationInv, NEW r \in Requests, Start(r)
  PROVE  RevocationInv'
<1>n. NoRequest \in RequestRecords
  BY NoRequestType
<1>i. req[r].pc = "idle" /\ UNCHANGED <<issue, faults>>
  BY DEF Start, AuthorizeStart, DecisionStart, ExchangeCode, PollStart, DecideStart, RevokeConsent
<1>c. IssuesCalm
  BY <1>i, UnchangedCalm
<1>0. ASSUME NEW rec, req' = [req EXCEPT ![r] = rec],
             rec.pc \notin {"recheck", "undo", "record", "respond"}
      PROVE  RequestsCalm
  <2>1. ~Holds(rec)
    BY <1>0 DEF Holds
  <2> QED BY <1>0, <1>i, <2>1, OffCalm, OneRequestCalm
<1>1. ASSUME NEW c \in Clients, NEW s \in Sessions, NEW sc \in Bundles,
             AuthorizeStart(r, c, s, sc) \/ DecisionStart(r, c, s, sc)
      PROVE  RevocationInv'
  <2>1. PICK pc \in {"consent", "save"} :
          req' = [req EXCEPT ![r] = [NoRequest EXCEPT
            !.pc = pc, !.client = c, !.session = s, !.user = OwnerOf[s], !.scope = sc]]
    BY <1>1 DEF AuthorizeStart, DecisionStart
  <2> DEFINE rec == [NoRequest EXCEPT
               !.pc = pc, !.client = c, !.session = s, !.user = OwnerOf[s], !.scope = sc]
  <2>2. rec.pc = pc
    BY <1>n DEF RequestRecords
  <2>3. UNCHANGED consent /\ req' = [req EXCEPT ![r] = rec]
    BY <1>1, <2>1 DEF AuthorizeStart, DecisionStart
  <2> HIDE DEF rec
  <2> QED BY <2>2, <2>3, <1>0, <1>c, <1>i, UnchangedCalm, CalmStep
<1>2. ASSUME NEW k \in Codes, NEW c \in Clients, ExchangeCode(r, k, c)
      PROVE  RevocationInv'
  <2> DEFINE rec == [NoRequest EXCEPT
               !.pc = "check", !.src = k, !.client = c, !.session = code[k].session,
               !.user = code[k].user, !.scope = code[k].scope, !.todo = Checks]
  <2>1. rec.pc = "check"
    BY <1>n DEF RequestRecords
  <2>2. UNCHANGED consent /\ req' = [req EXCEPT ![r] = rec]
    BY <1>2 DEF ExchangeCode
  <2> HIDE DEF rec
  <2> QED BY <2>1, <2>2, <1>0, <1>c, <1>i, UnchangedCalm, CalmStep
<1>3. ASSUME NEW d \in Devices, NEW c \in Clients, PollStart(r, d, c)
      PROVE  RevocationInv'
  <2>1. PICK pc \in {"expire", "slow", "poll"} :
          req' = [req EXCEPT ![r] = [NoRequest EXCEPT !.pc = pc,
            !.src = d, !.client = c, !.session = device[d].session, !.user = device[d].user,
            !.scope = device[d].scope, !.ready = device[d].st = "approved"]]
    BY <1>3 DEF PollStart
  <2> DEFINE rec == [NoRequest EXCEPT !.pc = pc,
               !.src = d, !.client = c, !.session = device[d].session, !.user = device[d].user,
               !.scope = device[d].scope, !.ready = device[d].st = "approved"]
  <2>2. rec.pc = pc
    BY <1>n DEF RequestRecords
  <2>3. UNCHANGED consent /\ req' = [req EXCEPT ![r] = rec]
    BY <1>3, <2>1 DEF PollStart
  <2> HIDE DEF rec
  <2> QED BY <2>2, <2>3, <1>0, <1>c, <1>i, UnchangedCalm, CalmStep
<1>4. ASSUME NEW d \in Devices, NEW s \in Sessions, NEW pc \in {"approve", "deny"},
             DecideStart(r, d, s, pc)
      PROVE  RevocationInv'
  <2> DEFINE rec == [NoRequest EXCEPT !.pc = pc, !.src = d, !.client = device[d].client,
                       !.session = s, !.user = OwnerOf[s], !.scope = device[d].scope]
  <2>1. rec.pc = pc
    BY <1>n DEF RequestRecords
  <2>2. UNCHANGED consent /\ req' = [req EXCEPT ![r] = rec]
    BY <1>4 DEF DecideStart
  <2> HIDE DEF rec
  <2> QED BY <2>1, <2>2, <1>0, <1>c, <1>i, UnchangedCalm, CalmStep
<1>5. ASSUME NEW u \in Users, NEW c \in Clients, RevokeConsent(r, u, c)
      PROVE  RevocationInv'
  <2> DEFINE rec == [NoRequest EXCEPT !.pc = "families", !.user = u, !.client = c]
  <2>1. rec.pc = "families" /\ rec.user = u /\ rec.client = c
    BY <1>n DEF RequestRecords
  <2>2. req' = [req EXCEPT ![r] = rec] /\ consent' = [consent EXCEPT ![<<u, c>>] = {}]
    BY <1>5 DEF RevokeConsent
  <2> HIDE DEF rec
  <2>3. RequestsCalm
    BY <2>1, <2>2, <1>0
  <2>4. req'[r].pc = "families" /\ req'[r].user = u /\ req'[r].client = c
    BY <2>1, <2>2 DEF TypeOK
  <2>5. ASSUME NEW i \in Issues, Backed(i) PROVE Backed(i)'
    <3>1. issue'[i] = issue[i] /\ <<issue[i].user, issue[i].client>> \in Users \X Clients
      BY <1>i DEF TypeOK, IssueRecords
    <3>2. CASE issue[i].user = u /\ issue[i].client = c
      BY <2>4, <3>1, <3>2 DEF Backed, Revoking
    <3>3. CASE ~(issue[i].user = u /\ issue[i].client = c)
      <4>1. consent'[<<issue[i].user, issue[i].client>>]
              = consent[<<issue[i].user, issue[i].client>>]
        BY <2>2, <3>1, <3>3 DEF TypeOK
      <4>2. Revoking(i) => Revoking(i)'
        BY <2>3, <3>1 DEF Revoking, RequestsCalm
      <4> QED BY <2>5, <3>1, <4>1, <4>2 DEF Backed, Covers
    <3> QED BY <3>2, <3>3
  <2>6. \A i \in Issues : issue'[i].given => Vouched(i)
    BY <1>i DEF Vouched
  <2> QED BY <2>3, <2>5, <2>6, <1>c, <1>i, RevocationStep DEF IssuesCalm, RequestsCalm
<1> QED BY <1>1, <1>2, <1>3, <1>4, <1>5 DEF Start

(* A token set just issued is vouched for by nobody yet.                   *)
LEMMA IssueReaches ==
  ASSUME TypeOK, TypeOK', RevocationInv, NEW r \in Requests, NEW i \in Issues,
         NEW st \in {"bare", "open"}, Issue(r, i, st)
  PROVE  RevocationInv'
<1>q. req \in [Requests -> RequestRecords] /\ req[r] \in RequestRecords
  BY DEF TypeOK
<1>1. /\ req[r].pc = "issue" /\ issue[i].st = "none" /\ UNCHANGED <<consent, faults>>
      /\ issue'[i].st = st /\ issue'[i].src = req[r].src /\ Agrees(issue'[i], req[r])
      /\ ~issue'[i].given
      /\ \A j \in Issues \ {i} : issue'[j] = issue[j]
      /\ \A q \in Requests \ {r} : req'[q] = req[q]
  BY <1>q DEF Issue, Agrees, TypeOK
<1>2. /\ req'[r].issue = i /\ Agrees(req'[r], req[r])
      /\ req'[r].pc = Answered(r) /\ req'[r].todo = {"session", "consent"}
  BY <1>q DEF Issue, RequestRecords, Agrees
<1>3. \A q \in Requests \ {r} : Holds(req[q]) => req[q].issue # i
  BY <1>1 DEF RevocationInv, HoldersAgree
<1>4. HoldersAgree'
  <2> SUFFICES ASSUME NEW q \in Requests, Holds(req'[q])
               PROVE  issue'[req'[q].issue].st # "none" /\ Agrees(req'[q], issue'[req'[q].issue])
    BY DEF HoldersAgree, Agrees, Holds
  <2>1. CASE q = r
    BY <1>1, <1>2, <2>1 DEF Agrees
  <2>2. CASE q # r
    <3>1. req'[q] = req[q] /\ req[q].issue \in Issues \ {i}
      BY <1>1, <1>3, <2>2 DEF TypeOK, RequestRecords
    <3> QED BY <1>1, <3>1 DEF RevocationInv, HoldersAgree
  <2> QED BY <2>1, <2>2
<1>5. NothingGivenEarly'
  BY <1>1 DEF RevocationInv, NothingGivenEarly
<1>6. ASSUME faults' = 0, NEW j \in Issues, issue'[j].st = "open", issue'[j].src \in Devices,
             Vouched(j)'
      PROVE  Backed(j)'
  <2>1. CASE j = i
    <3>1. req'[r].pc = "recheck"
      BY <1>1, <1>2, <1>6, <2>1 DEF Answered
    <3>2. ~Vouches(req'[r])
      BY <1>2, <3>1 DEF Vouches
    <3>3. \A q \in Requests : ~(Vouches(req'[q]) /\ req'[q].issue = i)
      BY <1>1, <1>3, <3>2 DEF Vouches, Holds
    <3>4. ~Vouched(i)'
      BY <1>1, <3>3 DEF Vouched, Vouches
    <3> QED BY <1>6, <2>1, <3>4
  <2>2. CASE j # i
    <3>1. issue'[j] = issue[j]
      BY <1>1, <2>2
    <3>2. Vouched(j)
      BY <1>1, <1>2, <1>6, <2>2, <3>1 DEF Vouched, Vouches
    <3>3. Backed(j)
      BY <1>1, <1>6, <3>1, <3>2 DEF RevocationInv, VouchedAreBacked
    <3>4. Revoking(j) => Revoking(j)'
      BY <1>1, <3>1 DEF Revoking
    <3> QED BY <1>1, <3>1, <3>3, <3>4 DEF Backed, Covers
  <2> QED BY <2>1, <2>2
<1> QED BY <1>4, <1>5, <1>6 DEF RevocationInv, VouchedAreBacked

LEMMA ContinueReaches ==
  ASSUME TypeOK, TypeOK', RevocationInv, NEW r \in Requests, Continue(r)
  PROVE  RevocationInv'
<1>q. req \in [Requests -> RequestRecords] /\ req[r] \in RequestRecords
  BY DEF TypeOK
<1>u. /\ UNCHANGED issue => IssuesCalm
      /\ UNCHANGED req => RequestsCalm
      /\ UNCHANGED consent => ConsentGrows
  BY UnchangedCalm
<1>1. CASE AuthorizeConsent(r) \/ Refuse(r) \/ IssueRefused(r) \/ Deny(r) \/ PollExpire(r)
           \/ PollSlow(r) \/ ConsumeDevice(r) \/ \E k \in Codes : StoreCode(r, k)
  <2>1. RequestsCalm
    BY <1>1, FinishCalm, GotoCalm
       DEF AuthorizeConsent, Refuse, IssueRefused, Deny, PollExpire, PollSlow, ConsumeDevice,
           StoreCode
  <2>2. UNCHANGED <<issue, consent, faults>>
    BY <1>1 DEF AuthorizeConsent, Refuse, IssueRefused, Deny, PollExpire, PollSlow,
                ConsumeDevice, StoreCode
  <2> QED BY <2>1, <2>2, <1>u, CalmStep
<1>2. CASE SaveConsent(r) \/ Approve(r)
  <2>1. RequestsCalm
    BY <1>2, FinishCalm, GotoCalm DEF SaveConsent, Approve
  <2>2. ConsentGrows
    <3> DEFINE p == <<req[r].user, req[r].client>>
    <3>1. \/ UNCHANGED consent
          \/ consent' = [consent EXCEPT ![p] = @ \cup req[r].scope]
      BY <1>2 DEF SaveConsent, Approve
    <3>2. consent \in [Users \X Clients -> SUBSET Scopes]
      BY DEF TypeOK
    <3> HIDE DEF p
    <3> QED BY <3>1, <3>2 DEF ConsentGrows
  <2>3. UNCHANGED <<issue, faults>>
    BY <1>2 DEF SaveConsent, Approve
  <2> QED BY <2>1, <2>2, <2>3, <1>u, CalmStep
<1>3. ASSUME NEW x \in Checks, Check(r, x) PROVE RevocationInv'
  <2>1. CASE Finish(r)
    BY <1>3, <2>1, <1>u, FinishCalm, CalmStep DEF Check
  <2>2. CASE ~Finish(r)
    <3> DEFINE pc == IF req[r].todo = {x} THEN Checked(r) ELSE req[r].pc
               rec == [req[r] EXCEPT !.todo = @ \ {x}, !.pc = pc]
    <3>1. req' = [req EXCEPT ![r] = rec] /\ req[r].pc = "check"
          /\ UNCHANGED <<issue, consent, faults>>
      BY <1>3, <2>2, <1>q DEF Check
    <3>2. rec.pc = pc /\ pc \in {"check", "consume", "issue"}
      BY <3>1, <1>q DEF RequestRecords, Checked
    <3> HIDE DEF rec, pc
    <3>3. ~Holds(rec)
      BY <3>2 DEF Holds
    <3> QED BY <3>1, <3>3, <1>u, OffCalm, OneRequestCalm, CalmStep
  <2> QED BY <2>1, <2>2
<1>4. CASE PollRecord(r)
  <2>1. CASE Finish(r)
    BY <1>4, <2>1, <1>u, FinishCalm, CalmStep DEF PollRecord
  <2>2. CASE ~Finish(r)
    <3> DEFINE rec == [req[r] EXCEPT !.pc = "check", !.todo = Checks]
    <3>1. /\ req' = [req EXCEPT ![r] = rec] /\ req[r].pc = "poll"
          /\ UNCHANGED <<issue, consent, faults>>
      BY <1>4, <2>2, <1>q DEF PollRecord
    <3>2. rec.pc = "check"
      BY <1>q DEF RequestRecords
    <3> HIDE DEF rec
    <3>3. ~Holds(rec)
      BY <3>2 DEF Holds
    <3> QED BY <3>1, <3>3, <1>u, OffCalm, OneRequestCalm, CalmStep
  <2> QED BY <2>1, <2>2
<1>5. ASSUME NEW x \in Checks, Recheck(r, x) PROVE RevocationInv'
  <2>1. CASE Goto(r, "undo")
    BY <1>5, <2>1, <1>u, GotoCalm, CalmStep DEF Recheck
  <2>2. CASE ~Goto(r, "undo")
    <3> DEFINE pc == IF req[r].todo = {x} THEN "record" ELSE req[r].pc
               rec == [req[r] EXCEPT !.todo = @ \ {x}, !.pc = pc]
    <3>1. /\ req' = [req EXCEPT ![r] = rec] /\ req[r].pc = "recheck" /\ Passes(r, x)
          /\ x \in req[r].todo /\ UNCHANGED <<issue, consent, faults>>
      BY <1>5, <2>2, <1>q DEF Recheck
    <3>2. /\ rec.pc = pc /\ rec.issue = req[r].issue /\ Agrees(rec, req[r])
          /\ rec.todo = req[r].todo \ {x} /\ pc \in {"recheck", "record"}
          /\ pc = "record" => req[r].todo = {x}
      BY <3>1, <1>q DEF RequestRecords, Agrees
    <3>3. req'[r] = rec /\ \A q \in Requests \ {r} : req'[q] = req[q]
      BY <3>1, <1>q
    <3> HIDE DEF rec, pc
    <3>4. RequestHolds(rec, req[r])
      BY <3>1, <3>2 DEF RequestHolds, Holds
    <3>5. Vouches(rec) => Vouches(req[r]) \/ x = "consent"
      BY <3>1, <3>2 DEF Vouches
    <3>6. CASE x # "consent"
      BY <3>1, <3>4, <3>5, <3>6, <1>u, OneRequestCalm, CalmStep
    <3>7. CASE x = "consent"
      <4>1. PICK i \in Issues : i = req[r].issue
        BY <1>q DEF RequestRecords
      <4>2. Agrees(req[r], issue[i])
        BY <3>1, <4>1 DEF RevocationInv, HoldersAgree, Holds
      <4>3. Covers(req[r].user, req[r].client, req[r].scope)
        BY <3>1, <3>7 DEF Passes
      <4>4. Backed(i)'
        BY <3>1, <4>2, <4>3 DEF Backed, Covers, Agrees
      <4>5. req'[r].issue = i
        BY <3>2, <3>3, <4>1
      <4>6. Backed(req[r].issue)'
        BY <4>4, <4>5 DEF Backed, Covers, Revoking
      <4>7. \A q \in Requests : RequestHolds(req'[q], req[q])
        BY <3>3, <3>4 DEF RequestHolds, Agrees
      <4>8. \A q \in Requests : Vouches(req'[q]) => Vouches(req[q]) \/ Backed(req[q].issue)'
        BY <3>3, <4>6
      <4>9. FamiliesStay /\ ConsentGrows /\ IssuesCalm
        BY <3>1, <3>3, <1>u DEF FamiliesStay
      <4>10. \A j \in Issues : Backed(j) => Backed(j)'
        BY <4>9, BackedKept DEF IssuesCalm
      <4>11. \A j \in Issues : issue'[j].given => Vouched(j)
        BY <3>1 DEF Vouched
      <4> QED BY <3>1, <4>7, <4>8, <4>9, <4>10, <4>11, RevocationStep DEF IssuesCalm
    <3> QED BY <3>6, <3>7
  <2> QED BY <2>1, <2>2
<1>6. CASE RecordGrant(r)
  <2>1. RequestsCalm
    BY <1>6, GotoCalm DEF RecordGrant
  <2>2. issue \in [Issues -> IssueRecords] /\ req[r].issue \in Issues
    BY <1>q DEF TypeOK, RequestRecords
  <2>3. \A i \in Issues : issue'[i].given = issue[i].given /\ issue'[i].st = issue[i].st
    BY <1>6, <2>2 DEF RecordGrant, IssueRecords
  <2>4. IssuesCalm /\ UNCHANGED <<consent, faults>>
    BY <1>6, <2>3, RecordKeepsIssues DEF IssuesCalm, RecordGrant
  <2> QED BY <2>1, <2>4, <1>u, CalmStep
<1>7. CASE Respond(r)
  <2>1. RequestsCalm
    BY <1>7, FinishCalm DEF Respond
  <2>2. issue \in [Issues -> IssueRecords] /\ req[r].issue \in Issues
    BY <1>q DEF TypeOK, RequestRecords
  <2>3. \A i \in Issues : /\ issue'[i].st = issue[i].st
                          /\ i # req[r].issue => issue'[i].given = issue[i].given
    BY <1>7, <2>2 DEF Respond, IssueRecords
  <2>4. Vouched(req[r].issue)
    BY <1>7 DEF Respond, Vouched, Vouches
  <2>5. \A i \in Issues : issue'[i].given => Vouched(i)
    BY <2>3, <2>4 DEF Vouched
  <2>6. IssuesKept /\ UNCHANGED <<consent, faults>>
    BY <1>7, RecordKeepsIssues DEF Respond
  <2>7. FamiliesStay /\ ConsentGrows
    BY <2>1, <2>6, <1>u DEF FamiliesStay, RequestsCalm
  <2>8. \A i \in Issues : Backed(i) => Backed(i)'
    BY <2>6, <2>7, BackedKept
  <2> QED BY <2>1, <2>3, <2>5, <2>6, <2>8, RevocationStep DEF RequestsCalm
<1>8. CASE Undo(r)
  BY <1>8, <1>u, FinishCalm, ClosingCalm, CalmStep DEF Undo
<1>9. CASE RevokeGrants(r)
  <2>1. IssuesCalm
    BY <1>9, RevokingCalm DEF RevokeGrants
  <2> QED BY <1>9, <2>1, <1>u, FinishCalm, CalmStep DEF RevokeGrants
<1>10. CASE RevokeFamilies(r)
  <2> DEFINE I == {i \in Issues : issue[i].user = req[r].user /\ issue[i].client = req[r].client}
  <2>1. /\ req[r].pc = "families" /\ issue' = Closing(I) /\ Goto(r, "grants")
        /\ UNCHANGED <<consent, faults>>
    BY <1>10 DEF RevokeFamilies
  <2>2. IssuesCalm
    BY <2>1, ClosingCalm
  <2>3. req'[r].pc = "grants" /\ \A q \in Requests \ {r} : req'[q] = req[q]
    BY <2>1, <1>q DEF Goto, RequestRecords
  <2>4. \A i \in I : issue'[i].st # "open"
    <3>1. \A i \in Issues : issue[i] \in IssueRecords
      BY DEF TypeOK
    <3> QED BY <2>1, <3>1 DEF Closing, IssueRecords
  <2>5. ASSUME NEW i \in Issues, issue'[i].st = "open", Backed(i) PROVE Backed(i)'
    <3>1. i \notin I /\ Agrees(issue'[i], issue[i])
      BY <2>2, <2>4, <2>5 DEF IssuesCalm, IssuesKept
    <3>2. Revoking(i) => Revoking(i)'
      BY <2>3, <3>1 DEF Revoking, Agrees
    <3> QED BY <2>1, <2>5, <3>1, <3>2 DEF Backed, Covers, Agrees
  <2>6. \A q \in Requests : RequestHolds(req'[q], req[q]) /\ (Vouches(req'[q]) => Vouches(req[q]))
    BY <2>3 DEF RequestHolds, Holds, Vouches, Agrees
  <2>7. \A i \in Issues : issue'[i].given => Vouched(i)
    BY <2>2 DEF IssuesCalm, Vouched
  <2> QED BY <2>1, <2>2, <2>5, <2>6, <2>7, RevocationStep DEF IssuesCalm
<1> QED BY <1>1, <1>2, <1>3, <1>4, <1>5, <1>6, <1>7, <1>8, <1>9, <1>10, IssueReaches DEF Continue

LEMMA StepReaches ==
  ASSUME TypeOK, TypeOK', RevocationInv, [Next]_vars
  PROVE  RevocationInv'
<1>u. /\ UNCHANGED issue => IssuesCalm
      /\ UNCHANGED req => RequestsCalm
      /\ UNCHANGED consent => ConsentGrows
  BY UnchangedCalm
<1>1. CASE UNCHANGED <<issue, req, consent, faults>>
  BY <1>1, <1>u, CalmStep
<1>2. ASSUME NEW r \in Requests, Crash(r) PROVE RevocationInv'
  <2>1. faults' # 0 /\ UNCHANGED issue /\ Finish(r)
    BY <1>2 DEF Crash, TypeOK
  <2>2. req'[r] = NoRequest /\ \A q \in Requests \ {r} : req'[q] = req[q]
    BY <2>1 DEF Finish, TypeOK
  <2>3. ~Holds(NoRequest)
    BY DEF Holds, NoRequest
  <2>4. HoldersAgree'
    BY <2>1, <2>2, <2>3 DEF RevocationInv, HoldersAgree, Holds, Agrees
  <2> QED BY <2>1, <2>4 DEF RevocationInv, NothingGivenEarly
<1>3. ASSUME NEW s \in Sessions, RevokeSession(s) PROVE RevocationInv'
  BY <1>3, <1>u, ClosingCalm, CalmStep DEF RevokeSession
<1>4. ASSUME NEW u \in Users, DisableUser(u) PROVE RevocationInv'
  BY <1>4, <1>u, ClosingCalm, CalmStep DEF DisableUser
<1>5. CASE DeleteResource
  <2>1. IssuesKept /\ UNCHANGED <<req, faults>>
    BY <1>5, RevokingKept DEF DeleteResource
  <2>2. ASSUME NEW i \in Issues PROVE issue'[i].st # "open" /\ issue'[i].given = issue[i].given
    <3>1. issue[i] \in IssueRecords
      BY DEF TypeOK
    <3> QED BY <1>5, <3>1 DEF DeleteResource, RevokeGrant, IssueRecords
  <2>3. RequestsCalm
    BY <2>1, <1>u
  <2>4. \A i \in Issues : issue'[i].given => Vouched(i)
    BY <2>2 DEF Vouched
  <2> QED BY <2>1, <2>2, <2>3, <2>4, RevocationStep DEF RequestsCalm
<1>6. CASE Environment
  BY <1>1, <1>3, <1>4, <1>5, <1>6 DEF Environment, AdminRevokeDevice, DeviceStart, CodeAlarm, Tick
<1> QED BY <1>1, <1>2, <1>6, StartReaches, ContinueReaches DEF Next, vars

LEMMA InitReaches == Init => RevocationInv
<1> SUFFICES ASSUME Init PROVE RevocationInv
  OBVIOUS
<1>1. \A r \in Requests : req[r].pc = "idle"
  BY DEF Init, NoRequest
<1>2. \A i \in Issues : issue[i].st = "none" /\ ~issue[i].given
  BY DEF Init
<1> QED BY <1>1, <1>2 DEF RevocationInv, HoldersAgree, NothingGivenEarly, VouchedAreBacked, Holds

(* Revoking an application, however its three statements interleave with a  *)
(* poll that is being answered, leaves no answered device with refresh      *)
(* access that no consent covers, unless a request died on the way.         *)
THEOREM RevocationReaches == Spec => []RevocationReachesDevices
<1>1. RevocationInv => RevocationReachesDevices
  BY DEF RevocationInv, VouchedAreBacked, Vouched, Backed, RevocationReachesDevices
<1> QED BY <1>1, InitReaches, StepReaches, GrantsTyped, PTL DEF Spec
=============================================================================
