------------------------ MODULE AdministratorsProofs ------------------------
(***************************************************************************)
(* Proofs about Administrators for every set of users, groups and           *)
(* concurrent requests, and every bound.                                    *)
(***************************************************************************)
EXTENDS Administrators, FiniteSetTheorems, TLAPS

-----------------------------------------------------------------------------
(* What a handler may rely on in its locals, wherever it stands.            *)

LocalsHold(q) ==
  /\ q.pc \in {"status", "write"} => q.to \in {"active", "disabled"}
  /\ q.pc = "write" => q.read \in {"active", "disabled"}
  /\ q.pc = "session" => q.to \in Strengths
  /\ q.pc \in {"newgroup", "visible"} => q.to \in {"public", "hidden"}
  /\ q.pc \in {"create", "assign", "replace"} => Cardinality(q.groups) <= MaxUserGroups
  /\ q.pc = "boot" => q.groups \subseteq {"admins", Employees}
  /\ q.pc \in {"add", "approve"} => \E g \in Groups : q.groups = {g}
  /\ q.pc = "remove" => "all" \notin q.groups
  /\ q.pc \notin {"idle", "newgroup", "visible", "drop"} => q.user \in Users

GoodRequests == {q \in RequestRecords : LocalsHold(q)}

TypeInv == TypeOK /\ req \in [Requests -> GoodRequests]

LEMMA RestIsGood == Rest \in GoodRequests
BY DEF Rest, GoodRequests, LocalsHold, RequestRecords, Pcs, Statuses, Strengths

(* Ending a request, moving it on and outdating what it read keep requests  *)
(* good.                                                                   *)
LEMMA FinishedGood ==
  ASSUME req \in [Requests -> GoodRequests], NEW r \in Requests
  PROVE  Finished(r) \in [Requests -> GoodRequests]
BY RestIsGood DEF Finished

LEMMA AtGood ==
  ASSUME req \in [Requests -> GoodRequests], NEW r \in Requests,
         NEW pc \in {"assign", "secret", "rollback", "tidy", "ask"},
         req[r].pc \notin {"idle", "newgroup", "visible", "drop"},
         pc = "assign" => Cardinality(req[r].groups) <= MaxUserGroups
  PROVE  At(r, pc) \in [Requests -> GoodRequests]
<1>1. [req[r] EXCEPT !.pc = pc] \in GoodRequests
  BY DEF GoodRequests, LocalsHold, RequestRecords, Pcs
<1> QED BY <1>1 DEF At

LEMMA OutdatedGood ==
  ASSUME NEW reqs \in [Requests -> GoodRequests], NEW u
  PROVE  Outdated(reqs, u) \in [Requests -> GoodRequests]
<1> SUFFICES ASSUME NEW r \in Requests
             PROVE  [reqs[r] EXCEPT !.current = FALSE] \in GoodRequests
  BY DEF Outdated
<1> QED BY DEF GoodRequests, LocalsHold, RequestRecords

LEMMA ReqAfterJoinGood ==
  ASSUME NEW reqs \in [Requests -> GoodRequests], NEW u, NEW joined
  PROVE  ReqAfterJoin(reqs, u, joined) \in [Requests -> GoodRequests]
BY OutdatedGood DEF ReqAfterJoin

(* What a handler knows of itself, by where it stands.                     *)
LEMMA LocalsOf ==
  ASSUME req \in [Requests -> GoodRequests], NEW r \in Requests
  PROVE  /\ LocalsHold(req[r]) /\ req[r].groups \in SUBSET Groups
         /\ req[r].to \in Statuses \cup Strengths \cup {"public", "hidden"}
         /\ req[r].read \in Statuses
BY DEF GoodRequests, RequestRecords

-----------------------------------------------------------------------------
(* A request that begins touches nothing but its own locals.               *)

LEMMA BeginStep ==
  ASSUME TypeInv, NEW r \in Requests, NEW locals \in GoodRequests, Begin(r, locals)
  PROVE  /\ req' \in [Requests -> GoodRequests] /\ work' \in 0..MaxWork
         /\ UNCHANGED <<user, member, pending, group, sess, boot, firsts, faults>>
BY AdministratorsAssumption DEF TypeInv, TypeOK, Begin

Begins(r) == \E locals \in GoodRequests : Begin(r, locals)

(* Every handler that starts, starts from locals it may rely on.            *)
LEMMA ManagedBegins ==
  ASSUME TypeInv, NEW r \in Requests, Managed(r)
  PROVE  Begins(r)
<1> USE DEF GoodRequests, LocalsHold, RequestRecords, Rest, Pcs, Statuses, Strengths
<1>1. CASE \E u \in Users, gs \in Choices :
             \/ ConsoleCreateUser(r, u, gs) \/ AdminCreateUser(r, u, gs)
             \/ ConsoleSetGroups(r, u, gs) \/ AdminSetGroups(r, u, gs)
  <2> PICK u \in Users, gs \in Choices : CreateUser(r, u, gs) \/ SetGroups(r, u, gs)
    BY <1>1 DEF ConsoleCreateUser, AdminCreateUser, ConsoleSetGroups, AdminSetGroups
  <2>1. gs \in SUBSET Groups
    BY AdministratorsAssumption
  <2>2. CASE CreateUser(r, u, gs)
    <3>1. [Rest EXCEPT !.pc = "create", !.user = u, !.groups = gs] \in GoodRequests
      BY <2>1, <2>2 DEF CreateUser
    <3> QED BY <3>1, <2>2 DEF CreateUser, Begins
  <2>3. CASE SetGroups(r, u, gs)
    <3>1. [Rest EXCEPT !.pc = "replace", !.user = u, !.groups = gs] \in GoodRequests
      BY <2>1, <2>3 DEF SetGroups
    <3> QED BY <3>1, <2>3 DEF SetGroups, Begins
  <2> QED BY <2>2, <2>3
<1>2. CASE \E u \in Users :
             \/ ConsoleDisable(r, u) \/ ConsoleEnable(r, u)
             \/ \E to \in {"active", "disabled"} : AdminPatchUser(r, u, to)
  <2> PICK u \in Users, to \in {"active", "disabled"} :
             Begin(r, [Rest EXCEPT !.pc = "status", !.user = u, !.to = to])
    BY <1>2 DEF ConsoleDisable, ConsoleEnable, AdminPatchUser
  <2>1. [Rest EXCEPT !.pc = "status", !.user = u, !.to = to] \in GoodRequests
    OBVIOUS
  <2> QED BY <2>1 DEF Begins
<1>3. CASE \E u \in Users, g \in Groups :
             \/ ConsoleAddMember(r, u, g) \/ ConsoleApprove(r, u, g)
             \/ ConsoleRemoveMember(r, u, g)
  <2> PICK u \in Users, g \in Groups :
             \/ ConsoleAddMember(r, u, g) \/ ConsoleApprove(r, u, g)
             \/ ConsoleRemoveMember(r, u, g)
    BY <1>3
  <2>1. CASE ConsoleAddMember(r, u, g)
    <3>1. [Rest EXCEPT !.pc = "add", !.user = u, !.groups = {g}] \in GoodRequests
      OBVIOUS
    <3> QED BY <3>1, <2>1 DEF ConsoleAddMember, Begins
  <2>2. CASE ConsoleApprove(r, u, g)
    <3>1. [Rest EXCEPT !.pc = "approve", !.user = u, !.groups = {g}] \in GoodRequests
      OBVIOUS
    <3> QED BY <3>1, <2>2 DEF ConsoleApprove, Begins
  <2>3. CASE ConsoleRemoveMember(r, u, g)
    <3>1. [Rest EXCEPT !.pc = "remove", !.user = u, !.groups = {g}] \in GoodRequests
      BY <2>3 DEF ConsoleRemoveMember
    <3> QED BY <3>1, <2>3 DEF ConsoleRemoveMember, Begins
  <2> QED BY <2>1, <2>2, <2>3
<1>4. CASE \E g \in Groups, visible \in {"public", "hidden"} :
             \/ ConsoleCreateGroup(r, g, visible) \/ AdminCreateGroup(r, g, visible)
             \/ ConsoleGroupSettings(r, g, visible) \/ AdminPatchGroup(r, g, visible)
  <2> PICK g \in Groups, visible \in {"public", "hidden"}, pc \in {"newgroup", "visible"} :
             Begin(r, [Rest EXCEPT !.pc = pc, !.groups = {g}, !.to = visible])
    <3>1. \A g \in Groups : Listed(g) => group[g] \in {"public", "hidden"}
      BY DEF TypeInv, TypeOK, Listed
    <3> QED BY <1>4, <3>1 DEF ConsoleCreateGroup, AdminCreateGroup, NewGroup,
                             ConsoleGroupSettings, AdminPatchGroup, Visible
  <2>1. [Rest EXCEPT !.pc = pc, !.groups = {g}, !.to = visible] \in GoodRequests
    OBVIOUS
  <2> QED BY <2>1 DEF Begins
<1>5. CASE \E g \in Groups : ConsoleDeleteGroup(r, g) \/ AdminDeleteGroup(r, g)
  <2> PICK g \in Groups : Begin(r, [Rest EXCEPT !.pc = "drop", !.groups = {g}])
    BY <1>5 DEF ConsoleDeleteGroup, AdminDeleteGroup, DropRead
  <2>1. [Rest EXCEPT !.pc = "drop", !.groups = {g}] \in GoodRequests
    OBVIOUS
  <2> QED BY <2>1 DEF Begins
<1> QED BY <1>1, <1>2, <1>3, <1>4, <1>5 DEF Managed

LEMMA OnTheirOwnBegins ==
  ASSUME TypeInv, NEW r \in Requests, OnTheirOwn(r)
  PROVE  Begins(r)
<1> USE DEF GoodRequests, LocalsHold, RequestRecords, Rest, Pcs, Statuses, Strengths
<1>1. CASE \E u \in Users, strength \in Strengths : Login(r, u, strength)
  <2> PICK u \in Users, strength \in Strengths : Login(r, u, strength)
    BY <1>1
  <2>1. [Rest EXCEPT !.pc = "session", !.user = u, !.to = strength] \in GoodRequests
    OBVIOUS
  <2> QED BY <2>1 DEF Login, Begins
<1>2. CASE \E u \in Users : BootstrapRead(r, u)
  <2> PICK u \in Users : BootstrapRead(r, u)
    BY <1>2
  <2> DEFINE gs == {g \in {"admins", Employees} : Listed(g)}
  <2>1. gs \in SUBSET Groups /\ gs \subseteq {"admins", Employees}
    BY AdministratorsAssumption DEF Groups, Protected
  <2>2. [Rest EXCEPT !.pc = "boot", !.user = u, !.groups = gs] \in GoodRequests
    <3> HIDE DEF gs
    <3> QED BY <2>1
  <2> QED BY <2>2 DEF BootstrapRead, Begins
<1>3. CASE \E u \in Users, g \in Groups : RequestById(r, u, g) \/ RequestByName(r, u, g)
  <2> PICK u \in Users, g \in Groups, pc \in {"asking", "askhidden"} :
             Begin(r, [Rest EXCEPT !.pc = pc, !.user = u, !.groups = {g}])
    BY <1>3 DEF RequestById, RequestByName
  <2>1. [Rest EXCEPT !.pc = pc, !.user = u, !.groups = {g}] \in GoodRequests
    OBVIOUS
  <2> QED BY <2>1 DEF Begins
<1> QED BY <1>1, <1>2, <1>3 DEF OnTheirOwn

-----------------------------------------------------------------------------
(* Type correctness.                                                       *)

(* A join updates requests and sign-ins within their types.                *)
LEMMA SessAfterJoinType ==
  ASSUME TypeInv, NEW u \in Users, NEW joined
  PROVE  SessAfterJoin(u, joined) \in [Users -> SUBSET Strengths]
BY DEF TypeInv, TypeOK, SessAfterJoin

LEMMA RequestsAfterJoinType ==
  ASSUME TypeInv, NEW u \in Users, NEW joined
  PROVE  RequestsAfterJoin(u, joined) \in [Users -> SUBSET Groups]
BY DEF TypeInv, TypeOK, RequestsAfterJoin

LEMMA RemovedType ==
  ASSUME TypeInv, NEW u \in Users, Removed(u)
  PROVE  /\ user' \in [Users -> Statuses] /\ member' \in [Users -> SUBSET Groups]
         /\ pending' \in [Users -> SUBSET Groups] /\ sess' \in [Users -> SUBSET Strengths]
BY DEF TypeInv, TypeOK, Removed, Statuses

(* The steps of handlers under way, one by one.                            *)
LEMMA ContinueTyped ==
  ASSUME TypeInv, NEW r \in Requests, Continue(r)
  PROVE  TypeInv'
<1> DEFINE u == req[r].user
           gs == req[r].groups
<1>t. /\ user \in [Users -> Statuses] /\ member \in [Users -> SUBSET Groups]
      /\ pending \in [Users -> SUBSET Groups] /\ group \in [Groups -> {"none", "public", "hidden"}]
      /\ sess \in [Users -> SUBSET Strengths] /\ boot \in BOOLEAN /\ firsts \in Nat
      /\ work \in 0..MaxWork /\ faults \in 0..MaxFaults /\ req \in [Requests -> GoodRequests]
      /\ {"admins", "all"} \subseteq Groups /\ gs \in SUBSET Groups /\ LocalsHold(req[r])
      /\ MaxFaults \in Nat
  BY LocalsOf, AdministratorsAssumption DEF TypeInv, TypeOK, Groups, Protected
<1>g. \A q : q \in GoodRequests => q \in RequestRecords
  BY DEF GoodRequests
<1> SUFFICES /\ user' \in [Users -> Statuses] /\ member' \in [Users -> SUBSET Groups]
             /\ pending' \in [Users -> SUBSET Groups]
             /\ group' \in [Groups -> {"none", "public", "hidden"}]
             /\ sess' \in [Users -> SUBSET Strengths] /\ boot' \in BOOLEAN /\ firsts' \in Nat
             /\ req' \in [Requests -> GoodRequests]
             /\ work' \in 0..MaxWork /\ faults' \in 0..MaxFaults
  BY <1>g DEF TypeInv, TypeOK
<1>f. Finished(r) \in [Requests -> GoodRequests]
  BY <1>t, FinishedGood
<1>u. req[r].pc \notin {"idle", "newgroup", "visible", "drop"} => u \in Users
  BY <1>t DEF LocalsHold
<1>a. \A pc \in {"secret", "rollback", "tidy", "ask"} :
        req[r].pc \notin {"idle", "newgroup", "visible", "drop"}
          => At(r, pc) \in [Requests -> GoodRequests]
  BY <1>t, AtGood
<1>1. CASE OpenSession(r)
  <2>1. req[r].to \in Strengths /\ u \in Users
    BY <1>1, <1>t, <1>u DEF OpenSession, LocalsHold
  <2> QED BY <1>1, <2>1, <1>t, <1>f DEF OpenSession
<1>2. CASE BootstrapWrite(r)
  <2>1. u \in Users
    BY <1>2, <1>u DEF BootstrapWrite
  <2>2. CASE ClaimFree(r)
    <3>1. [user EXCEPT ![u] = "active"] \in [Users -> Statuses]
      BY <2>1, <1>t DEF Statuses
    <3>2. [member EXCEPT ![u] = gs \cup {"all"}] \in [Users -> SUBSET Groups]
      BY <2>1, <1>t
    <3> QED BY <1>2, <2>2, <3>1, <3>2, <1>t, <1>f DEF BootstrapWrite
  <2>3. CASE ~ClaimFree(r)
    BY <1>2, <2>3, <1>t, <1>f DEF BootstrapWrite
  <2> QED BY <2>2, <2>3
<1>3. CASE InsertUser(r)
  <2>1. req[r].pc = "create" /\ At(r, "assign") \in [Requests -> GoodRequests]
    BY <1>3, <1>t, AtGood DEF InsertUser, LocalsHold
  <2> QED BY <1>3, <2>1, <1>t, <1>u, <1>f DEF InsertUser, Statuses, BirthGroups
<1>4. CASE AssignGroups(r)
  <2>1. req[r].pc = "assign" /\ u \in Users
    BY <1>4, <1>u DEF AssignGroups
  <2>2. ReqAfterJoin(At(r, "secret"), u, gs) \in [Requests -> GoodRequests]
    BY <2>1, <1>a, ReqAfterJoinGood
  <2>3. At(r, "rollback") \in [Requests -> GoodRequests]
    BY <2>1, <1>a
  <2> QED BY <1>4, <2>1, <2>2, <2>3, <1>t, SessAfterJoinType, RequestsAfterJoinType
          DEF AssignGroups
<1>5. CASE GiveSecret(r)
  BY <1>5, <1>t, <1>f, OutdatedGood DEF GiveSecret
<1>6. CASE SecretFails(r)
  BY <1>6, <1>t, <1>a DEF SecretFails
<1>7. CASE Rollback(r)
  <2>1. u \in Users
    BY <1>7, <1>u DEF Rollback
  <2> QED BY <1>7, <2>1, <1>t, <1>f, RemovedType DEF Rollback
<1>8. CASE StatusRead(r)
  <2>1. u \in Users /\ req[r].pc = "status"
    BY <1>8, <1>u DEF StatusRead
  <2>2. Exists(u) => [req[r] EXCEPT !.pc = "write", !.read = user[u], !.current = TRUE]
                       \in GoodRequests
    <3> SUFFICES ASSUME Exists(u)
                 PROVE  [req[r] EXCEPT !.pc = "write", !.read = user[u], !.current = TRUE]
                          \in GoodRequests
      OBVIOUS
    <3>1. user[u] \in {"active", "disabled"} /\ req[r].to \in {"active", "disabled"}
      BY <2>1, <1>t DEF Exists, LocalsHold
    <3> DEFINE q == [req[r] EXCEPT !.pc = "write", !.read = user[u], !.current = TRUE]
    <3>2. /\ q \in RequestRecords /\ q.pc = "write" /\ q.user = u
          /\ q.to \in {"active", "disabled"} /\ q.read \in {"active", "disabled"}
      <4>1. req[r] \in RequestRecords
        BY <1>t DEF GoodRequests
      <4>2. q \in RequestRecords
        BY <3>1, <4>1 DEF RequestRecords, Pcs, Statuses
      <4>3. /\ q.pc = "write" /\ q.user = req[r].user /\ q.to = req[r].to
            /\ q.read = user[u]
        BY <4>1 DEF RequestRecords
      <4> QED BY <3>1, <4>2, <4>3
    <3> HIDE DEF q
    <3>3. q \in GoodRequests
      BY <3>2, <2>1 DEF GoodRequests, LocalsHold
    <3> QED BY <3>3 DEF q
  <2> QED BY <1>8, <2>1, <2>2, <1>t, <1>f DEF StatusRead
<1>9. CASE StatusWrite(r)
  <2>1. u \in Users /\ req[r].to \in Statuses
    BY <1>9, <1>t, <1>u DEF StatusWrite, LocalsHold, Statuses
  <2>2. Outdated(Finished(r), u) \in [Requests -> GoodRequests]
    BY <1>f, OutdatedGood
  <2> QED BY <1>9, <2>1, <2>2, <1>t, <1>f DEF StatusWrite
<1>10. CASE ReplaceGroups(r)
  <2>1. u \in Users
    BY <1>10, <1>u DEF ReplaceGroups
  <2>2. ReqAfterJoin(Finished(r), u, gs) \in [Requests -> GoodRequests]
    BY <1>f, ReqAfterJoinGood
  <2> QED BY <1>10, <2>1, <2>2, <1>f, <1>t, SessAfterJoinType, RequestsAfterJoinType
          DEF ReplaceGroups
<1>11. CASE AddMember(r)
  <2>1. u \in Users /\ req[r].pc \in {"add", "approve"}
    BY <1>11, <1>u DEF AddMember
  <2>2. ReqAfterJoin(At(r, "tidy"), u, gs) \in [Requests -> GoodRequests]
    BY <2>1, <1>a, ReqAfterJoinGood
  <2>3. ASSUME NEW to \in {"weak", "strong"}
        PROVE  [req EXCEPT ![r].pc = "explain", ![r].to = to] \in [Requests -> GoodRequests]
    <3> DEFINE q == [req[r] EXCEPT !.pc = "explain", !.to = to]
    <3>1. q \in RequestRecords /\ q.pc = "explain" /\ q.user = u
      <4>1. req[r] \in RequestRecords
        BY <1>t DEF GoodRequests
      <4>2. q \in RequestRecords
        BY <4>1 DEF RequestRecords, Pcs, Strengths
      <4>3. q.pc = "explain" /\ q.user = req[r].user
        BY <4>1 DEF RequestRecords
      <4> QED BY <4>2, <4>3
    <3>2. [req EXCEPT ![r].pc = "explain", ![r].to = to] = [req EXCEPT ![r] = q]
      BY <1>t
    <3> HIDE DEF q
    <3>3. q \in GoodRequests
      BY <3>1, <2>1 DEF GoodRequests, LocalsHold
    <3> QED BY <3>2, <3>3, <1>t
  <2>4. CASE /\ member' = [member EXCEPT ![u] = @ \cup gs]
             /\ pending' = RequestsAfterJoin(u, gs)
             /\ sess' = SessAfterJoin(u, gs)
             /\ req' = ReqAfterJoin(At(r, "tidy"), u, gs)
    BY <1>11, <2>4, <2>1, <2>2, <1>t, SessAfterJoinType, RequestsAfterJoinType DEF AddMember
  <2>5. CASE /\ UNCHANGED <<member, pending, sess>>
             /\ req' = [req EXCEPT ![r].pc = "explain",
                                   ![r].to = IF req[r].pc = "approve" THEN "weak" ELSE "strong"]
    BY <1>11, <2>5, <2>3, <1>t DEF AddMember
  <2> QED BY <1>11, <2>4, <2>5 DEF AddMember
<1>12. CASE AddExplain(r)
  BY <1>12, <1>t, <1>f, <1>a DEF AddExplain
<1>13. CASE AddTidy(r)
  BY <1>13, <1>t, <1>f, <1>u DEF AddTidy
<1>14. CASE RemoveMember(r)
  BY <1>14, <1>t, <1>f, <1>u DEF RemoveMember
<1>15. CASE AskRead(r)
  BY <1>15, <1>t, <1>f, <1>a DEF AskRead
<1>16. CASE AskWrite(r)
  BY <1>16, <1>t, <1>f, <1>u DEF AskWrite
<1>17. CASE InsertGroup(r)
  BY <1>17, <1>t, <1>f DEF InsertGroup, LocalsHold
<1>18. CASE UpdateGroup(r)
  BY <1>18, <1>t, <1>f DEF UpdateGroup, LocalsHold
<1>19. CASE DropGroup(r)
  BY <1>19, <1>t, <1>f DEF DropGroup, RowGone
<1> QED BY <1>1, <1>2, <1>3, <1>4, <1>5, <1>6, <1>7, <1>8, <1>9, <1>10, <1>11, <1>12,
           <1>13, <1>14, <1>15, <1>16, <1>17, <1>18, <1>19 DEF Continue

LEMMA AtOnceTyped ==
  ASSUME TypeInv, AtOnce
  PROVE  TypeInv'
<1>1. ASSUME NEW u \in Users, RevokeSessions(u) PROVE TypeInv'
  BY <1>1, AdministratorsAssumption DEF RevokeSessions, TypeInv, TypeOK
<1>2. ASSUME NEW u \in Users, DeleteSelf(u) PROVE TypeInv'
  BY <1>2, AdministratorsAssumption, RemovedType DEF DeleteSelf, TypeInv, TypeOK
<1>3. ASSUME NEW u \in Users, NEW g \in Groups, Withdrawn(u, g) PROVE TypeInv'
  BY <1>3, AdministratorsAssumption DEF Withdrawn, TypeInv, TypeOK
<1> QED BY <1>1, <1>2, <1>3 DEF AtOnce, CancelRequest, RejectRequest

LEMMA CrashTyped ==
  ASSUME TypeInv, NEW r \in Requests, Crash(r)
  PROVE  TypeInv'
BY FinishedGood, AdministratorsAssumption DEF Crash, TypeInv, TypeOK, GoodRequests

LEMMA BeginsTyped ==
  ASSUME TypeInv, NEW r \in Requests, Begins(r)
  PROVE  /\ TypeInv'
         /\ UNCHANGED <<user, member, pending, group, sess, boot, firsts, faults>>
<1>1. PICK locals \in GoodRequests : Begin(r, locals)
  BY DEF Begins
<1>2. /\ req' \in [Requests -> GoodRequests] /\ work' \in 0..MaxWork
      /\ UNCHANGED <<user, member, pending, group, sess, boot, firsts, faults>>
  BY <1>1, BeginStep
<1>3. req' \in [Requests -> RequestRecords]
  BY <1>2 DEF GoodRequests
<1> QED BY <1>2, <1>3 DEF TypeInv, TypeOK

LEMMA InitTyped == Init => TypeInv
<1> SUFFICES ASSUME Init PROVE TypeInv
  OBVIOUS
<1>1. Rest \in RequestRecords /\ Rest \in GoodRequests
  BY RestIsGood DEF GoodRequests
<1>2. PICK old \in BOOLEAN :
        /\ user = [u \in Users |-> IF old /\ u \in Root \cup Staff THEN "active" ELSE "none"]
        /\ member = [u \in Users |-> CASE old /\ u \in Root -> Protected
                                       [] old /\ u \in Staff -> {"all"}
                                       [] OTHER -> {}]
        /\ boot = old /\ firsts = IF old THEN 1 ELSE 0
  BY DEF Init
<1>3. user \in [Users -> Statuses]
  BY <1>2 DEF Statuses
<1>4. member \in [Users -> SUBSET Groups]
  BY <1>2 DEF Groups, Protected
<1> QED BY <1>1, <1>2, <1>3, <1>4, AdministratorsAssumption DEF Init, TypeInv, TypeOK

LEMMA StepTyped ==
  ASSUME TypeInv, [Next]_vars
  PROVE  TypeInv'
<1>1. CASE UNCHANGED vars
  BY <1>1 DEF TypeInv, TypeOK, vars
<1>2. ASSUME NEW r \in Requests, Managed(r) \/ OnTheirOwn(r) \/ Continue(r) \/ Crash(r)
      PROVE  TypeInv'
  BY <1>2, ManagedBegins, OnTheirOwnBegins, BeginsTyped, ContinueTyped, CrashTyped
<1> QED BY <1>1, <1>2, AtOnceTyped DEF Next

(* The inductive form: the types, and what handlers rely on over an await.  *)
THEOREM TypeInvariant == Spec => []TypeInv
BY InitTyped, StepTyped, PTL DEF Spec

(* Accounts, memberships, requests, groups and sign-ins keep their types,   *)
(* and a status or a visibility that a handler carries over an await is one *)
(* it may write.                                                           *)
THEOREM AdministratorsTyped == Spec => []TypeOK
<1>1. TypeInv => TypeOK
  BY DEF TypeInv
<1> QED BY <1>1, TypeInvariant, PTL

-----------------------------------------------------------------------------
(* Memberships.  MembershipHolds is inductive together with: an account     *)
(* that is not there has no memberships and no requests, so that one that   *)
(* appears starts from nothing.                                            *)

RowsHold(u) ==
  /\ member[u] \cap pending[u] = {}
  /\ Exists(u) => "all" \in member[u] /\ Cardinality(member[u] \ {"all"}) <= MaxUserGroups
  /\ ~Exists(u) => member[u] = {} /\ pending[u] = {}

MembershipInv == \A u \in Users : RowsHold(u)

(* Fewer groups than a set within the limit are within the limit.          *)
LEMMA LimitKept ==
  ASSUME NEW S \in SUBSET Groups, NEW T \in SUBSET S, Cardinality(S) <= MaxUserGroups
  PROVE  Cardinality(T) <= MaxUserGroups
<1>1. IsFiniteSet(S)
  BY FS_Subset, AdministratorsAssumption
<1>2. Cardinality(S) \in Nat /\ Cardinality(T) \in Nat /\ Cardinality(T) <= Cardinality(S)
  BY <1>1, FS_Subset, FS_CardinalityType
<1> QED BY <1>2, AdministratorsAssumption

(* The memberships that setUserGroups leaves behind.                       *)
LEMMA LimitAfterReplace ==
  ASSUME NEW gs \in SUBSET Groups, NEW old, Cardinality(gs) <= MaxUserGroups
  PROVE  Cardinality((gs \cup (old \cap {"all"})) \ {"all"}) <= MaxUserGroups
<1>1. (gs \cup (old \cap {"all"})) \ {"all"} \in SUBSET gs
  OBVIOUS
<1> QED BY <1>1, LimitKept

(* The memberships after one more, where there was room.                   *)
LEMMA LimitAfterAdd ==
  ASSUME NEW old \in SUBSET Groups, NEW g \in Groups,
         Cardinality(old \ {"all"}) < MaxUserGroups
  PROVE  Cardinality((old \cup {g}) \ {"all"}) <= MaxUserGroups
<1> DEFINE T == old \ {"all"}
<1>1. IsFiniteSet(T) /\ Cardinality(T) \in Nat
  BY FS_Subset, FS_CardinalityType, AdministratorsAssumption
<1>2. Cardinality(T \cup {g}) <= MaxUserGroups
  <2>1. Cardinality(T \cup {g}) \in {Cardinality(T), Cardinality(T) + 1}
    BY <1>1, FS_AddElement
  <2>2. Cardinality(T) < MaxUserGroups /\ MaxUserGroups \in Nat
    BY AdministratorsAssumption
  <2> HIDE DEF T
  <2> QED BY <1>1, <2>1, <2>2
<1>3. (old \cup {g}) \ {"all"} \in SUBSET (T \cup {g}) /\ T \cup {g} \in SUBSET Groups
  OBVIOUS
<1> QED BY <1>2, <1>3, LimitKept

(* The first administrator's groups are within the limit.                  *)
LEMMA LimitAfterBootstrap ==
  ASSUME NEW gs \in SUBSET {"admins", Employees}
  PROVE  Cardinality((gs \cup {"all"}) \ {"all"}) <= MaxUserGroups
<1>1. {"admins", Employees} \in SUBSET Groups
  BY AdministratorsAssumption DEF Groups, Protected
<1>2. Cardinality({"admins"}) = 1 /\ IsFiniteSet({"admins"})
  BY FS_Singleton
<1>3. Cardinality({"admins"} \cup {Employees}) \in {1, 2}
  BY <1>2, FS_AddElement
<1>4. {"admins"} \cup {Employees} = {"admins", Employees}
  OBVIOUS
<1>5. Cardinality({"admins", Employees}) <= MaxUserGroups
  BY <1>3, <1>4, AdministratorsAssumption
<1>6. (gs \cup {"all"}) \ {"all"} \in SUBSET {"admins", Employees}
  OBVIOUS
<1> QED BY <1>1, <1>5, <1>6, LimitKept

(* An account whose status stays, that joins nothing and whose requests     *)
(* only go, keeps what holds of it.                                        *)
LEMMA RowsKept ==
  ASSUME TypeInv, NEW u \in Users, RowsHold(u), user'[u] = user[u],
         member'[u] \in SUBSET member[u], pending'[u] \in SUBSET pending[u],
         "all" \in member[u] => "all" \in member'[u]
  PROVE  RowsHold(u)'
<1>1. member[u] \ {"all"} \in SUBSET Groups
  BY DEF TypeInv, TypeOK
<1>2. member'[u] \ {"all"} \in SUBSET (member[u] \ {"all"})
  OBVIOUS
<1>3. Exists(u) => Cardinality(member'[u] \ {"all"}) <= MaxUserGroups
  BY <1>1, <1>2, LimitKept DEF RowsHold
<1> QED BY <1>3 DEF RowsHold, Exists

(* A batch that gives u the groups now, and clears the requests they answer.*)
LEMMA RowsAfterJoin ==
  ASSUME TypeInv, MembershipInv, NEW u \in Users, Exists(u), NEW now \in SUBSET Groups,
         NEW gs \in SUBSET Groups, now \in SUBSET (member[u] \cup gs),
         "all" \in now, Cardinality(now \ {"all"}) <= MaxUserGroups,
         member' = [member EXCEPT ![u] = now], pending' = RequestsAfterJoin(u, gs),
         UNCHANGED user
  PROVE  MembershipInv'
<1>t. /\ member \in [Users -> SUBSET Groups] /\ pending \in [Users -> SUBSET Groups]
      /\ user \in [Users -> Statuses]
  BY DEF TypeInv, TypeOK
<1> SUFFICES ASSUME NEW v \in Users PROVE RowsHold(v)'
  BY DEF MembershipInv
<1>1. CASE v # u
  <2>1. user'[v] = user[v] /\ member'[v] = member[v] /\ pending'[v] = pending[v]
    BY <1>1, <1>t DEF RequestsAfterJoin
  <2> QED BY <2>1, RowsKept DEF MembershipInv
<1>2. CASE v = u
  <2>1. member'[u] = now /\ pending'[u] = pending[u] \ (gs \ member[u])
    BY <1>t DEF RequestsAfterJoin
  <2>2. member[u] \cap pending[u] = {}
    BY DEF MembershipInv, RowsHold
  <2>3. member'[u] \cap pending'[u] = {}
    BY <2>1, <2>2
  <2> QED BY <1>2, <2>1, <2>3 DEF RowsHold, Exists
<1> QED BY <1>1, <1>2

(* An account that goes takes its rows with it.                            *)
LEMMA RowsAfterRemoved ==
  ASSUME TypeInv, MembershipInv, NEW u \in Users, Removed(u)
  PROVE  MembershipInv'
<1>t. /\ member \in [Users -> SUBSET Groups] /\ pending \in [Users -> SUBSET Groups]
      /\ user \in [Users -> Statuses]
  BY DEF TypeInv, TypeOK
<1> SUFFICES ASSUME NEW v \in Users PROVE RowsHold(v)'
  BY DEF MembershipInv
<1>1. CASE v # u
  <2>1. user'[v] = user[v] /\ member'[v] = member[v] /\ pending'[v] = pending[v]
    BY <1>1, <1>t DEF Removed
  <2> QED BY <2>1, RowsKept DEF MembershipInv
<1>2. CASE v = u
  <2>1. user'[u] = "deleted" /\ member'[u] = {} /\ pending'[u] = {}
    BY <1>t DEF Removed
  <2> QED BY <1>2, <2>1 DEF RowsHold, Exists
<1> QED BY <1>1, <1>2

(* An account that appears starts with the groups gs and no requests.       *)
LEMMA RowsAfterInsert ==
  ASSUME TypeInv, MembershipInv, NEW u \in Users, user[u] = "none", NEW gs \in SUBSET Groups,
         "all" \in gs, Cardinality(gs \ {"all"}) <= MaxUserGroups,
         user' = [user EXCEPT ![u] = "active"], member' = [member EXCEPT ![u] = gs],
         UNCHANGED pending
  PROVE  MembershipInv'
<1>t. /\ member \in [Users -> SUBSET Groups] /\ pending \in [Users -> SUBSET Groups]
      /\ user \in [Users -> Statuses]
  BY DEF TypeInv, TypeOK
<1> SUFFICES ASSUME NEW v \in Users PROVE RowsHold(v)'
  BY DEF MembershipInv
<1>1. CASE v # u
  <2>1. user'[v] = user[v] /\ member'[v] = member[v] /\ pending'[v] = pending[v]
    BY <1>1, <1>t
  <2> QED BY <2>1, RowsKept DEF MembershipInv
<1>2. CASE v = u
  <2>1. pending[u] = {}
    BY DEF MembershipInv, RowsHold, Exists
  <2>2. user'[u] = "active" /\ member'[u] = gs /\ pending'[u] = {}
    BY <1>t, <2>1
  <2> QED BY <1>2, <2>2 DEF RowsHold, Exists
<1> QED BY <1>1, <1>2

LEMMA RowsUnchanged ==
  ASSUME TypeInv, MembershipInv, UNCHANGED <<user, member>>,
         \A u \in Users : pending'[u] \in SUBSET pending[u]
  PROVE  MembershipInv'
BY RowsKept DEF MembershipInv

LEMMA ContinueMembership ==
  ASSUME TypeInv, MembershipInv, NEW r \in Requests, Continue(r)
  PROVE  MembershipInv'
<1> DEFINE u == req[r].user
           gs == req[r].groups
<1>t. /\ user \in [Users -> Statuses] /\ member \in [Users -> SUBSET Groups]
      /\ pending \in [Users -> SUBSET Groups]
      /\ gs \in SUBSET Groups /\ LocalsHold(req[r]) /\ {"all", "admins"} \subseteq Groups
  BY LocalsOf DEF TypeInv, TypeOK, Groups, Protected
<1>u. req[r].pc \notin {"idle", "newgroup", "visible", "drop"} => u \in Users
  BY <1>t DEF LocalsHold
<1>h. \A v \in Users : Exists(v) => "all" \in member[v]
  BY DEF MembershipInv, RowsHold
<1>1. CASE UNCHANGED <<user, member, pending>>
  BY <1>1, RowsUnchanged
<1>2. CASE BootstrapWrite(r)
  <2>1. u \in Users /\ gs \in SUBSET {"admins", Employees}
    BY <1>2, <1>t, <1>u DEF BootstrapWrite, LocalsHold
  <2>2. CASE ClaimFree(r)
    <3>1. Cardinality((gs \cup {"all"}) \ {"all"}) <= MaxUserGroups
      BY <2>1, LimitAfterBootstrap
    <3>2. /\ user[u] = "none" /\ user' = [user EXCEPT ![u] = "active"]
          /\ member' = [member EXCEPT ![u] = gs \cup {"all"}] /\ UNCHANGED pending
      BY <1>2, <2>2 DEF BootstrapWrite, ClaimFree
    <3>3. gs \cup {"all"} \in SUBSET Groups /\ "all" \in gs \cup {"all"}
      BY <1>t
    <3> HIDE DEF gs, u
    <3> QED BY <2>1, <3>1, <3>2, <3>3, RowsAfterInsert
  <2>3. CASE ~ClaimFree(r)
    BY <1>1, <1>2, <2>3 DEF BootstrapWrite
  <2> QED BY <2>2, <2>3
<1>3. CASE InsertUser(r)
  <2>1. u \in Users
    BY <1>3, <1>u DEF InsertUser
  <2>2. CASE user[u] = "none"
    <3>1. {"all"} \ {"all"} = ({} \cup {"all"}) \ {"all"}
      OBVIOUS
    <3>2. Cardinality({"all"} \ {"all"}) <= MaxUserGroups
      BY <3>1, LimitAfterBootstrap
    <3>3. /\ user' = [user EXCEPT ![u] = "active"]
          /\ member' = [member EXCEPT ![u] = {"all"}] /\ UNCHANGED pending
      BY <1>3, <2>2 DEF InsertUser, BirthGroups
    <3>4. {"all"} \in SUBSET Groups
      BY <1>t
    <3> HIDE DEF u
    <3> QED BY <2>1, <2>2, <3>2, <3>3, <3>4, RowsAfterInsert
  <2>3. CASE user[u] # "none"
    BY <1>1, <1>3, <2>3 DEF InsertUser
  <2> QED BY <2>2, <2>3
<1>4. CASE AssignGroups(r) \/ ReplaceGroups(r)
  <2>1. u \in Users /\ Cardinality(gs) <= MaxUserGroups
    BY <1>4, <1>t, <1>u DEF AssignGroups, ReplaceGroups, LocalsHold
  <2> DEFINE now == gs \cup (member[u] \cap {"all"})
  <2>2. CASE /\ Exists(u) /\ member' = [member EXCEPT ![u] = gs \cup (@ \cap {"all"})]
             /\ pending' = RequestsAfterJoin(u, gs) /\ UNCHANGED user
    <3>1. Cardinality(now \ {"all"}) <= MaxUserGroups
      BY <2>1, <1>t, LimitAfterReplace
    <3>2. now \in SUBSET Groups /\ "all" \in now /\ now \in SUBSET (member[u] \cup gs)
      BY <2>1, <2>2, <1>t, <1>h
    <3>3. member' = [member EXCEPT ![u] = now]
      BY <2>2
    <3> HIDE DEF now, gs, u
    <3> QED BY <2>1, <2>2, <3>1, <3>2, <3>3, <1>t, RowsAfterJoin
  <2> QED BY <1>1, <1>4, <2>2 DEF AssignGroups, ReplaceGroups
<1>7. CASE Rollback(r)
  BY <1>7, <1>1, <1>u, RowsAfterRemoved DEF Rollback
<1>9. CASE StatusWrite(r)
  <2>1. u \in Users /\ req[r].to \in {"active", "disabled"} /\ req[r].read \in {"active", "disabled"}
    BY <1>9, <1>t, <1>u DEF StatusWrite, LocalsHold
  <2>2. CASE user' = user
    BY <1>1, <1>9, <2>2 DEF StatusWrite
  <2>3. CASE user' # user
    <3>1. user[u] = req[r].read /\ user' = [user EXCEPT ![u] = req[r].to]
      BY <1>9, <2>3 DEF StatusWrite
    <3>2. \A v \in Users : Exists(v)' <=> Exists(v)
      BY <2>1, <3>1, <1>t DEF Exists
    <3>3. UNCHANGED <<member, pending>>
      BY <1>9 DEF StatusWrite
    <3> QED BY <3>2, <3>3 DEF MembershipInv, RowsHold
  <2> QED BY <2>2, <2>3
<1>11. CASE AddMember(r)
  <2>1. u \in Users
    BY <1>11, <1>u DEF AddMember
  <2>2. CASE Exists(u) /\ RoomFor(u) /\ member' = [member EXCEPT ![u] = @ \cup gs]
             /\ pending' = RequestsAfterJoin(u, gs)
    <3>1. PICK g \in Groups : gs = {g}
      BY <1>11, <1>t DEF AddMember, LocalsHold
    <3>2. Cardinality((member[u] \cup gs) \ {"all"}) <= MaxUserGroups
      BY <2>1, <2>2, <3>1, <1>t, LimitAfterAdd DEF RoomFor
    <3>3. member[u] \cup gs \in SUBSET Groups /\ "all" \in member[u] \cup gs
      BY <2>1, <2>2, <1>t, <1>h
    <3>4. UNCHANGED user
      BY <1>11 DEF AddMember
    <3> HIDE DEF gs, u
    <3> QED BY <2>1, <2>2, <3>2, <3>3, <3>4, <1>t, RowsAfterJoin
  <2> QED BY <1>1, <1>11, <2>2 DEF AddMember
<1>13. CASE AddTidy(r)
  BY <1>13, <1>t, <1>u, RowsUnchanged DEF AddTidy
<1>14. CASE RemoveMember(r)
  <2>1. u \in Users /\ "all" \notin gs /\ UNCHANGED <<user, pending>>
    BY <1>14, <1>t, <1>u DEF RemoveMember, LocalsHold
  <2>2. \A v \in Users : /\ member'[v] \in SUBSET member[v]
                         /\ "all" \in member[v] => "all" \in member'[v]
    BY <1>14, <2>1, <1>t DEF RemoveMember
  <2> QED BY <2>1, <2>2, RowsKept DEF MembershipInv
<1>16. CASE AskWrite(r)
  <2>1. u \in Users /\ UNCHANGED <<user, member>>
    BY <1>16, <1>u DEF AskWrite
  <2>2. CASE Exists(u)
    <3> SUFFICES ASSUME NEW v \in Users PROVE RowsHold(v)'
      BY DEF MembershipInv
    <3>1. CASE v # u
      <4>1. pending'[v] = pending[v]
        BY <1>16, <2>1, <3>1, <1>t DEF AskWrite
      <4> QED BY <2>1, <4>1, RowsKept DEF MembershipInv
    <3>2. CASE v = u
      <4>1. \A g \in pending'[u] : g \in pending[u] \/ g \notin member[u]
        BY <1>16, <2>1, <2>2, <1>t DEF AskWrite, Requestable
      <4>2. RowsHold(u)
        BY <2>1 DEF MembershipInv
      <4> QED BY <2>1, <2>2, <3>2, <4>1, <4>2 DEF RowsHold, Exists
    <3> QED BY <3>1, <3>2
  <2>3. CASE ~Exists(u)
    BY <1>16, <2>1, <2>3, <1>1 DEF AskWrite
  <2> QED BY <2>2, <2>3
<1>19. CASE DropGroup(r)
  <2> DEFINE gone == gs \ Protected
  <2>1. /\ UNCHANGED user /\ "all" \notin gone
        /\ \A v \in Users : member'[v] = member[v] \ gone /\ pending'[v] = pending[v] \ gone
    BY <1>19 DEF DropGroup, Protected
  <2>2. \A v \in Users : /\ member'[v] \in SUBSET member[v] /\ pending'[v] \in SUBSET pending[v]
                         /\ "all" \in member[v] => "all" \in member'[v]
    BY <2>1
  <2> QED BY <2>1, <2>2, RowsKept DEF MembershipInv
<1> QED BY <1>1, <1>2, <1>3, <1>4, <1>7, <1>9, <1>11, <1>13, <1>14, <1>16, <1>19
        DEF Continue, OpenSession, GiveSecret, SecretFails, StatusRead, AddExplain, AskRead,
            InsertGroup, UpdateGroup

LEMMA InitMembership == Init => MembershipInv
<1> SUFFICES ASSUME Init, NEW u \in Users PROVE RowsHold(u)
  BY DEF MembershipInv
<1>1. pending[u] = {}
  BY DEF Init
<1>2. PICK old \in BOOLEAN :
        /\ user = [v \in Users |-> IF old /\ v \in Root \cup Staff THEN "active" ELSE "none"]
        /\ member = [v \in Users |-> CASE old /\ v \in Root -> Protected
                                       [] old /\ v \in Staff -> {"all"}
                                       [] OTHER -> {}]
  BY DEF Init
<1>3. CASE old /\ u \in Root
  <2>1. user[u] = "active" /\ member[u] = {"admins"} \cup {"all"}
    <3>1. user[u] = "active"
      BY <1>2, <1>3
    <3>2. member[u] = CASE old /\ u \in Root -> Protected
                        [] old /\ u \in Staff -> {"all"}
                        [] OTHER -> {}
      BY <1>2
    <3>3. member[u] = Protected
      BY <3>2, <1>3, AdministratorsAssumption
    <3> QED BY <3>1, <3>3 DEF Protected
  <2>2. Cardinality(({"admins"} \cup {"all"}) \ {"all"}) <= MaxUserGroups
    BY LimitAfterBootstrap
  <2> QED BY <1>1, <2>1, <2>2 DEF RowsHold, Exists
<1>4. CASE old /\ u \notin Root /\ u \in Staff
  <2>1. user[u] = "active" /\ member[u] = {} \cup {"all"}
    BY <1>2, <1>4
  <2>2. Cardinality(({} \cup {"all"}) \ {"all"}) <= MaxUserGroups
    BY LimitAfterBootstrap
  <2> QED BY <1>1, <2>1, <2>2 DEF RowsHold, Exists
<1>5. CASE ~old \/ u \notin Root \cup Staff
  <2>1. user[u] = "none" /\ member[u] = {}
    BY <1>2, <1>5
  <2> QED BY <1>1, <2>1 DEF RowsHold, Exists
<1> QED BY <1>3, <1>4, <1>5

LEMMA StepMembership ==
  ASSUME TypeInv, MembershipInv, [Next]_vars
  PROVE  MembershipInv'
<1>1. CASE UNCHANGED <<user, member, pending>>
  BY <1>1, RowsUnchanged
<1>2. ASSUME NEW r \in Requests, Managed(r) \/ OnTheirOwn(r) \/ Continue(r) \/ Crash(r)
      PROVE  MembershipInv'
  <2>1. CASE Managed(r) \/ OnTheirOwn(r)
    BY <1>1, <2>1, ManagedBegins, OnTheirOwnBegins, BeginsTyped
  <2> QED BY <1>1, <1>2, <2>1, ContinueMembership DEF Crash
<1>3. ASSUME NEW u \in Users, DeleteSelf(u) PROVE MembershipInv'
  BY <1>3, RowsAfterRemoved DEF DeleteSelf
<1>4. ASSUME NEW u \in Users, NEW g \in Groups, Withdrawn(u, g) PROVE MembershipInv'
  <2>1. UNCHANGED <<user, member>> /\ pending' = [pending EXCEPT ![u] = @ \ {g}]
        /\ pending \in [Users -> SUBSET Groups]
    BY <1>4 DEF Withdrawn, TypeInv, TypeOK
  <2> QED BY <2>1, RowsUnchanged
<1> QED BY <1>1, <1>2, <1>3, <1>4
        DEF Next, AtOnce, vars, RevokeSessions, CancelRequest, RejectRequest

(* However joins, replacements, approvals, removals, requests, group        *)
(* deletions and the inserts and deletions of accounts interleave, no       *)
(* member has a request pending for the group, nobody exceeds               *)
(* MAX_USER_GROUPS, and every account is in "all".                         *)
THEOREM Memberships == Spec => []MembershipHolds
<1>1. MembershipInv => MembershipHolds
  BY DEF MembershipInv, RowsHold, MembershipHolds
<1> QED BY <1>1, InitMembership, StepMembership, TypeInvariant, PTL DEF Spec

-----------------------------------------------------------------------------
(* The first administrator.                                                *)

LEMMA StepBootstrap ==
  ASSUME TypeInv, BootstrapOnce, [Next]_vars
  PROVE  BootstrapOnce'
<1>1. CASE UNCHANGED <<boot, firsts>>
  BY <1>1 DEF BootstrapOnce
<1>2. ASSUME NEW r \in Requests, BootstrapWrite(r) PROVE BootstrapOnce'
  <2>1. CASE ClaimFree(r)
    <3>1. firsts = 0
      BY <2>1 DEF ClaimFree, BootstrapOnce, TypeInv, TypeOK
    <3>2. firsts' = 1 /\ boot'
      BY <1>2, <2>1, <3>1 DEF BootstrapWrite
    <3> QED BY <3>2 DEF BootstrapOnce
  <2>2. CASE ~ClaimFree(r)
    BY <1>1, <1>2, <2>2 DEF BootstrapWrite
  <2> QED BY <2>1, <2>2
<1>3. ASSUME NEW r \in Requests, Managed(r) \/ OnTheirOwn(r) PROVE BootstrapOnce'
  BY <1>1, <1>3, ManagedBegins, OnTheirOwnBegins, BeginsTyped
<1>4. ASSUME NEW r \in Requests, Continue(r) \/ Crash(r) PROVE BootstrapOnce'
  BY <1>1, <1>2, <1>4
     DEF Continue, Crash, OpenSession, InsertUser, AssignGroups, GiveSecret, SecretFails,
         Rollback, StatusRead, StatusWrite, ReplaceGroups, AddMember, AddExplain, AddTidy,
         RemoveMember, AskRead, AskWrite, InsertGroup, UpdateGroup, DropGroup
<1>5. CASE AtOnce
  BY <1>1, <1>5 DEF AtOnce, RevokeSessions, DeleteSelf, CancelRequest, RejectRequest, Withdrawn
<1> QED BY <1>1, <1>3, <1>4, <1>5 DEF Next, vars

(* However many bootstraps have read that there is no administrator, one    *)
(* goes through, and none on a deployment that came with an administrator:  *)
(* the unique row of bootstrap_state decides, not the count.                *)
THEOREM OneBootstrap == Spec => []BootstrapOnce
<1>1. Init => BootstrapOnce
  BY DEF Init, BootstrapOnce
<1> QED BY <1>1, StepBootstrap, TypeInvariant, PTL DEF Spec

-----------------------------------------------------------------------------
(* The last administrator.                                                 *)

(* A step that touches one account, and that one only under the condition   *)
(* of the guarded statements or for the better, leaves an administrator.    *)
LEMMA OneAccountTouched ==
  ASSUME NEW u \in Users, ActiveAdmins # {},
         \A v \in Users \ {u} : user'[v] = user[v] /\ member'[v] = member[v],
         \/ AdminRemainsWithout(u)
         \/ (Active(u) /\ IsAdmin(u) => user'[u] = "active" /\ "admins" \in member'[u])
  PROVE  ActiveAdmins' # {}
<1>1. \A v \in ActiveAdmins \ {u} : v \in ActiveAdmins'
  BY DEF ActiveAdmins, Active, IsAdmin
<1>2. CASE ActiveAdmins \ {u} # {}
  BY <1>1, <1>2
<1>3. CASE ActiveAdmins \ {u} = {}
  <2>1. u \in ActiveAdmins
    BY <1>3
  <2>2. Active(u) /\ IsAdmin(u)
    BY <2>1 DEF ActiveAdmins
  <2>3. user'[u] = "active" /\ "admins" \in member'[u]
    BY <1>3, <2>2 DEF AdminRemainsWithout
  <2>4. u \in ActiveAdmins'
    BY <2>3 DEF ActiveAdmins, Active, IsAdmin
  <2> QED BY <2>4
<1> QED BY <1>2, <1>3

LEMMA RemovedTouches ==
  ASSUME TypeInv, NEW u \in Users, Removed(u)
  PROVE  \A v \in Users \ {u} : user'[v] = user[v] /\ member'[v] = member[v]
BY DEF TypeInv, TypeOK, Removed

(* Every step of a handler under way, but the two of createManagedUser.     *)
LEMMA ContinueLeavesOne ==
  ASSUME TypeInv, NEW r \in Requests, Continue(r), ~AssignGroups(r), ~Rollback(r),
         ActiveAdmins # {}
  PROVE  ActiveAdmins' # {}
<1> DEFINE u == req[r].user
           gs == req[r].groups
<1>t. /\ user \in [Users -> Statuses] /\ member \in [Users -> SUBSET Groups]
      /\ LocalsHold(req[r])
  BY LocalsOf DEF TypeInv, TypeOK
<1>u. req[r].pc \notin {"idle", "newgroup", "visible", "drop"} => u \in Users
  BY <1>t DEF LocalsHold
<1>1. CASE UNCHANGED <<user, member>>
  BY <1>1 DEF ActiveAdmins, Active, IsAdmin
<1>2. CASE BootstrapWrite(r)
  <2>1. u \in Users
    BY <1>2, <1>u DEF BootstrapWrite
  <2>2. CASE ClaimFree(r)
    <3>1. AdminRemainsWithout(u)
      BY <2>2 DEF ClaimFree, AdminRemainsWithout, Active
    <3>2. \A v \in Users \ {u} : user'[v] = user[v] /\ member'[v] = member[v]
      BY <1>2, <2>1, <2>2, <1>t DEF BootstrapWrite
    <3> QED BY <2>1, <3>1, <3>2, OneAccountTouched
  <2> QED BY <1>1, <1>2, <2>2 DEF BootstrapWrite
<1>3. CASE InsertUser(r)
  <2>1. u \in Users
    BY <1>3, <1>u DEF InsertUser
  <2>2. CASE user[u] = "none"
    <3>1. AdminRemainsWithout(u)
      BY <2>2 DEF AdminRemainsWithout, Active
    <3>2. \A v \in Users \ {u} : user'[v] = user[v] /\ member'[v] = member[v]
      BY <1>3, <2>1, <2>2, <1>t DEF InsertUser
    <3> QED BY <2>1, <3>1, <3>2, OneAccountTouched
  <2> QED BY <1>1, <1>3, <2>2 DEF InsertUser
<1>4. CASE StatusWrite(r)
  <2>1. u \in Users /\ req[r].to \in {"active", "disabled"} /\ UNCHANGED member
    BY <1>4, <1>t, <1>u DEF StatusWrite, LocalsHold
  <2>2. CASE user' # user
    <3>1. /\ user' = [user EXCEPT ![u] = req[r].to]
          /\ req[r].to = "disabled" => AdminRemainsWithout(u)
      BY <1>4, <2>2 DEF StatusWrite
    <3>2. \A v \in Users \ {u} : user'[v] = user[v] /\ member'[v] = member[v]
      BY <2>1, <3>1, <1>t
    <3>3. AdminRemainsWithout(u) \/ (IsAdmin(u) => user'[u] = "active" /\ "admins" \in member'[u])
      BY <2>1, <3>1, <1>t DEF IsAdmin
    <3> QED BY <2>1, <3>2, <3>3, OneAccountTouched
  <2> QED BY <1>1, <2>1, <2>2
<1>5. CASE ReplaceGroups(r)
  <2>1. u \in Users /\ UNCHANGED user
    BY <1>5, <1>u DEF ReplaceGroups
  <2>2. CASE member' # member
    <3>1. /\ member' = [member EXCEPT ![u] = gs \cup (@ \cap {"all"})]
          /\ "admins" \in gs \/ AdminRemainsWithout(u)
      BY <1>5, <2>2 DEF ReplaceGroups
    <3>2. \A v \in Users \ {u} : user'[v] = user[v] /\ member'[v] = member[v]
      BY <2>1, <3>1, <1>t
    <3>3. AdminRemainsWithout(u) \/ (Active(u) => user'[u] = "active" /\ "admins" \in member'[u])
      BY <2>1, <3>1, <1>t DEF Active
    <3> QED BY <2>1, <3>2, <3>3, OneAccountTouched
  <2> QED BY <1>1, <2>1, <2>2
<1>6. CASE AddMember(r)
  <2>1. u \in Users /\ UNCHANGED user
    BY <1>6, <1>u DEF AddMember
  <2>2. CASE member' # member
    <3>1. member' = [member EXCEPT ![u] = @ \cup gs]
      BY <1>6, <2>2 DEF AddMember
    <3>2. \A v \in Users \ {u} : user'[v] = user[v] /\ member'[v] = member[v]
      BY <2>1, <3>1, <1>t
    <3>3. Active(u) /\ IsAdmin(u) => user'[u] = "active" /\ "admins" \in member'[u]
      BY <2>1, <3>1, <1>t DEF Active, IsAdmin
    <3> QED BY <2>1, <3>2, <3>3, OneAccountTouched
  <2> QED BY <1>1, <2>1, <2>2
<1>7. CASE RemoveMember(r)
  <2>1. u \in Users /\ UNCHANGED user
    BY <1>7, <1>u DEF RemoveMember
  <2>2. CASE member' # member
    <3>1. /\ member' = [member EXCEPT ![u] = @ \ gs]
          /\ "admins" \notin gs \/ AdminRemainsWithout(u)
      BY <1>7, <2>2 DEF RemoveMember
    <3>2. \A v \in Users \ {u} : user'[v] = user[v] /\ member'[v] = member[v]
      BY <2>1, <3>1, <1>t
    <3>3. \/ AdminRemainsWithout(u)
          \/ (Active(u) /\ IsAdmin(u) => user'[u] = "active" /\ "admins" \in member'[u])
      BY <2>1, <3>1, <1>t DEF Active, IsAdmin
    <3> QED BY <2>1, <3>2, <3>3, OneAccountTouched
  <2> QED BY <1>1, <2>1, <2>2
<1>8. CASE DropGroup(r)
  <2>1. /\ UNCHANGED user
        /\ \A v \in Users : "admins" \in member[v] => "admins" \in member'[v]
    BY <1>8 DEF DropGroup, Protected
  <2> QED BY <2>1 DEF ActiveAdmins, Active, IsAdmin
<1> QED BY <1>1, <1>2, <1>3, <1>4, <1>5, <1>6, <1>7, <1>8
        DEF Continue, OpenSession, GiveSecret, SecretFails, StatusRead, AddExplain, AddTidy,
            AskRead, AskWrite, InsertGroup, UpdateGroup

(* The two steps the property excepts move their request on.               *)
LEMMA ExceptedStepsMove ==
  ASSUME TypeInv, NEW r \in Requests, AssignGroups(r) \/ Rollback(r)
  PROVE  req[r].pc \in {"assign", "rollback"} /\ req'[r].pc # req[r].pc
<1>t. \A q \in Requests : req[q] \in RequestRecords
  BY DEF TypeInv, TypeOK
<1>r. req \in [Requests -> RequestRecords]
  BY DEF TypeInv, TypeOK
<1>1. CASE Rollback(r)
  BY <1>1, <1>r DEF Rollback, Finished, Rest
<1>2. CASE AssignGroups(r)
  <2>1. At(r, "secret")[r].pc = "secret" /\ At(r, "rollback")[r].pc = "rollback"
    BY <1>r DEF At, RequestRecords
  <2>2. At(r, "secret") \in [Requests -> RequestRecords]
    BY <1>r DEF At, RequestRecords, Pcs
  <2>3. \A v : Outdated(At(r, "secret"), v)[r].pc = "secret"
    <3> DEFINE reqs == At(r, "secret")
    <3>1. reqs[r] \in RequestRecords /\ reqs[r].pc = "secret"
      BY <2>1, <2>2
    <3> HIDE DEF reqs
    <3>2. [reqs[r] EXCEPT !.current = FALSE].pc = "secret"
      BY <3>1 DEF RequestRecords
    <3> SUFFICES ASSUME NEW v PROVE Outdated(reqs, v)[r].pc = "secret"
      BY DEF reqs
    <3> QED BY <3>1, <3>2 DEF Outdated
  <2> QED BY <1>2, <2>1, <2>3 DEF AssignGroups, ReqAfterJoin
<1> QED BY <1>1, <1>2

LEMMA StepLeavesOne ==
  ASSUME TypeInv, [Next]_vars
  PROVE  \/ ActiveAdmins = {} \/ ActiveAdmins' # {}
         \/ \E r \in Requests : req[r].pc \in {"assign", "rollback"} /\ req'[r].pc # req[r].pc
<1> SUFFICES ASSUME ActiveAdmins # {}, ActiveAdmins' = {}
             PROVE  \E r \in Requests : /\ req[r].pc \in {"assign", "rollback"}
                                        /\ req'[r].pc # req[r].pc
  OBVIOUS
<1>1. ~UNCHANGED <<user, member>>
  BY DEF ActiveAdmins, Active, IsAdmin
<1>2. ASSUME NEW u \in Users, DeleteSelf(u) PROVE FALSE
  BY <1>2, RemovedTouches, OneAccountTouched DEF DeleteSelf
<1>3. ~AtOnce
  BY <1>1, <1>2 DEF AtOnce, RevokeSessions, CancelRequest, RejectRequest, Withdrawn
<1>4. PICK r \in Requests : Managed(r) \/ OnTheirOwn(r) \/ Continue(r) \/ Crash(r)
  BY <1>1, <1>3 DEF Next, vars
<1>5. Continue(r)
  BY <1>1, <1>4, ManagedBegins, OnTheirOwnBegins, BeginsTyped DEF Crash
<1> QED BY <1>5, ContinueLeavesOne, ExceptedStepsMove

(* However demotions, disablings, deletions, group changes and bootstraps   *)
(* interleave, the active administrators do not run out, but by             *)
(* createManagedUser's own plain statements: each guarded statement looks   *)
(* again at the rows it depends on.                                        *)
THEOREM AnAdministratorRemains == Spec => AdministratorRemains
<1>1. TypeInv /\ [Next]_vars =>
        [ActiveAdmins = {} \/ ActiveAdmins' # {}
         \/ \E r \in Requests : req[r].pc \in {"assign", "rollback"} /\ req'[r].pc # req[r].pc]_vars
  BY StepLeavesOne
<1> QED BY <1>1, TypeInvariant, PTL DEF Spec, AdministratorRemains
=============================================================================
