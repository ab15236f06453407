--------------------------- MODULE Administrators ---------------------------
(***************************************************************************)
(* Users, permission groups and administrators: the first administrator,    *)
(* accounts an administrator creates, memberships and requests for them,    *)
(* groups, disabling, deletion, and signing in as far as the role matters.  *)
(* Handlers of the HTML console ask for a signed-in administrator, those of *)
(* the JSON API for a token of one; both then run one await at a time on    *)
(* the same queries.  A group goes by its name here.                        *)
(*                                                                         *)
(* Names, aliases, addresses, credentials and audit rows are left out.      *)
(***************************************************************************)
EXTENDS Naturals, FiniteSets

CONSTANTS
  Users, Teams,    \* accounts; groups other than the two protected ones
  Employees,       \* the team the first administrator joins, if it exists
  Choices,         \* the sets of groups administrators submit
  Root, Staff,     \* administrators and others of a provisioned deployment
  Requests,        \* concurrent Worker invocations
  MaxUserGroups,   \* MAX_USER_GROUPS
  MaxWork, MaxFaults   \* bounds: invocations, and failures among them

Protected == {"admins", "all"}
Groups == Teams \cup Protected

ASSUME AdministratorsAssumption ==
  /\ Root \cup Staff \subseteq Users /\ Root \cap Staff = {} /\ Root # {}
  /\ Choices \subseteq SUBSET Groups /\ IsFiniteSet(Groups) /\ Protected \cap Teams = {} /\ Employees \in Teams
  /\ {MaxUserGroups, MaxWork, MaxFaults} \subseteq Nat /\ MaxUserGroups > 1

VARIABLES
  user,      \* users: whether the account exists and is disabled
  member,    \* user_groups
  pending,   \* group_membership_requests
  group,     \* groups: whether each exists and is listed
  sess,      \* sess[u]: the strengths of the live sign-ins of u
  boot,      \* bootstrap_state has its row
  firsts,    \* history: how often the deployment was given its first administrator
  req, work, faults

vars == <<user, member, pending, group, sess, boot, firsts, req, work, faults>>

Statuses == {"none", "active", "disabled", "deleted"}
Strengths == {"weak", "strong"}   \* strong: a passkey or an admin-eligible password
Pcs == {"idle", "session", "status", "write", "replace", "add", "approve", "explain", "tidy",
        "remove", "asking", "ask", "askhidden", "newgroup", "visible", "drop", "create",
        "assign", "secret", "rollback", "boot"}

(* The locals of a handler: "groups" the groups submitted, "to" the status  *)
(* or visibility to write, "read" the status read, "current" whether the    *)
(* security version read with it still is the account's.                    *)
RequestRecords ==
  [pc : Pcs, user : Users \cup {"nobody"}, groups : SUBSET Groups,
   to : Statuses \cup Strengths \cup {"public", "hidden"}, read : Statuses, current : BOOLEAN]

Rest == [pc |-> "idle", user |-> "nobody", groups |-> {}, to |-> "none", read |-> "none",
         current |-> FALSE]

(* A new deployment, or one with accounts, which migration 0009 leaves with *)
(* the claim and which has had its first administrator.                    *)
Init ==
  /\ \E old \in BOOLEAN :
       /\ user = [u \in Users |-> IF old /\ u \in Root \cup Staff THEN "active" ELSE "none"]
       /\ member = [u \in Users |-> CASE old /\ u \in Root -> Protected
                                      [] old /\ u \in Staff -> {"all"}
                                      [] OTHER -> {}]
       /\ boot = old /\ firsts = IF old THEN 1 ELSE 0
  /\ pending = [u \in Users |-> {}] /\ sess = [u \in Users |-> {}]
  /\ group = [g \in Groups |-> "public"]
  /\ req = [r \in Requests |-> Rest] /\ work = 0 /\ faults = 0

-----------------------------------------------------------------------------
(* Pieces shared by the handlers.                                          *)

Exists(u) == user[u] \in {"active", "disabled"}
Active(u) == user[u] = "active"
Listed(g) == group[g] # "none"
IsAdmin(u) == "admins" \in member[u]
ActiveAdmins == {u \in Users : Active(u) /\ IsAdmin(u)}

(* Slip: two administrators each counted by the other's request, the count  *)
(* taken before the statement.                                             *)
AdminCountedBefore(u) == ~Active(u) \/ ~IsAdmin(u) \/ Cardinality(ActiveAdmins) > 0

(* The condition of every guarded statement that could remove u from the    *)
(* active administrators.                                                  *)
AdminRemainsWithout(u) == ~Active(u) \/ ~IsAdmin(u) \/ ActiveAdmins \ {u} # {}

SignedIn(u) == Active(u) /\ sess[u] # {}

(* requireConsoleAdmin, requireAdminApiToken, without the YOLO mode of      *)
(* development deployments.                                                *)
ConsoleAdmin == \E a \in Users : SignedIn(a) /\ IsAdmin(a)
AdminToken == \E a \in Users : Active(a) /\ IsAdmin(a)

Begin(r, locals) ==
  /\ req[r].pc = "idle" /\ work < MaxWork /\ work' = work + 1
  /\ req' = [req EXCEPT ![r] = locals]
  /\ UNCHANGED <<user, member, pending, group, sess, boot, firsts, faults>>

Finished(r) == [req EXCEPT ![r] = Rest]
At(r, pc) == [req EXCEPT ![r].pc = pc]

(* The requests after the security version of u advanced.                  *)
Outdated(reqs, u) ==
  [r \in Requests |-> IF reqs[r].user = u THEN [reqs[r] EXCEPT !.current = FALSE] ELSE reqs[r]]

(* adminPromotionRevocationStatements: what a batch that joins u to groups  *)
(* does to the sign-ins of u and to what others have read of u.  The code   *)
(* knows a promotion by its second; that a second batch in the same second  *)
(* repeats the revocation is left out.                                     *)
Promoted(u, joined) == "admins" \in joined \ member[u]
SessAfterJoin(u, joined) == IF Promoted(u, joined) THEN [sess EXCEPT ![u] = {}] ELSE sess
ReqAfterJoin(reqs, u, joined) == IF Promoted(u, joined) THEN Outdated(reqs, u) ELSE reqs

(* clear_group_membership_request_after_join. *)
RequestsAfterJoin(u, joined) == [pending EXCEPT ![u] = @ \ (joined \ member[u])]

-----------------------------------------------------------------------------
(* Signing in: the role is read before the session is inserted.             *)

(* POST /login, verifyLoginPassword; a passkey is strong.                   *)
Login(r, u, strength) ==
  /\ Active(u) /\ (IsAdmin(u) => strength = "strong")
  /\ Begin(r, [Rest EXCEPT !.pc = "session", !.user = u, !.to = strength])

(* createSession. *)
OpenSession(r) ==
  LET u == req[r].user IN
  /\ req[r].pc = "session"
  /\ sess' = IF Active(u) THEN [sess EXCEPT ![u] = @ \cup {req[r].to}] ELSE sess
  /\ req' = Finished(r)
  /\ UNCHANGED <<user, member, pending, group, boot, firsts, work, faults>>

(* The administrators' revoke-sessions.                                    *)
RevokeSessions(u) ==
  /\ AdminToken /\ sess[u] # {} /\ work < MaxWork /\ work' = work + 1
  /\ sess' = [sess EXCEPT ![u] = {}]
  /\ UNCHANGED <<user, member, pending, group, boot, firsts, req, faults>>

-----------------------------------------------------------------------------
(* The first administrator.                                                *)

BootstrapRead(r, u) ==
  /\ user[u] = "none" /\ (\A v \in Users : ~IsAdmin(v)) /\ Listed("admins")
  /\ Begin(r, [Rest EXCEPT !.pc = "boot", !.user = u,
               !.groups = {g \in {"admins", Employees} : Listed(g)}])

(* Slip: the count read before is taken for the claim.                     *)
ClaimedByCount(r) == user[req[r].user] = "none" /\ \A g \in req[r].groups : Listed(g)

(* The claim comes first in the batch and rolls it back when taken.         *)
ClaimFree(r) == ~boot /\ user[req[r].user] = "none" /\ \A g \in req[r].groups : Listed(g)

BootstrapWrite(r) ==
  LET u == req[r].user IN
  /\ req[r].pc = "boot" /\ req' = Finished(r)
  /\ IF ClaimFree(r)
     THEN /\ boot' = TRUE /\ firsts' = firsts + 1
          /\ user' = [user EXCEPT ![u] = "active"]
          /\ member' = [member EXCEPT ![u] = req[r].groups \cup {"all"}]
     ELSE UNCHANGED <<boot, firsts, user, member>>
  /\ UNCHANGED <<pending, group, sess, work, faults>>

-----------------------------------------------------------------------------
(* createManagedUser: the account, its groups, its password or invitation,  *)
(* one after the other, and the account is removed when one of them fails.  *)

CreateUser(r, u, gs) ==
  /\ req[r].pc = "idle" /\ user[u] = "none"
  /\ (\A g \in gs : Listed(g)) /\ Cardinality(gs) <= MaxUserGroups
  /\ Begin(r, [Rest EXCEPT !.pc = "create", !.user = u, !.groups = gs])

ConsoleCreateUser(r, u, gs) == ConsoleAdmin /\ CreateUser(r, u, gs)
AdminCreateUser(r, u, gs) == AdminToken /\ CreateUser(r, u, gs)

(* add_all_group_membership_after_user_insert. *)
BirthGroups == {"all"}

InsertUser(r) ==
  LET u == req[r].user IN
  /\ req[r].pc = "create"
  /\ IF user[u] = "none"
     THEN /\ user' = [user EXCEPT ![u] = "active"]
          /\ member' = [member EXCEPT ![u] = BirthGroups]
          /\ req' = At(r, "assign")
     ELSE UNCHANGED <<user, member>> /\ req' = Finished(r)
  /\ UNCHANGED <<pending, group, sess, boot, firsts, work, faults>>

(* setUserGroups; a foreign key that no longer holds fails the batch.       *)
AssignGroups(r) ==
  LET u == req[r].user
      gs == req[r].groups IN
  /\ req[r].pc = "assign"
  /\ IF Exists(u) /\ \A g \in gs : Listed(g)
     THEN /\ member' = [member EXCEPT ![u] = gs \cup (@ \cap {"all"})]
          /\ pending' = RequestsAfterJoin(u, gs)
          /\ sess' = SessAfterJoin(u, gs)
          /\ req' = ReqAfterJoin(At(r, "secret"), u, gs)
     ELSE UNCHANGED <<member, pending, sess>> /\ req' = At(r, "rollback")
  /\ UNCHANGED <<user, group, boot, firsts, work, faults>>

(* setUserPassword, or the invitation and its e-mail.                      *)
GiveSecret(r) ==
  /\ req[r].pc = "secret" /\ req' = Outdated(Finished(r), req[r].user)
  /\ UNCHANGED <<user, member, pending, group, sess, boot, firsts, work, faults>>

SecretFails(r) ==
  /\ req[r].pc = "secret" /\ faults < MaxFaults /\ faults' = faults + 1
  /\ req' = At(r, "rollback")
  /\ UNCHANGED <<user, member, pending, group, sess, boot, firsts, work>>

(* The rows of an account go with it.                                      *)
Removed(u) ==
  /\ user' = [user EXCEPT ![u] = "deleted"] /\ member' = [member EXCEPT ![u] = {}]
  /\ pending' = [pending EXCEPT ![u] = {}] /\ sess' = [sess EXCEPT ![u] = {}]

(* deleteUser, which asks nothing.                                         *)
Rollback(r) ==
  LET u == req[r].user IN
  /\ req[r].pc = "rollback" /\ req' = Finished(r)
  /\ IF Exists(u) THEN Removed(u) ELSE UNCHANGED <<user, member, pending, sess>>
  /\ UNCHANGED <<group, boot, firsts, work, faults>>

-----------------------------------------------------------------------------
(* Disabling and enabling: updateUser reads the account, then writes under  *)
(* what it read.                                                           *)

ConsoleDisable(r, u) ==
  ConsoleAdmin /\ Exists(u) /\ Begin(r, [Rest EXCEPT !.pc = "status", !.user = u, !.to = "disabled"])

ConsoleEnable(r, u) ==
  ConsoleAdmin /\ Exists(u) /\ Begin(r, [Rest EXCEPT !.pc = "status", !.user = u, !.to = "active"])

AdminPatchUser(r, u, to) ==
  AdminToken /\ Exists(u) /\ Begin(r, [Rest EXCEPT !.pc = "status", !.user = u, !.to = to])

StatusRead(r) ==
  LET u == req[r].user IN
  /\ req[r].pc = "status"
  /\ req' = IF Exists(u)
            THEN [req EXCEPT ![r] = [@ EXCEPT !.pc = "write", !.read = user[u], !.current = TRUE]]
            ELSE Finished(r)
  /\ UNCHANGED <<user, member, pending, group, sess, boot, firsts, work, faults>>

StatusWrite(r) ==
  LET u == req[r].user
      to == req[r].to
      written == /\ user[u] = req[r].read /\ req[r].current
                 /\ to = "disabled" => AdminRemainsWithout(u) IN
  /\ req[r].pc = "write"
  /\ IF written /\ to # req[r].read
     THEN /\ user' = [user EXCEPT ![u] = to] /\ sess' = [sess EXCEPT ![u] = {}]
          /\ req' = Outdated(Finished(r), u)
     ELSE UNCHANGED <<user, sess>> /\ req' = Finished(r)
  /\ UNCHANGED <<member, pending, group, boot, firsts, work, faults>>

(* /account/delete, after the password or the passkey.                      *)
DeleteSelf(u) ==
  /\ SignedIn(u) /\ AdminRemainsWithout(u) /\ work < MaxWork /\ work' = work + 1
  /\ Removed(u)
  /\ UNCHANGED <<group, boot, firsts, req, faults>>

-----------------------------------------------------------------------------
(* Memberships.                                                            *)

SetGroups(r, u, gs) ==
  /\ req[r].pc = "idle" /\ Exists(u)
  /\ (\A g \in gs : Listed(g)) /\ Cardinality(gs) <= MaxUserGroups
  /\ Begin(r, [Rest EXCEPT !.pc = "replace", !.user = u, !.groups = gs])

ConsoleSetGroups(r, u, gs) == ConsoleAdmin /\ SetGroups(r, u, gs)
AdminSetGroups(r, u, gs) == AdminToken /\ SetGroups(r, u, gs)

(* setUserGroupsPreservingActiveAdmin. *)
ReplaceGroups(r) ==
  LET u == req[r].user
      gs == req[r].groups
      safe == "admins" \in gs \/ AdminRemainsWithout(u) IN
  /\ req[r].pc = "replace"
  /\ IF Exists(u) /\ safe /\ \A g \in gs : Listed(g)
     THEN /\ member' = [member EXCEPT ![u] = gs \cup (@ \cap {"all"})]
          /\ pending' = RequestsAfterJoin(u, gs)
          /\ sess' = SessAfterJoin(u, gs)
          /\ req' = ReqAfterJoin(Finished(r), u, gs)
     ELSE UNCHANGED <<member, pending, sess>> /\ req' = Finished(r)
  /\ UNCHANGED <<user, group, boot, firsts, work, faults>>

ConsoleAddMember(r, u, g) ==
  ConsoleAdmin /\ Listed(g) /\ Begin(r, [Rest EXCEPT !.pc = "add", !.user = u, !.groups = {g}])

ConsoleApprove(r, u, g) ==
  ConsoleAdmin /\ Listed(g) /\ Begin(r, [Rest EXCEPT !.pc = "approve", !.user = u, !.groups = {g}])

(* Slip: one membership too many.                                          *)
RoomForOneMore(u) == Cardinality(member[u] \ {"all"}) <= MaxUserGroups

(* The count in the INSERT of addGroupMember.                              *)
RoomFor(u) == Cardinality(member[u] \ {"all"}) < MaxUserGroups

(* addGroupMember, its batch.                                              *)
AddMember(r) ==
  LET u == req[r].user
      gs == req[r].groups
      asked == req[r].pc = "approve" => gs \subseteq pending[u] IN
  /\ req[r].pc \in {"add", "approve"}
  /\ IF Exists(u) /\ (\A g \in gs : Listed(g)) /\ asked /\ RoomFor(u) /\ ~(gs \subseteq member[u])
     THEN /\ member' = [member EXCEPT ![u] = @ \cup gs]
          /\ pending' = RequestsAfterJoin(u, gs)
          /\ sess' = SessAfterJoin(u, gs)
          /\ req' = ReqAfterJoin(At(r, "tidy"), u, gs)
     ELSE /\ UNCHANGED <<member, pending, sess>>
          /\ req' = [req EXCEPT ![r].pc = "explain",
                                ![r].to = IF req[r].pc = "approve" THEN "weak" ELSE "strong"]
  /\ UNCHANGED <<user, group, boot, firsts, work, faults>>

(* Why nothing was inserted: only a membership leads on.                   *)
AddExplain(r) ==
  LET u == req[r].user
      gs == req[r].groups IN
  /\ req[r].pc = "explain"
  /\ req' = IF gs \subseteq member[u] /\ (req[r].to = "weak" => gs \subseteq pending[u])
            THEN At(r, "tidy") ELSE Finished(r)
  /\ UNCHANGED <<user, member, pending, group, sess, boot, firsts, work, faults>>

(* The handler's own DELETE of the request, an await after the insert.      *)
AddTidy(r) ==
  /\ req[r].pc = "tidy" /\ req' = Finished(r)
  /\ pending' = [pending EXCEPT ![req[r].user] = @ \ req[r].groups]
  /\ UNCHANGED <<user, member, group, sess, boot, firsts, work, faults>>

ConsoleRemoveMember(r, u, g) ==
  /\ ConsoleAdmin /\ Listed(g) /\ g # "all"
  /\ Begin(r, [Rest EXCEPT !.pc = "remove", !.user = u, !.groups = {g}])

(* removeUserFromPermissionGroup. *)
RemoveMember(r) ==
  LET u == req[r].user
      gs == req[r].groups IN
  /\ req[r].pc = "remove" /\ req' = Finished(r)
  /\ member' = IF "admins" \notin gs \/ AdminRemainsWithout(u)
               THEN [member EXCEPT ![u] = @ \ gs] ELSE member
  /\ UNCHANGED <<user, pending, group, sess, boot, firsts, work, faults>>

-----------------------------------------------------------------------------
(* Requests for a membership.                                              *)

(* /account/groups/request, with the id of a listed group.                 *)
RequestById(r, u, g) ==
  SignedIn(u) /\ Begin(r, [Rest EXCEPT !.pc = "asking", !.user = u, !.groups = {g}])

(* The same with a name, which may be that of a hidden group.              *)
RequestByName(r, u, g) ==
  /\ SignedIn(u)
  /\ Begin(r, [Rest EXCEPT !.pc = IF group[g] = "public" THEN "asking" ELSE "askhidden",
               !.user = u, !.groups = {g}])

(* requestPermissionGroupMembership reads before it inserts.                *)
AskRead(r) ==
  LET u == req[r].user
      gs == req[r].groups IN
  /\ req[r].pc = "asking"
  /\ req' = IF /\ \A g \in gs : group[g] = "public"
               /\ gs \cap (Protected \cup member[u] \cup pending[u]) = {}
            THEN At(r, "ask") ELSE Finished(r)
  /\ UNCHANGED <<user, member, pending, group, sess, boot, firsts, work, faults>>

(* Slip: the INSERT relies on what was read.                               *)
RequestableOnceRead(u, g) == g \notin Protected

(* The conditions of both INSERTs, besides the visibility.                  *)
Requestable(u, g) == g \notin Protected \cup member[u]

(* requestPermissionGroupMembership, requestHiddenPermissionGroupMembership.*)
AskWrite(r) ==
  LET u == req[r].user
      visible == IF req[r].pc = "ask" THEN "public" ELSE "hidden" IN
  /\ req[r].pc \in {"ask", "askhidden"} /\ req' = Finished(r)
  /\ pending' = IF Exists(u)
                THEN [pending EXCEPT ![u] = @ \cup
                        {g \in req[r].groups : group[g] = visible /\ Requestable(u, g)}]
                ELSE pending
  /\ UNCHANGED <<user, member, group, sess, boot, firsts, work, faults>>

Withdrawn(u, g) ==
  /\ g \in pending[u] /\ work < MaxWork /\ work' = work + 1
  /\ pending' = [pending EXCEPT ![u] = @ \ {g}]
  /\ UNCHANGED <<user, member, group, sess, boot, firsts, req, faults>>

(* cancelPermissionGroupMembershipRequest, rejectPermissionGroupMembershipRequest. *)
CancelRequest(u, g) == SignedIn(u) /\ Withdrawn(u, g)
RejectRequest(u, g) == ConsoleAdmin /\ Withdrawn(u, g)

-----------------------------------------------------------------------------
(* Groups.                                                                 *)

NewGroup(r, g, visible) ==
  ~Listed(g) /\ Begin(r, [Rest EXCEPT !.pc = "newgroup", !.groups = {g}, !.to = visible])

ConsoleCreateGroup(r, g, visible) == ConsoleAdmin /\ NewGroup(r, g, visible)
AdminCreateGroup(r, g, visible) == AdminToken /\ NewGroup(r, g, visible)

(* createGroup; the name is unique.                                        *)
InsertGroup(r) ==
  /\ req[r].pc = "newgroup" /\ req' = Finished(r)
  /\ group' = [g \in Groups |-> IF g \in req[r].groups /\ ~Listed(g) THEN req[r].to ELSE group[g]]
  /\ UNCHANGED <<user, member, pending, sess, boot, firsts, work, faults>>

Visible(r, g, visible) ==
  Listed(g) /\ Begin(r, [Rest EXCEPT !.pc = "visible", !.groups = {g}, !.to = visible])

(* A patch without is_public writes back the one it read.                  *)
ConsoleGroupSettings(r, g, visible) == ConsoleAdmin /\ Visible(r, g, visible)
AdminPatchGroup(r, g, visible) == AdminToken /\ (Visible(r, g, visible) \/ Visible(r, g, group[g]))

(* updateGroup. *)
UpdateGroup(r) ==
  /\ req[r].pc = "visible" /\ req' = Finished(r)
  /\ group' = [g \in Groups |-> IF g \in req[r].groups /\ Listed(g) THEN req[r].to ELSE group[g]]
  /\ UNCHANGED <<user, member, pending, sess, boot, firsts, work, faults>>

DropRead(r, g) ==
  Listed(g) /\ g \notin Protected /\ Begin(r, [Rest EXCEPT !.pc = "drop", !.groups = {g}])

ConsoleDeleteGroup(r, g) == ConsoleAdmin /\ DropRead(r, g)
AdminDeleteGroup(r, g) == AdminToken /\ DropRead(r, g)

(* Slip: the row is kept and marked.                                       *)
MarkedGone == "deleted"

RowGone == "none"

(* deleteGroup; its memberships and requests go with it.                   *)
DropGroup(r) ==
  LET gone == req[r].groups \ Protected IN
  /\ req[r].pc = "drop" /\ req' = Finished(r)
  /\ group' = [g \in Groups |-> IF g \in gone THEN RowGone ELSE group[g]]
  /\ member' = [u \in Users |-> member[u] \ gone]
  /\ pending' = [u \in Users |-> pending[u] \ gone]
  /\ UNCHANGED <<user, sess, boot, firsts, work, faults>>

(* The Worker dies.                                                        *)
Crash(r) ==
  /\ req[r].pc # "idle" /\ faults < MaxFaults /\ faults' = faults + 1
  /\ req' = Finished(r)
  /\ UNCHANGED <<user, member, pending, group, sess, boot, firsts, work>>

-----------------------------------------------------------------------------
Managed(r) ==
  \/ \E u \in Users, gs \in Choices :
       \/ ConsoleCreateUser(r, u, gs) \/ AdminCreateUser(r, u, gs)
       \/ ConsoleSetGroups(r, u, gs) \/ AdminSetGroups(r, u, gs)
  \/ \E u \in Users :
       \/ ConsoleDisable(r, u) \/ ConsoleEnable(r, u)
       \/ \E to \in {"active", "disabled"} : AdminPatchUser(r, u, to)
  \/ \E u \in Users, g \in Groups :
       ConsoleAddMember(r, u, g) \/ ConsoleApprove(r, u, g) \/ ConsoleRemoveMember(r, u, g)
  \/ \E g \in Groups, visible \in {"public", "hidden"} :
       \/ ConsoleCreateGroup(r, g, visible) \/ AdminCreateGroup(r, g, visible)
       \/ ConsoleGroupSettings(r, g, visible) \/ AdminPatchGroup(r, g, visible)
  \/ \E g \in Groups : ConsoleDeleteGroup(r, g) \/ AdminDeleteGroup(r, g)

OnTheirOwn(r) ==
  \/ \E u \in Users, strength \in Strengths : Login(r, u, strength)
  \/ \E u \in Users : BootstrapRead(r, u)
  \/ \E u \in Users, g \in Groups : RequestById(r, u, g) \/ RequestByName(r, u, g)

Continue(r) ==
  \/ OpenSession(r) \/ BootstrapWrite(r) \/ InsertUser(r) \/ AssignGroups(r) \/ GiveSecret(r)
  \/ SecretFails(r) \/ Rollback(r) \/ StatusRead(r) \/ StatusWrite(r) \/ ReplaceGroups(r)
  \/ AddMember(r) \/ AddExplain(r) \/ AddTidy(r) \/ RemoveMember(r) \/ AskRead(r) \/ AskWrite(r)
  \/ InsertGroup(r) \/ UpdateGroup(r) \/ DropGroup(r)

AtOnce ==
  \/ \E u \in Users : RevokeSessions(u) \/ DeleteSelf(u)
  \/ \E u \in Users, g \in Groups : CancelRequest(u, g) \/ RejectRequest(u, g)

Next == AtOnce \/ \E r \in Requests : Managed(r) \/ OnTheirOwn(r) \/ Continue(r) \/ Crash(r)

Spec == Init /\ [][Next]_vars

-----------------------------------------------------------------------------
(* The variables have their types.                                         *)
TypeOK ==
  /\ user \in [Users -> Statuses] /\ member \in [Users -> SUBSET Groups]
  /\ pending \in [Users -> SUBSET Groups] /\ group \in [Groups -> {"none", "public", "hidden"}]
  /\ sess \in [Users -> SUBSET Strengths] /\ boot \in BOOLEAN /\ firsts \in Nat
  /\ req \in [Requests -> RequestRecords] /\ work \in 0..MaxWork /\ faults \in 0..MaxFaults

(* However demotions, disablings and deletions interleave, an active        *)
(* administrator remains; only createManagedUser, which sets the groups of  *)
(* its account and takes it back with plain statements, is not held to it.  *)
AdministratorRemains ==
  [][ActiveAdmins = {} \/ ActiveAdmins' # {}
     \/ \E r \in Requests : req[r].pc \in {"assign", "rollback"} /\ req'[r].pc # req[r].pc]_vars

(* A member has no request pending for the group, whichever way the member  *)
(* joined and however late the request was inserted.  Nobody is in more     *)
(* groups than the limit, "all" not counted, and every account is in "all", *)
(* whatever replaced its memberships.                                      *)
MembershipHolds ==
  /\ \A u \in Users : member[u] \cap pending[u] = {}
  /\ \A u \in Users : Exists(u) =>
       "all" \in member[u] /\ Cardinality(member[u] \ {"all"}) <= MaxUserGroups

(* A deployment is given its first administrator once: however many         *)
(* bootstraps have found none, one goes through, and none does where the    *)
(* deployment came with an administrator.                                  *)
BootstrapOnce == firsts <= 1 /\ (boot <=> firsts = 1)
=============================================================================
