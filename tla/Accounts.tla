------------------------------ MODULE Accounts ------------------------------
(***************************************************************************)
(* Accounts and the ways into them: links sent by e-mail (password reset,   *)
(* invitation, verification, change of address, sign-in), passwords and     *)
(* passkeys as login methods, browser sessions, and what an administrator   *)
(* does to an account.  A link is a one-time object, for most purposes also *)
(* a D1 row, and carries the security version of the account it was issued  *)
(* for.  Handlers run one await at a time.                                  *)
(*                                                                         *)
(* Refresh-token families follow the sessions (module RefreshTokens) and    *)
(* are left out, as are rate limits, which refuse a request before it reads *)
(* anything, and the session that a repeated sign-in replaces.              *)
(***************************************************************************)
EXTENDS Integers, FiniteSets

CONSTANTS
  Users, Emails, Links, Passwords, Passkeys, Sessions,
  Strong,          \* passwords of at least administratorMinimum characters
  Purposes,        \* which links are asked for
  Patches,         \* which fields of an account are edited
  Activities,      \* what else goes on
  FirstEmail,      \* FirstEmail[u]: the address the account was created with
  FirstPasswords,  \* FirstPasswords[u]: the passwords it has at the start
  FirstPasskeys,   \* the passkeys the accounts may have at the start
  Root,            \* the administrators at the start
  Requests,        \* concurrent Worker invocations
  MaxPasswords,    \* PASSWORD_POLICY.maximumCredentials
  MaxVersion, MaxFaults   \* bounds

AllPurposes == {"reset", "invite", "verify", "change", "magic"}
AllPatches == {"name", "verify", "unverify", "disable", "enable"}
AllActivities == {"login", "passwords", "passkeys", "promote", "delete", "misdirect"}

ASSUME ConstantsAssumption ==
  /\ Users # {} /\ Emails # {} /\ Links # {}
  /\ IsFiniteSet(Passwords) /\ Strong \subseteq Passwords /\ Root \subseteq Users
  /\ Purposes \subseteq AllPurposes /\ Patches \subseteq AllPatches \ {"verify"}
  /\ Activities \subseteq AllActivities
  /\ FirstEmail \in [Users -> Emails]
  /\ \A u, v \in Users : FirstEmail[u] = FirstEmail[v] => u = v
  /\ FirstPasswords \in [Users -> SUBSET Passwords]
  /\ FirstPasskeys \subseteq [Users -> SUBSET Passkeys]
  /\ \A first \in FirstPasskeys, u, v \in Users : first[u] \cap first[v] # {} => u = v
  /\ \A u \in Users : Cardinality(FirstPasswords[u]) <= MaxPasswords
  /\ {MaxPasswords, MaxVersion, MaxFaults} \subseteq Nat

VARIABLES
  user,      \* users, password_credentials, webauthn_credentials, admins
  link,      \* OneTimeTokenDO objects and their rows in D1
  sess,      \* sessions
  req,       \* what each Worker invocation is doing
  effects,   \* effects[l]: how many times following l changed the account
  faults

vars == <<user, link, sess, req, effects, faults>>

AnyOf(S) == CHOOSE x \in S : TRUE
None == "none"

UserRecords ==
  [st : {"active", "disabled", "deleted"}, email : Emails, verified : BOOLEAN,
   version : Nat, admin : BOOLEAN, passwords : SUBSET Passwords, passkeys : SUBSET Passkeys]

LinkRecords ==
  [obj : {"none", "live", "spent", "gone"}, row : {"none", "open", "closed"},
   purpose : AllPurposes, user : Users, email : Emails, to : Emails, version : Nat]

SessionRecords == [st : {"none", "live", "revoked"}, user : Users]

(* The locals of a handler.  "key" is the password submitted or the one to  *)
(* set; "ok" what was read of the account; "version" the security version   *)
(* read, from the account or from the link; "email" the address a link is   *)
(* bound to, "to" the one that was typed; "patch" what updateUser is for.    *)
Pcs == {"idle", "account", "version", "row", "store", "peek", "pending", "object", "takerow", "current",
        "owner", "policy", "apply", "read", "write", "role", "rows", "session"}
RequestRecords ==
  [pc : Pcs, user : Users, link : Links, purpose : AllPurposes, email : Emails,
   to : Emails, version : Nat, key : Passwords \cup {None}, patch : AllPatches, ok : BOOLEAN,
   st : {"active", "disabled", "deleted"}]

NoRequest ==
  [pc |-> "idle", user |-> AnyOf(Users), link |-> AnyOf(Links), purpose |-> "reset",
   email |-> AnyOf(Emails), to |-> AnyOf(Emails), version |-> 0, key |-> None, patch |-> "name", ok |-> FALSE,
   st |-> "active"]

Init ==
  /\ \E first \in FirstPasskeys :
       user = [u \in Users |->
         [st |-> "active", email |-> FirstEmail[u], verified |-> FALSE, version |-> 0,
          admin |-> u \in Root, passwords |-> FirstPasswords[u], passkeys |-> first[u]]]
  /\ link = [l \in Links |->
       [obj |-> "none", row |-> "none", purpose |-> "reset", user |-> AnyOf(Users),
        email |-> AnyOf(Emails), to |-> AnyOf(Emails), version |-> 0]]
  /\ sess = [s \in Sessions |-> [st |-> "none", user |-> AnyOf(Users)]]
  /\ req = [r \in Requests |-> NoRequest]
  /\ effects = [l \in Links |-> 0] /\ faults = 0

-----------------------------------------------------------------------------
(* Pieces shared by the handlers.                                          *)

Goto(r, pc) == req' = [req EXCEPT ![r].pc = pc]
Finish(r) == req' = [req EXCEPT ![r] = NoRequest]

Active(u) == user[u].st = "active"
Exists(u) == user[u].st # "deleted"
Methods(x) == x.passwords \cup x.passkeys

(* admin_eligible: a password too short for an administrator does not let   *)
(* one in.                                                                 *)
Eligible(x, administrator) == IF administrator THEN x.passwords \cap Strong ELSE x.passwords
Usable(x) == Eligible(x, x.admin) \cup x.passkeys

SignedIn(u) == Active(u) /\ \E s \in Sessions : sess[s].st = "live" /\ sess[s].user = u
Owns(e) == {u \in Users : Exists(u) /\ user[u].email = e}
OtherActiveAdmin(u) == \E v \in Users \ {u} : Active(v) /\ user[v].admin

(* A fresh random credential.                                              *)
Fresh(p) ==
  /\ \A u \in Users : p \notin Methods(user[u])
  /\ \A r \in Requests : req[r].key # p

(* Slip: a security transition taken back.                                 *)
Rewound(v) == v - 1

Advanced(v) == v + 1

RevokeAll(u) ==
  [s \in Sessions |-> IF sess[s].user = u /\ sess[s].st = "live"
                      THEN [sess[s] EXCEPT !.st = "revoked"] ELSE sess[s]]

-----------------------------------------------------------------------------
(* Asking for a link.  The address is read first, the version later.       *)

(* /password/forgot, the last step of createManagedUser,                   *)
(* /account/email/verify, /account/email/change, /login/magic, and the      *)
(* sign-in link an administrator asks for.                                 *)
AskLink(r, u, purpose, e) ==
  /\ req[r].pc = "idle" /\ purpose \in Purposes
  /\ IF purpose = "change" THEN SignedIn(u) /\ Owns(e) = {} ELSE e = user[u].email
  /\ CASE purpose = "verify" -> SignedIn(u) /\ ~user[u].verified
       [] purpose = "invite" -> Active(u) /\ user[u].version = 0 /\ Methods(user[u]) = {}
       [] OTHER -> Active(u)
  /\ req' = [req EXCEPT ![r] = [NoRequest EXCEPT
       !.pc = IF purpose = "magic" THEN "account" ELSE "version",
       !.user = u, !.purpose = purpose, !.email = e, !.to = e]]
  /\ UNCHANGED <<user, link, sess, effects, faults>>

(* createMagicLink reads the account again, and binds the link to the      *)
(* address it finds now.                                                   *)
MagicAccount(r) ==
  /\ req[r].pc = "account"
  /\ IF Active(req[r].user)
     THEN req' = [req EXCEPT ![r].pc = "version", ![r].email = user[req[r].user].email]
     ELSE Finish(r)
  /\ UNCHANGED <<user, link, sess, effects, faults>>

(* getUserSecurityVersion. *)
LinkVersion(r) ==
  /\ req[r].pc = "version"
  /\ IF Exists(req[r].user)
     THEN req' = [req EXCEPT ![r].version = user[req[r].user].version,
                             ![r].pc = IF req[r].purpose = "magic" THEN "store" ELSE "row"]
     ELSE Finish(r)
  /\ UNCHANGED <<user, link, sess, effects, faults>>

ByEmail == {"verify", "change"}     \* the purposes that share email_verifications

Unused(l) == link[l].obj = "none" /\ link[l].row = "none"

(* The batch of create...Token: a new row; for email_verifications it      *)
(* consumes the older ones of the account.                                 *)
LinkRow(r, l) ==
  /\ req[r].pc = "row" /\ Unused(l)
  /\ IF Exists(req[r].user)
     THEN /\ link' = [k \in Links |->
               IF k = l THEN [link[l] EXCEPT !.row = "open", !.purpose = req[r].purpose,
                                             !.user = req[r].user]
               ELSE IF /\ req[r].purpose \in ByEmail /\ link[k].purpose \in ByEmail
                       /\ link[k].user = req[r].user /\ link[k].row = "open"
               THEN [link[k] EXCEPT !.row = "closed"] ELSE link[k]]
          /\ req' = [req EXCEPT ![r].pc = "store", ![r].link = l]
     ELSE Finish(r) /\ UNCHANGED link
  /\ UNCHANGED <<user, sess, effects, faults>>

(* enqueueEmail: to the address the link is bound to, but a sign-in link to *)
(* the one that was typed and looked up before (an administrator is shown   *)
(* it instead).                                                            *)
MailedTo(r) == IF req[r].purpose = "magic" THEN req[r].to ELSE req[r].email

(* OneTimeTokenDO.store; the mail follows.                                 *)
LinkStore(r, l) ==
  /\ req[r].pc = "store"
  /\ IF req[r].purpose = "magic" THEN Unused(l) ELSE l = req[r].link
  /\ link' = [link EXCEPT ![l] = [link[l] EXCEPT
       !.obj = "live", !.purpose = req[r].purpose, !.user = req[r].user,
       !.email = req[r].email, !.version = req[r].version,
       !.to = MailedTo(r)]]
  /\ Finish(r)
  /\ UNCHANGED <<user, sess, effects, faults>>

(* The row runs out no later than the object.                              *)
RowExpires(l) ==
  /\ link[l].row = "open"
  /\ link' = [link EXCEPT ![l].row = "closed"]
  /\ UNCHANGED <<user, sess, req, effects, faults>>

ObjectExpires(l) ==
  /\ link[l].obj = "live" /\ link[l].row # "open"
  /\ link' = [link EXCEPT ![l].obj = "gone"]
  /\ UNCHANGED <<user, sess, req, effects, faults>>

-----------------------------------------------------------------------------
(* Following a link.                                                       *)

(* The form is posted, with a new password where the purpose wants one.    *)
Follow(r, l, p) ==
  /\ req[r].pc = "idle" /\ link[l].obj # "none"
  /\ (link[l].purpose \in {"reset", "invite"}) <=> (p # None)
  /\ req' = [req EXCEPT ![r] = [NoRequest EXCEPT
       !.pc = IF p = None THEN "object" ELSE "peek",
       !.user = link[l].user, !.link = l, !.purpose = link[l].purpose,
       !.email = link[l].email, !.version = link[l].version, !.key = p]]
  /\ UNCHANGED <<user, link, sess, effects, faults>>

(* A token posted to the form of another purpose is consumed there.        *)
Misdirected(l) ==
  /\ link[l].obj = "live"
  /\ link' = [link EXCEPT ![l].obj = "spent"]
  /\ UNCHANGED <<user, sess, req, effects, faults>>

(* Slip: links of any age.                                                 *)
OfAnyVersion(r) == Exists(req[r].user)

OfThisVersion(r) == Exists(req[r].user) /\ user[req[r].user].version = req[r].version

(* peekPasswordResetToken: object, row and version, before the form is     *)
(* checked against the policy.                                             *)
ResetPeek(r) ==
  /\ req[r].pc = "peek"
  /\ IF link[req[r].link].obj = "live" /\ link[req[r].link].row = "open" /\ OfThisVersion(r)
     THEN Goto(r, "pending") ELSE Finish(r)
  /\ UNCHANGED <<user, link, sess, effects, faults>>

(* Slip: the address is not compared.                                      *)
AnyOwner(r) == Active(req[r].user)

(* getUserById after the link is taken.  Only verification goes on for a   *)
(* disabled account, only a change of address does not compare addresses.  *)
Owner(r) ==
  LET u == req[r].user IN
  CASE req[r].purpose = "verify" -> Exists(u) /\ user[u].email = req[r].email
    [] req[r].purpose = "change" -> Active(u)
    [] OTHER -> Active(u) /\ user[u].email = req[r].email

(* isUserAdmin and passwordAcceptable. *)
Acceptable(r) == user[req[r].user].admin => req[r].key \in Strong

(* The account and the form, before the link is taken.                     *)
ResetPending(r) ==
  /\ req[r].pc = "pending"
  /\ IF Owner(r) /\ Acceptable(r) THEN Goto(r, "object") ELSE Finish(r)
  /\ UNCHANGED <<user, link, sess, effects, faults>>

(* Slip: the object is read and not marked.                                *)
ReadOnly(l) == link
Spent(l) == [link EXCEPT ![l].obj = "spent"]

(* OneTimeConsumeDO.consume. *)
TakeObject(r) ==
  /\ req[r].pc = "object"
  /\ IF link[req[r].link].obj = "live"
     THEN /\ link' = Spent(req[r].link)
          /\ Goto(r, IF req[r].purpose = "magic" THEN "current" ELSE "takerow")
     ELSE UNCHANGED link /\ Finish(r)
  /\ UNCHANGED <<user, sess, effects, faults>>

(* The guarded UPDATE of the row.                                          *)
TakeRow(r) ==
  LET l == req[r].link IN
  /\ req[r].pc = "takerow"
  /\ IF link[l].row = "open" /\ (req[r].purpose \in ByEmail => OfThisVersion(r))
     THEN link' = [link EXCEPT ![l].row = "closed"] /\ Goto(r, "owner")
     ELSE UNCHANGED link /\ Finish(r)
  /\ UNCHANGED <<user, sess, effects, faults>>

(* consumeMagicLink compares versions, there being no row.                 *)
MagicCurrent(r) ==
  /\ req[r].pc = "current"
  /\ IF OfThisVersion(r) THEN Goto(r, "owner") ELSE Finish(r)
  /\ UNCHANGED <<user, link, sess, effects, faults>>

CheckOwner(r) ==
  /\ req[r].pc = "owner"
  /\ IF Owner(r)
     THEN req' = [req EXCEPT ![r].patch = "verify",
            ![r].pc = CASE req[r].purpose \in {"reset", "invite"} -> "policy"
                        [] req[r].purpose = "change" -> "apply"
                        [] req[r].purpose = "verify" -> "read"
                        [] OTHER -> IF user[req[r].user].verified THEN "apply" ELSE "read"]
     ELSE Finish(r)
  /\ UNCHANGED <<user, link, sess, effects, faults>>

(* Again before the password is hashed.                                    *)
Policy(r) ==
  /\ req[r].pc = "policy"
  /\ IF Acceptable(r) THEN Goto(r, "apply") ELSE Finish(r)
  /\ UNCHANGED <<user, link, sess, effects, faults>>

(* setUserPasswordAtSecurityVersion: one batch.                            *)
SetPassword(r) ==
  LET u == req[r].user IN
  /\ req[r].pc = "apply" /\ req[r].key # None /\ req[r].ok = FALSE
  /\ IF Active(u) /\ OfThisVersion(r)
     THEN /\ user[u].version < MaxVersion
          /\ user' = [user EXCEPT ![u] = [user[u] EXCEPT
                        !.passwords = {req[r].key}, !.version = Advanced(@),
                        !.verified = @ \/ req[r].purpose = "invite"]]
          /\ sess' = RevokeAll(u)
          /\ effects' = [effects EXCEPT ![req[r].link] = @ + 1]
     ELSE UNCHANGED <<user, sess, effects>>
  /\ Finish(r)
  /\ UNCHANGED <<link, faults>>

(* Slip: the address was free when the change was asked for.               *)
FreeWhenAsked(u, e) == TRUE

FreeFor(u, e) == Owns(e) \subseteq {u}

(* updateUserEmail: one batch.                                             *)
ChangeEmail(r) ==
  LET u == req[r].user IN
  /\ req[r].pc = "apply" /\ req[r].purpose = "change"
  /\ IF Active(u) /\ OfThisVersion(r) /\ FreeFor(u, req[r].email)
     THEN /\ user[u].version < MaxVersion
          /\ user' = [user EXCEPT ![u] = [user[u] EXCEPT
                        !.email = req[r].email, !.verified = TRUE, !.version = Advanced(@)]]
          /\ sess' = RevokeAll(u)
          /\ effects' = [effects EXCEPT ![req[r].link] = @ + 1]
     ELSE UNCHANGED <<user, sess, effects>>
  /\ Finish(r)
  /\ UNCHANGED <<link, faults>>

(* createSessionAtSecurityVersion. *)
MagicSession(r, s) ==
  LET u == req[r].user IN
  /\ req[r].pc = "apply" /\ req[r].purpose = "magic" /\ sess[s].st = "none"
  /\ IF Active(u) /\ OfThisVersion(r)
     THEN /\ sess' = [sess EXCEPT ![s] = [st |-> "live", user |-> u]]
          /\ effects' = [effects EXCEPT ![req[r].link] = @ + 1]
     ELSE UNCHANGED <<sess, effects>>
  /\ Finish(r)
  /\ UNCHANGED <<user, link, faults>>

-----------------------------------------------------------------------------
(* updateUser: read the row, then write all of it back if neither the      *)
(* status nor the version changed.                                         *)

(* /account/profile, PATCH /admin/users/:id and the console's forms.        *)
UpdateStart(r, u, patch) ==
  /\ req[r].pc = "idle" /\ Exists(u)
  /\ patch = "name" => SignedIn(u)
  /\ req' = [req EXCEPT ![r] = [NoRequest EXCEPT !.pc = "read", !.user = u, !.patch = patch]]
  /\ UNCHANGED <<user, link, sess, effects, faults>>

(* Where updateUser returns to, with whatever result.                      *)
AfterUpdate(r) ==
  IF req[r].purpose = "magic"
  THEN req' = [req EXCEPT ![r].pc = "apply", ![r].version = link[req[r].link].version]
  ELSE Finish(r)

UpdateRead(r) ==
  LET u == req[r].user IN
  /\ req[r].pc = "read"
  /\ IF Exists(u)
     THEN req' = [req EXCEPT ![r].pc = "write", ![r].ok = user[u].verified,
                             ![r].st = user[u].st, ![r].version = user[u].version]
     ELSE AfterUpdate(r)
  /\ UNCHANGED <<user, link, sess, effects, faults>>

NewStatus(r) == CASE req[r].patch = "disable" -> "disabled"
                  [] req[r].patch = "enable" -> "active"
                  [] OTHER -> req[r].st
NewVerified(r) == CASE req[r].patch = "verify" -> TRUE
                    [] req[r].patch = "unverify" -> FALSE
                    [] OTHER -> req[r].ok

UpdateWrite(r) ==
  LET u == req[r].user
      changed == NewStatus(r) # req[r].st
  IN
  /\ req[r].pc = "write"
  /\ IF /\ Exists(u) /\ user[u].st = req[r].st /\ user[u].version = req[r].version
        /\ \/ NewStatus(r) = "active" \/ user[u].st = "disabled" \/ ~user[u].admin
           \/ OtherActiveAdmin(u)
     THEN /\ changed => user[u].version < MaxVersion
          /\ user' = [user EXCEPT ![u] = [user[u] EXCEPT
               !.st = NewStatus(r), !.verified = NewVerified(r),
               !.version = IF changed THEN Advanced(@) ELSE @]]
          /\ sess' = IF changed THEN RevokeAll(u) ELSE sess
          /\ effects' = IF req[r].patch = "verify" /\ req[r].purpose = "verify"
                        THEN [effects EXCEPT ![req[r].link] = @ + 1] ELSE effects
     ELSE UNCHANGED <<user, sess, effects>>
  /\ AfterUpdate(r)
  /\ UNCHANGED <<link, faults>>

-----------------------------------------------------------------------------
(* Signing in, and login methods.                                          *)

(* POST /login: the account, then the role, then the passwords, and the    *)
(* session last.                                                           *)
LoginStart(r, u, p) ==
  /\ req[r].pc = "idle" /\ Exists(u)
  /\ req' = [req EXCEPT ![r] = [NoRequest EXCEPT
       !.pc = "role", !.user = u, !.key = p, !.st = user[u].st]]
  /\ UNCHANGED <<user, link, sess, effects, faults>>

LoginRole(r) ==
  /\ req[r].pc = "role"
  /\ req' = [req EXCEPT ![r].pc = "rows", ![r].ok = user[req[r].user].admin]
  /\ UNCHANGED <<user, link, sess, effects, faults>>

(* verifyLoginPassword. *)
LoginRows(r) ==
  /\ req[r].pc = "rows"
  /\ IF req[r].key \in Eligible(user[req[r].user], req[r].ok) /\ req[r].st = "active"
     THEN Goto(r, "session") ELSE Finish(r)
  /\ UNCHANGED <<user, link, sess, effects, faults>>

(* createSession. *)
OpenSession(r, s) ==
  LET u == req[r].user IN
  /\ req[r].pc = "session" /\ sess[s].st = "none"
  /\ sess' = IF Active(u) THEN [sess EXCEPT ![s] = [st |-> "live", user |-> u]] ELSE sess
  /\ Finish(r)
  /\ UNCHANGED <<user, link, effects, faults>>

(* /account/passwords and the administrator's form.                        *)
AddPasswordStart(r, u, p) ==
  /\ req[r].pc = "idle" /\ Exists(u) /\ Fresh(p)
  /\ req' = [req EXCEPT ![r] = [NoRequest EXCEPT
       !.pc = "policy", !.user = u, !.key = p, !.ok = TRUE]]
  /\ UNCHANGED <<user, link, sess, effects, faults>>

RoomFor(u) == Cardinality(user[u].passwords) < MaxPasswords

(* addUserPassword: one batch.                                             *)
AddPassword(r) ==
  LET u == req[r].user IN
  /\ req[r].pc = "apply" /\ req[r].key # None /\ req[r].ok
  /\ IF Active(u) /\ RoomFor(u)
     THEN /\ user[u].version < MaxVersion
          /\ user' = [user EXCEPT ![u] = [user[u] EXCEPT
                        !.passwords = @ \cup {req[r].key}, !.version = Advanced(@)]]
     ELSE UNCHANGED user
  /\ Finish(r)
  /\ UNCHANGED <<link, sess, effects, faults>>

(* A registration ceremony ends in this insert; the ceremony is left out.  *)
AddPasskey(u, k) ==
  /\ SignedIn(u) /\ Fresh(k)
  /\ user' = [user EXCEPT ![u].passkeys = @ \cup {k}]
  /\ UNCHANGED <<link, sess, req, effects, faults>>

AnotherMethod(u, k) == Methods(user[u]) # {k}

(* deletePasswordCredentialPreservingLoginMethod and                       *)
(* deleteCredentialPreservingLoginMethod: one statement each.              *)
DeleteMethod(u, k) ==
  /\ Exists(u) /\ k \in Methods(user[u]) /\ AnotherMethod(u, k)
  /\ user' = [user EXCEPT ![u] = [user[u] EXCEPT !.passwords = @ \ {k}, !.passkeys = @ \ {k}]]
  /\ UNCHANGED <<link, sess, req, effects, faults>>

(* A passkey login ends in createSession too; its ceremony is left out.    *)
PasskeySession(u, k, s) ==
  /\ Active(u) /\ k \in user[u].passkeys /\ sess[s].st = "none"
  /\ sess' = [sess EXCEPT ![s] = [st |-> "live", user |-> u]]
  /\ UNCHANGED <<user, link, req, effects, faults>>

(* revokeSessionByToken, revokeSessionById. *)
RevokeSession(s) ==
  /\ sess[s].st = "live"
  /\ sess' = [sess EXCEPT ![s].st = "revoked"]
  /\ UNCHANGED <<user, link, req, effects, faults>>

-----------------------------------------------------------------------------
(* Administrators.                                                         *)

(* adminPromotionRevocationStatements, in the batch that adds to admins.   *)
Promote(u) ==
  /\ Exists(u) /\ ~user[u].admin /\ user[u].version < MaxVersion
  /\ user' = [user EXCEPT ![u] = [user[u] EXCEPT !.admin = TRUE, !.version = Advanced(@)]]
  /\ sess' = RevokeAll(u)
  /\ UNCHANGED <<link, req, effects, faults>>

(* deleteUserPreservingActiveAdmin; rows go with the account.              *)
DeleteUser(u) ==
  /\ Exists(u) /\ (user[u].st = "disabled" \/ ~user[u].admin \/ OtherActiveAdmin(u))
  /\ user' = [user EXCEPT ![u] = [user[u] EXCEPT
                !.st = "deleted", !.admin = FALSE, !.passwords = {}, !.passkeys = {}]]
  /\ sess' = RevokeAll(u)
  /\ link' = [l \in Links |-> IF link[l].user = u /\ link[l].row = "open"
                              THEN [link[l] EXCEPT !.row = "closed"] ELSE link[l]]
  /\ UNCHANGED <<req, effects, faults>>

(* The Worker dies, or the call it waits for fails.                        *)
Crash(r) ==
  /\ req[r].pc # "idle" /\ faults < MaxFaults /\ faults' = faults + 1
  /\ Finish(r)
  /\ UNCHANGED <<user, link, sess, effects>>

-----------------------------------------------------------------------------
Goes(activity) == activity \in Activities

Start(r) ==
  \/ \E u \in Users, purpose \in Purposes, e \in Emails : AskLink(r, u, purpose, e)
  \/ \E l \in Links, p \in Passwords \cup {None} : Follow(r, l, p)
  \/ \E u \in Users, patch \in Patches : UpdateStart(r, u, patch)
  \/ \E u \in Users, p \in Passwords :
       (Goes("login") /\ LoginStart(r, u, p)) \/ (Goes("passwords") /\ AddPasswordStart(r, u, p))

Continue(r) ==
  \/ MagicAccount(r) \/ LinkVersion(r) \/ \E l \in Links : LinkRow(r, l) \/ LinkStore(r, l)
  \/ ResetPeek(r) \/ ResetPending(r) \/ TakeObject(r) \/ TakeRow(r) \/ MagicCurrent(r)
  \/ CheckOwner(r) \/ Policy(r) \/ SetPassword(r) \/ ChangeEmail(r) \/ AddPassword(r)
  \/ \E s \in Sessions : MagicSession(r, s) \/ OpenSession(r, s)
  \/ UpdateRead(r) \/ UpdateWrite(r) \/ LoginRole(r) \/ LoginRows(r)

Environment ==
  \/ \E l \in Links : RowExpires(l) \/ ObjectExpires(l) \/ (Goes("misdirect") /\ Misdirected(l))
  \/ \E u \in Users : (Goes("promote") /\ Promote(u)) \/ (Goes("delete") /\ DeleteUser(u))
  \/ \E u \in Users, k \in Passkeys :
       \/ (Goes("passkeys") /\ AddPasskey(u, k))
       \/ \E s \in Sessions : PasskeySession(u, k, s)
  \/ \E u \in Users, k \in Passwords \cup Passkeys : (Goes("passwords") /\ DeleteMethod(u, k))
  \/ \E s \in Sessions : RevokeSession(s)

Next == (\E r \in Requests : Start(r) \/ Continue(r) \/ Crash(r)) \/ Environment

Spec == Init /\ [][Next]_vars

-----------------------------------------------------------------------------
(* Properties.                                                             *)

TypeOK ==
  /\ user \in [Users -> UserRecords] /\ link \in [Links -> LinkRecords]
  /\ sess \in [Sessions -> SessionRecords] /\ req \in [Requests -> RequestRecords]
  /\ effects \in [Links -> Nat] /\ faults \in Nat

TakesEffect(l) == effects'[l] # effects[l]

(* A link that sets a password, changes the address or opens a session was *)
(* issued for the security version the account still has, and is bound to  *)
(* the address it still has (to the new one, for a change).  A link that    *)
(* sets a password was also mailed there.  The handlers compare version and *)
(* address long before they write, and the address of a reset link is read *)
(* before its version.  Where a sign-in link was mailed to is not claimed:  *)
(* that is the address typed, read before the one it is bound to.           *)
LinksAreCurrent ==
  [][\A l \in Links :
       TakesEffect(l) /\ link[l].purpose # "verify" =>
         LET u == link[l].user IN
         /\ link[l].version = user[u].version
         /\ link[l].purpose # "change" => link[l].email = user[u].email
         /\ link[l].purpose \in {"reset", "invite"} => link[l].to = user[u].email]_vars

(* Addresses stay unique although a change is asked for, mailed and        *)
(* confirmed long after the address was found free.                        *)
EmailsUnique == \A e \in Emails : Cardinality(Owns(e)) <= 1

(* An administrator is left with passwords it had and that let no           *)
(* administrator in.                                                       *)
LeftWeak(new, old) == new.admin /\ new.passwords # {} /\ new.passwords \subseteq old.passwords

(* An account that can be entered without mail still can, whoever removes  *)
(* passwords and passkeys, alone or at once, and whatever resets and        *)
(* promotions happen meanwhile.  The exception is the code's: the guards of *)
(* the deletions count an administrator's passwords that sign-in refuses,   *)
(* and a promotion makes passwords such.  A reset does not: no new password *)
(* is too weak for the role, even one that races with the promotion.        *)
LoginMethodRemains ==
  [][\A u \in Users : Usable(user[u]) # {} =>
       \/ Usable(user'[u]) # {} \/ user'[u].st = "deleted"
       \/ LeftWeak(user'[u], user[u])]_vars

(* "Your email address is now verified": from then on only an              *)
(* administrator who says so takes it back.                                *)
VerificationStands ==
  [][\A u \in Users : user[u].verified /\ ~user'[u].verified =>
       \E r \in Requests : req[r].pc = "write" /\ req[r].user = u /\ req[r].patch = "unverify"]_vars

Phase(l) ==
  CASE link[l].obj = "none" -> "none"
    [] link[l].obj = "live" -> "offered"
    [] link[l].obj = "spent" -> "spent"
    [] OTHER -> "refused"

(* Links are offered, spent or refused, and honoured, each at most once    *)
(* (GrantSpec).                                                            *)
Abstract == INSTANCE GrantSpec WITH
  Sources <- Links, phase <- [l \in Links |-> Phase(l)], honours <- effects

(* Following a link implements single use, whatever crashes or races.      *)
ImplementsLinks == Abstract!Spec
=============================================================================
