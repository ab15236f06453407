--------------------------- MODULE AccountsProofs ---------------------------
(***************************************************************************)
(* Proofs about Accounts for every number of users, addresses, links,       *)
(* credentials, sessions and concurrent requests, every choice of purposes  *)
(* and activities, and every bound.                                         *)
(***************************************************************************)
EXTENDS Accounts, FiniteSetTheorems, TLAPS

-----------------------------------------------------------------------------
(* Type correctness.                                                       *)

LEMMA Picks ==
  AnyOf(Users) \in Users /\ AnyOf(Links) \in Links /\ AnyOf(Emails) \in Emails
BY ConstantsAssumption DEF AnyOf

LEMMA NoRequestType == NoRequest \in RequestRecords
BY Picks DEF NoRequest, RequestRecords, Pcs, AllPurposes, AllPatches

LEMMA FinishType ==
  ASSUME TypeOK, NEW r \in Requests, Finish(r)
  PROVE  req' \in [Requests -> RequestRecords]
BY NoRequestType DEF TypeOK, Finish

LEMMA GotoType ==
  ASSUME TypeOK, NEW r \in Requests, NEW pc \in Pcs, Goto(r, pc)
  PROVE  req' \in [Requests -> RequestRecords]
<1>1. [req[r] EXCEPT !.pc = pc] \in RequestRecords
  BY DEF TypeOK, RequestRecords
<1> QED BY <1>1 DEF TypeOK, Goto

LEMMA RevokeAllType ==
  ASSUME TypeOK, NEW u
  PROVE  RevokeAll(u) \in [Sessions -> SessionRecords]
<1> SUFFICES ASSUME NEW s \in Sessions
             PROVE  [sess[s] EXCEPT !.st = "revoked"] \in SessionRecords
  BY DEF TypeOK, RevokeAll
<1> QED BY DEF TypeOK, SessionRecords

LEMMA OpenedType ==
  ASSUME TypeOK, NEW u \in Users, NEW s \in Sessions
  PROVE  [sess EXCEPT ![s] = [st |-> "live", user |-> u]] \in [Sessions -> SessionRecords]
BY DEF TypeOK, SessionRecords

LEMMA EffectsType ==
  ASSUME TypeOK, NEW l \in Links
  PROVE  [effects EXCEPT ![l] = @ + 1] \in [Links -> Nat]
BY DEF TypeOK

LEMMA RowType ==
  ASSUME TypeOK, NEW l \in Links, NEW row \in {"open", "closed"}
  PROVE  [link[l] EXCEPT !.row = row] \in LinkRecords
BY DEF TypeOK, LinkRecords

LEMMA ObjectType ==
  ASSUME TypeOK, NEW l \in Links, NEW obj \in {"live", "spent", "gone"}
  PROVE  [link EXCEPT ![l].obj = obj] \in [Links -> LinkRecords]
<1>1. [link[l] EXCEPT !.obj = obj] \in LinkRecords
  BY DEF TypeOK, LinkRecords
<1> QED BY <1>1 DEF TypeOK

LEMMA InitTyped == Init => TypeOK
<1> SUFFICES ASSUME Init PROVE TypeOK
  OBVIOUS
<1>1. PICK first \in FirstPasskeys :
        user = [u \in Users |->
          [st |-> "active", email |-> FirstEmail[u], verified |-> FALSE, version |-> 0,
           admin |-> u \in Root, passwords |-> FirstPasswords[u], passkeys |-> first[u]]]
  BY DEF Init
<1>2. \A u \in Users : /\ FirstEmail[u] \in Emails /\ (u \in Root) \in BOOLEAN
                       /\ FirstPasswords[u] \in SUBSET Passwords /\ first[u] \in SUBSET Passkeys
  BY ConstantsAssumption
<1>3. user \in [Users -> UserRecords]
  BY <1>1, <1>2 DEF UserRecords
<1>4. link \in [Links -> LinkRecords]
  BY Picks DEF Init, LinkRecords, AllPurposes
<1>5. sess \in [Sessions -> SessionRecords]
  BY Picks DEF Init, SessionRecords
<1>6. req \in [Requests -> RequestRecords]
  BY NoRequestType DEF Init
<1> QED BY <1>3, <1>4, <1>5, <1>6 DEF Init, TypeOK

LEMMA StartTyped ==
  ASSUME TypeOK, NEW r \in Requests, Start(r)
  PROVE  TypeOK'
<1>n. NoRequest \in RequestRecords
  BY NoRequestType
<1>1. ASSUME NEW u \in Users, NEW purpose \in Purposes, NEW e \in Emails,
             AskLink(r, u, purpose, e)
      PROVE  TypeOK'
  <2>1. PICK pc \in {"account", "version"} :
          req' = [req EXCEPT ![r] = [NoRequest EXCEPT !.pc = pc, !.user = u,
            !.purpose = purpose, !.email = e, !.to = e]]
    BY <1>1 DEF AskLink
  <2>2. [NoRequest EXCEPT !.pc = pc, !.user = u, !.purpose = purpose, !.email = e, !.to = e]
          \in RequestRecords
    BY <1>n, ConstantsAssumption DEF RequestRecords, Pcs
  <2> QED BY <1>1, <2>1, <2>2 DEF TypeOK, AskLink
<1>2. ASSUME NEW l \in Links, NEW p \in Passwords \cup {None}, Follow(r, l, p)
      PROVE  TypeOK'
  <2>1. link[l] \in LinkRecords
    BY DEF TypeOK
  <2>2. PICK pc \in {"object", "peek"} :
          req' = [req EXCEPT ![r] = [NoRequest EXCEPT !.pc = pc,
            !.user = link[l].user, !.link = l, !.purpose = link[l].purpose,
            !.email = link[l].email, !.version = link[l].version, !.key = p]]
    BY <1>2 DEF Follow
  <2>3. [NoRequest EXCEPT !.pc = pc,
            !.user = link[l].user, !.link = l, !.purpose = link[l].purpose,
            !.email = link[l].email, !.version = link[l].version, !.key = p] \in RequestRecords
    BY <1>n, <2>1 DEF RequestRecords, LinkRecords, Pcs
  <2> QED BY <1>2, <2>2, <2>3 DEF TypeOK, Follow
<1>3. ASSUME NEW u \in Users, NEW patch \in Patches, UpdateStart(r, u, patch)
      PROVE  TypeOK'
  <2>1. [NoRequest EXCEPT !.pc = "read", !.user = u, !.patch = patch] \in RequestRecords
    BY <1>n, ConstantsAssumption DEF RequestRecords, Pcs
  <2> QED BY <1>3, <2>1 DEF TypeOK, UpdateStart
<1>4. ASSUME NEW u \in Users, NEW p \in Passwords, LoginStart(r, u, p)
      PROVE  TypeOK'
  <2>1. user[u].st \in {"active", "disabled", "deleted"}
    BY DEF TypeOK, UserRecords
  <2>2. [NoRequest EXCEPT !.pc = "role", !.user = u, !.key = p, !.st = user[u].st]
          \in RequestRecords
    BY <1>n, <2>1 DEF RequestRecords, Pcs
  <2> QED BY <1>4, <2>2 DEF TypeOK, LoginStart
<1>5. ASSUME NEW u \in Users, NEW p \in Passwords, AddPasswordStart(r, u, p)
      PROVE  TypeOK'
  <2>1. [NoRequest EXCEPT !.pc = "policy", !.user = u, !.key = p, !.ok = TRUE]
          \in RequestRecords
    BY <1>n DEF RequestRecords, Pcs
  <2> QED BY <1>5, <2>1 DEF TypeOK, AddPasswordStart
<1> QED BY <1>1, <1>2, <1>3, <1>4, <1>5 DEF Start

LEMMA AfterUpdateType ==
  ASSUME TypeOK, NEW r \in Requests, AfterUpdate(r)
  PROVE  req' \in [Requests -> RequestRecords]
<1>1. req[r] \in RequestRecords /\ req[r].link \in Links
  BY DEF TypeOK, RequestRecords
<1>2. link[req[r].link].version \in Nat
  BY <1>1 DEF TypeOK, LinkRecords
<1>3. [req[r] EXCEPT !.pc = "apply", !.version = link[req[r].link].version] \in RequestRecords
  BY <1>1, <1>2 DEF RequestRecords, Pcs
<1>4. CASE Finish(r)
  BY <1>4, FinishType
<1>5. CASE req' = [req EXCEPT ![r].pc = "apply", ![r].version = link[req[r].link].version]
  <2>1. req' = [req EXCEPT ![r] =
                  [req[r] EXCEPT !.pc = "apply", !.version = link[req[r].link].version]]
    BY <1>1, <1>5 DEF TypeOK
  <2> QED BY <1>3, <2>1 DEF TypeOK
<1> QED BY <1>4, <1>5 DEF AfterUpdate

LEMMA ContinueTyped ==
  ASSUME TypeOK, NEW r \in Requests, Continue(r)
  PROVE  TypeOK'
<1>q. /\ req[r] \in RequestRecords /\ req \in [Requests -> RequestRecords]
      /\ req[r].user \in Users /\ req[r].link \in Links /\ req[r].version \in Nat
      /\ user[req[r].user] \in UserRecords /\ link[req[r].link] \in LinkRecords
  BY DEF TypeOK, RequestRecords
<1>f. Finish(r) => req' \in [Requests -> RequestRecords]
  BY FinishType
<1>g. \A pc \in Pcs : Goto(r, pc) => req' \in [Requests -> RequestRecords]
  BY GotoType
<1>r. RevokeAll(req[r].user) \in [Sessions -> SessionRecords]
  BY RevokeAllType
<1>a. Advanced(user[req[r].user].version) \in Nat
  BY <1>q DEF UserRecords, Advanced
<1>e. [effects EXCEPT ![req[r].link] = @ + 1] \in [Links -> Nat]
  BY <1>q, EffectsType
<1>1. CASE LinkVersion(r)
  <2>1. ASSUME NEW pc \in {"store", "row"}
        PROVE  [req EXCEPT ![r].version = user[req[r].user].version, ![r].pc = pc]
                 \in [Requests -> RequestRecords]
    <3>1. [req[r] EXCEPT !.version = user[req[r].user].version, !.pc = pc] \in RequestRecords
      BY <1>q DEF RequestRecords, UserRecords, Pcs
    <3>2. [req EXCEPT ![r].version = user[req[r].user].version, ![r].pc = pc]
          = [req EXCEPT ![r] =
               [req[r] EXCEPT !.version = user[req[r].user].version, !.pc = pc]]
      BY <1>q
    <3> QED BY <1>q, <3>1, <3>2
  <2> QED BY <1>1, <1>f, <2>1 DEF LinkVersion, TypeOK
<1>2. ASSUME NEW l \in Links, LinkRow(r, l) PROVE TypeOK'
  <2>1. [link[l] EXCEPT !.row = "open", !.purpose = req[r].purpose, !.user = req[r].user]
          \in LinkRecords
    BY <1>q DEF TypeOK, LinkRecords, RequestRecords
  <2>2. \A k \in Links : [link[k] EXCEPT !.row = "closed"] \in LinkRecords
    BY RowType
  <2>3. link' \in [Links -> LinkRecords]
    BY <1>2, <2>1, <2>2 DEF LinkRow, TypeOK
  <2>4. [req[r] EXCEPT !.pc = "store", !.link = l] \in RequestRecords
    BY <1>q DEF RequestRecords, Pcs
  <2>5. [req EXCEPT ![r].pc = "store", ![r].link = l]
        = [req EXCEPT ![r] = [req[r] EXCEPT !.pc = "store", !.link = l]]
    BY <1>q
  <2>6. req' \in [Requests -> RequestRecords]
    BY <1>2, <1>q, <1>f, <2>4, <2>5 DEF LinkRow
  <2> QED BY <1>2, <2>3, <2>6 DEF LinkRow, TypeOK
<1>3. ASSUME NEW l \in Links, LinkStore(r, l) PROVE TypeOK'
  <2>0. MailedTo(r) \in Emails
    BY <1>q DEF MailedTo, RequestRecords
  <2>1. [link[l] EXCEPT !.obj = "live", !.purpose = req[r].purpose, !.user = req[r].user,
           !.email = req[r].email, !.version = req[r].version, !.to = MailedTo(r)] \in LinkRecords
    BY <1>q, <2>0 DEF TypeOK, LinkRecords, RequestRecords
  <2>2. link' \in [Links -> LinkRecords]
    BY <1>3, <2>1 DEF LinkStore, TypeOK
  <2> QED BY <1>3, <1>f, <2>2 DEF LinkStore, TypeOK
<1>4. CASE ResetPeek(r)
  BY <1>4, <1>f, <1>g DEF ResetPeek, TypeOK, Pcs
<1>5. CASE ResetPending(r)
  BY <1>5, <1>f, <1>g DEF ResetPending, TypeOK, Pcs
<1>6. CASE TakeObject(r)
  <2>1. [link EXCEPT ![req[r].link].obj = "spent"] \in [Links -> LinkRecords]
    BY <1>q, ObjectType
  <2> QED BY <1>6, <1>f, <1>g, <2>1 DEF TakeObject, Spent, TypeOK, Pcs
<1>7. CASE TakeRow(r)
  <2>1. [link[req[r].link] EXCEPT !.row = "closed"] \in LinkRecords
    BY <1>q, RowType
  <2>2. link' \in [Links -> LinkRecords]
    BY <1>7, <1>q, <2>1 DEF TakeRow, TypeOK
  <2> QED BY <1>7, <1>f, <1>g, <2>2 DEF TakeRow, TypeOK, Pcs
<1>8. CASE MagicCurrent(r)
  BY <1>8, <1>f, <1>g DEF MagicCurrent, TypeOK, Pcs
<1>9. CASE CheckOwner(r)
  <2>1. ASSUME NEW pc \in Pcs
        PROVE  [req EXCEPT ![r].patch = "verify", ![r].pc = pc] \in [Requests -> RequestRecords]
    <3>1. [req[r] EXCEPT !.patch = "verify", !.pc = pc] \in RequestRecords
      BY <1>q DEF RequestRecords, AllPatches
    <3>2. [req EXCEPT ![r].patch = "verify", ![r].pc = pc]
          = [req EXCEPT ![r] = [req[r] EXCEPT !.patch = "verify", !.pc = pc]]
      BY <1>q
    <3> QED BY <1>q, <3>1, <3>2
  <2>2. CASE Finish(r)
    BY <1>9, <1>f, <2>2 DEF CheckOwner, TypeOK
  <2>3. CASE ~ Finish(r)
    <3>1. PICK pc \in Pcs : req' = [req EXCEPT ![r].patch = "verify", ![r].pc = pc]
      BY <1>9, <2>3 DEF CheckOwner, Pcs
    <3> QED BY <1>9, <2>1, <3>1 DEF CheckOwner, TypeOK
  <2> QED BY <2>2, <2>3
<1>10. CASE Policy(r)
  BY <1>10, <1>f, <1>g DEF Policy, TypeOK, Pcs
<1>11. CASE SetPassword(r)
  <2>1. req[r].key # None => req[r].key \in Passwords
    BY <1>q DEF RequestRecords
  <2>2. req[r].key # None =>
          [user[req[r].user] EXCEPT !.passwords = {req[r].key}, !.version = Advanced(@),
             !.verified = @ \/ req[r].purpose = "invite"] \in UserRecords
    BY <1>q, <1>a, <2>1 DEF UserRecords
  <2>3. user' \in [Users -> UserRecords]
    BY <1>11, <1>q, <2>2 DEF SetPassword, TypeOK
  <2> QED BY <1>11, <1>f, <1>r, <1>e, <2>3 DEF SetPassword, TypeOK
<1>12. CASE ChangeEmail(r)
  <2>1. [user[req[r].user] EXCEPT !.email = req[r].email, !.verified = TRUE,
           !.version = Advanced(@)] \in UserRecords
    BY <1>q, <1>a DEF UserRecords, RequestRecords
  <2>2. user' \in [Users -> UserRecords]
    BY <1>12, <1>q, <2>1 DEF ChangeEmail, TypeOK
  <2> QED BY <1>12, <1>f, <1>r, <1>e, <2>2 DEF ChangeEmail, TypeOK
<1>13. CASE AddPassword(r)
  <2>1. req[r].key # None => req[r].key \in Passwords
    BY <1>q DEF RequestRecords
  <2>2. req[r].key # None =>
          [user[req[r].user] EXCEPT !.passwords = @ \cup {req[r].key}, !.version = Advanced(@)]
             \in UserRecords
    BY <1>q, <1>a, <2>1 DEF UserRecords
  <2>3. user' \in [Users -> UserRecords]
    BY <1>13, <1>q, <2>2 DEF AddPassword, TypeOK
  <2> QED BY <1>13, <1>f, <2>3 DEF AddPassword, TypeOK
<1>14. ASSUME NEW s \in Sessions, MagicSession(r, s) PROVE TypeOK'
  BY <1>14, <1>q, <1>f, <1>e, OpenedType DEF MagicSession, TypeOK
<1>15. ASSUME NEW s \in Sessions, OpenSession(r, s) PROVE TypeOK'
  BY <1>15, <1>q, <1>f, OpenedType DEF OpenSession, TypeOK
<1>16. CASE UpdateRead(r)
  <2>1. [req[r] EXCEPT !.pc = "write", !.ok = user[req[r].user].verified,
           !.st = user[req[r].user].st, !.version = user[req[r].user].version] \in RequestRecords
    BY <1>q DEF RequestRecords, UserRecords, Pcs
  <2>2. [req EXCEPT ![r].pc = "write", ![r].ok = user[req[r].user].verified,
           ![r].st = user[req[r].user].st, ![r].version = user[req[r].user].version]
        = [req EXCEPT ![r] =
             [req[r] EXCEPT !.pc = "write", !.ok = user[req[r].user].verified,
                !.st = user[req[r].user].st, !.version = user[req[r].user].version]]
    BY <1>q
  <2>3. req' \in [Requests -> RequestRecords]
    BY <1>16, <1>q, <2>1, <2>2, AfterUpdateType DEF UpdateRead
  <2> QED BY <1>16, <2>3 DEF UpdateRead, TypeOK
<1>17. CASE UpdateWrite(r)
  <2>1. NewStatus(r) \in {"active", "disabled", "deleted"} /\ NewVerified(r) \in BOOLEAN
    BY <1>q DEF NewStatus, NewVerified, RequestRecords
  <2>2. ASSUME NEW v \in Nat
        PROVE  [user[req[r].user] EXCEPT !.st = NewStatus(r), !.verified = NewVerified(r),
                  !.version = v] \in UserRecords
    BY <1>q, <2>1 DEF UserRecords
  <2>3. /\ user[req[r].user].version \in Nat
        /\ Advanced(user[req[r].user].version) \in Nat
    BY <1>q DEF UserRecords, Advanced
  <2>4. user' \in [Users -> UserRecords]
    <3>1. CASE UNCHANGED user
      BY <3>1 DEF TypeOK
    <3>2. CASE ~ UNCHANGED user
      <4>1. PICK v \in Nat :
              user' = [user EXCEPT ![req[r].user] = [user[req[r].user] EXCEPT
                !.st = NewStatus(r), !.verified = NewVerified(r), !.version = v]]
        <5>1. CASE NewStatus(r) # req[r].st
          <6> Advanced(user[req[r].user].version) \in Nat
            BY <2>3
          <6> WITNESS Advanced(user[req[r].user].version) \in Nat
          <6> QED BY <1>17, <1>q, <3>2, <5>1 DEF UpdateWrite, TypeOK
        <5>2. CASE ~(NewStatus(r) # req[r].st)
          <6> user[req[r].user].version \in Nat
            BY <2>3
          <6> WITNESS user[req[r].user].version \in Nat
          <6> QED BY <1>17, <1>q, <3>2, <5>2 DEF UpdateWrite, TypeOK
        <5> QED BY <5>1, <5>2
      <4> QED BY <1>q, <2>2, <4>1 DEF TypeOK
    <3> QED BY <3>1, <3>2
  <2>5. req' \in [Requests -> RequestRecords]
    BY <1>17, AfterUpdateType DEF UpdateWrite
  <2>6. sess' \in [Sessions -> SessionRecords] /\ effects' \in [Links -> Nat]
    BY <1>17, <1>r, <1>e DEF UpdateWrite, TypeOK
  <2> QED BY <1>17, <2>4, <2>5, <2>6 DEF UpdateWrite, TypeOK
<1>18. CASE LoginRole(r)
  <2>1. [req[r] EXCEPT !.pc = "rows", !.ok = user[req[r].user].admin] \in RequestRecords
    BY <1>q DEF RequestRecords, UserRecords, Pcs
  <2>2. [req EXCEPT ![r].pc = "rows", ![r].ok = user[req[r].user].admin]
        = [req EXCEPT ![r] = [req[r] EXCEPT !.pc = "rows", !.ok = user[req[r].user].admin]]
    BY <1>q
  <2> QED BY <1>18, <1>q, <2>1, <2>2 DEF LoginRole, TypeOK
<1>19. CASE LoginRows(r)
  BY <1>19, <1>f, <1>g DEF LoginRows, TypeOK, Pcs
<1>20. CASE MagicAccount(r)
  <2>1. [req[r] EXCEPT !.pc = "version", !.email = user[req[r].user].email] \in RequestRecords
    BY <1>q DEF RequestRecords, UserRecords, Pcs
  <2>2. [req EXCEPT ![r].pc = "version", ![r].email = user[req[r].user].email]
        = [req EXCEPT ![r] =
             [req[r] EXCEPT !.pc = "version", !.email = user[req[r].user].email]]
    BY <1>q
  <2>3. req' \in [Requests -> RequestRecords]
    BY <1>20, <1>q, <1>f, <2>1, <2>2 DEF MagicAccount
  <2> QED BY <1>20, <2>3 DEF MagicAccount, TypeOK
<1> QED BY <1>1, <1>2, <1>3, <1>4, <1>5, <1>6, <1>7, <1>8, <1>9, <1>10, <1>11, <1>12, <1>13,
           <1>14, <1>15, <1>16, <1>17, <1>18, <1>19, <1>20 DEF Continue

LEMMA EnvironmentTyped ==
  ASSUME TypeOK, Environment
  PROVE  TypeOK'
<1>1. ASSUME NEW l \in Links, RowExpires(l) PROVE TypeOK'
  <2>1. [link[l] EXCEPT !.row = "closed"] \in LinkRecords
    BY RowType
  <2> QED BY <1>1, <2>1 DEF RowExpires, TypeOK
<1>2. ASSUME NEW l \in Links, ObjectExpires(l) \/ Misdirected(l) PROVE TypeOK'
  BY <1>2, ObjectType DEF ObjectExpires, Misdirected, TypeOK
<1>3. ASSUME NEW u \in Users, Promote(u) PROVE TypeOK'
  <2>1. [user[u] EXCEPT !.admin = TRUE, !.version = Advanced(@)] \in UserRecords
    <3>1. user[u] \in UserRecords /\ Advanced(user[u].version) \in Nat
      BY DEF TypeOK, UserRecords, Advanced
    <3> QED BY <3>1 DEF UserRecords
  <2> QED BY <1>3, <2>1, RevokeAllType DEF Promote, TypeOK
<1>4. ASSUME NEW u \in Users, DeleteUser(u) PROVE TypeOK'
  <2>1. [user[u] EXCEPT !.st = "deleted", !.admin = FALSE, !.passwords = {}, !.passkeys = {}]
          \in UserRecords
    BY DEF TypeOK, UserRecords
  <2>2. \A l \in Links : [link[l] EXCEPT !.row = "closed"] \in LinkRecords
    BY RowType
  <2>3. link' \in [Links -> LinkRecords]
    BY <1>4, <2>2 DEF DeleteUser, TypeOK
  <2> QED BY <1>4, <2>1, <2>3, RevokeAllType DEF DeleteUser, TypeOK
<1>5. ASSUME NEW u \in Users, NEW k \in Passkeys, AddPasskey(u, k) PROVE TypeOK'
  <2>1. [user[u] EXCEPT !.passkeys = @ \cup {k}] \in UserRecords
    BY DEF TypeOK, UserRecords
  <2> QED BY <1>5, <2>1 DEF AddPasskey, TypeOK
<1>6. ASSUME NEW u \in Users, NEW k \in Passkeys, NEW s \in Sessions, PasskeySession(u, k, s)
      PROVE TypeOK'
  BY <1>6, OpenedType DEF PasskeySession, TypeOK
<1>7. ASSUME NEW u \in Users, NEW k, DeleteMethod(u, k) PROVE TypeOK'
  <2>1. [user[u] EXCEPT !.passwords = @ \ {k}, !.passkeys = @ \ {k}] \in UserRecords
    BY DEF TypeOK, UserRecords
  <2> QED BY <1>7, <2>1 DEF DeleteMethod, TypeOK
<1>8. ASSUME NEW s \in Sessions, RevokeSession(s) PROVE TypeOK'
  <2>1. [sess[s] EXCEPT !.st = "revoked"] \in SessionRecords
    BY DEF TypeOK, SessionRecords
  <2> QED BY <1>8, <2>1 DEF RevokeSession, TypeOK
<1> QED BY <1>1, <1>2, <1>3, <1>4, <1>5, <1>6, <1>7, <1>8 DEF Environment

LEMMA StepTyped ==
  ASSUME TypeOK, [Next]_vars
  PROVE  TypeOK'
<1>1. ASSUME NEW r \in Requests, Crash(r) PROVE TypeOK'
  BY <1>1, FinishType DEF Crash, TypeOK
<1>2. CASE UNCHANGED vars
  BY <1>2 DEF vars, TypeOK
<1> QED BY <1>1, <1>2, StartTyped, ContinueTyped, EnvironmentTyped DEF Next

(* Whatever requests, mails and administrators do, the tables, the objects  *)
(* and the handlers' locals keep their types.                               *)
THEOREM AccountsTyped == Spec => []TypeOK
BY InitTyped, StepTyped, PTL DEF Spec

-----------------------------------------------------------------------------
(* What one step may do to an account, whoever takes it: a deleted account  *)
(* stays deleted, the security version never goes back, an address changes  *)
(* only to one nobody else has and with a new security version, and the role *)
(* of administrator comes with one.                                         *)

(* What is left to enter the account with; and a password set by a link,    *)
(* of which more is known (WorthyInv).                                      *)
Kept(new, old) ==
  Usable(old) # {} => Usable(new) # {} \/ new.st = "deleted" \/ LeftWeak(new, old)
Replaced(new, old) ==
  \E r \in Requests :
    /\ req[r].pc = "apply" /\ req[r].key # None /\ ~req[r].ok
    /\ user[req[r].user] = old /\ old.version = req[r].version
    /\ new.passwords = {req[r].key} /\ new.admin = old.admin

Fair(new, old) ==
  /\ new.st # "deleted" => old.st # "deleted"
  /\ old.version <= new.version
  /\ new.admin => old.admin \/ old.version < new.version
  /\ Kept(new, old) \/ Replaced(new, old)

KeepsEmail(new, old) == new.email = old.email

UsersMove ==
  /\ \A u \in Users : Fair(user'[u], user[u])
  /\ \/ \A u \in Users : KeepsEmail(user'[u], user[u])
     \/ \E u \in Users :
          /\ FreeFor(u, user'[u].email) /\ user[u].version < user'[u].version
          /\ \A v \in Users \ {u} : user'[v] = user[v]

LEMMA SameUsersMove ==
  ASSUME TypeOK, UNCHANGED user
  PROVE  UsersMove
<1>1. \A u \in Users : user[u].version <= user[u].version
  BY DEF TypeOK, UserRecords
<1> QED BY <1>1 DEF UsersMove, Fair, KeepsEmail, Kept

(* One account gets a new record, with the address it had.                 *)
LEMMA OneUserMoves ==
  ASSUME TypeOK, NEW u \in Users, NEW x \in UserRecords,
         user' = [user EXCEPT ![u] = x], Fair(x, user[u]), KeepsEmail(x, user[u])
  PROVE  UsersMove
<1>1. \A v \in Users : user[v].version <= user[v].version
  BY DEF TypeOK, UserRecords
<1>2. user'[u] = x /\ \A v \in Users \ {u} : user'[v] = user[v]
  BY DEF TypeOK
<1>3. \A v \in Users : Kept(user[v], user[v])
  BY DEF Kept
<1> QED BY <1>1, <1>2, <1>3 DEF UsersMove, Fair, KeepsEmail

(* The same credentials and role, or more credentials.                     *)
LEMMA MoreKept ==
  ASSUME NEW new, NEW old, new.admin = old.admin, old.passwords \subseteq new.passwords,
         old.passkeys \subseteq new.passkeys
  PROVE  Kept(new, old)
BY DEF Kept, Usable, Eligible

LEMMA UserStep ==
  ASSUME TypeOK, [Next]_vars
  PROVE  UsersMove
<1>1. CASE UNCHANGED user
  BY <1>1, SameUsersMove
<1>2. ASSUME NEW r \in Requests, SetPassword(r), ~ UNCHANGED user PROVE UsersMove
  <2>1. PICK u \in Users : u = req[r].user
    BY DEF TypeOK, RequestRecords
  <2>2. user[u] \in UserRecords /\ Advanced(user[u].version) \in Nat
        /\ user[u].version <= Advanced(user[u].version)
    BY DEF TypeOK, UserRecords, Advanced
  <2>3. PICK p \in Passwords : p = req[r].key
    BY <1>2 DEF SetPassword, TypeOK, RequestRecords
  <2>4. PICK b \in BOOLEAN : b = (user[u].verified \/ req[r].purpose = "invite")
    OBVIOUS
  <2> DEFINE x == [user[u] EXCEPT !.passwords = {p}, !.version = Advanced(user[u].version),
                                  !.verified = b]
  <2>5. user' = [user EXCEPT ![u] = x]
    BY <1>2, <2>1, <2>3, <2>4 DEF SetPassword
  <2>6. /\ x \in UserRecords /\ x.st = user[u].st /\ x.version = Advanced(user[u].version)
        /\ x.email = user[u].email /\ x.passwords = {p} /\ x.admin = user[u].admin
    BY <2>2, <2>3 DEF UserRecords
  <2> HIDE DEF x
  <2>7. Replaced(x, user[u])
    <3>1. /\ req[r].pc = "apply" /\ req[r].key # None /\ ~req[r].ok
          /\ user[u].version = req[r].version
      BY <1>2, <2>1 DEF SetPassword, OfThisVersion
    <3> QED BY <2>1, <2>3, <2>6, <3>1 DEF Replaced
  <2> QED BY <2>2, <2>5, <2>6, <2>7, OneUserMoves DEF Fair, KeepsEmail
<1>3. ASSUME NEW r \in Requests, ChangeEmail(r), ~ UNCHANGED user PROVE UsersMove
  <2>1. PICK u \in Users : u = req[r].user
    BY DEF TypeOK, RequestRecords
  <2>2. user[u] \in UserRecords /\ Advanced(user[u].version) \in Nat
        /\ user[u].version < Advanced(user[u].version)
    BY DEF TypeOK, UserRecords, Advanced
  <2>3. PICK e \in Emails : e = req[r].email
    BY DEF TypeOK, RequestRecords
  <2> DEFINE x == [user[u] EXCEPT !.email = e, !.verified = TRUE,
                                  !.version = Advanced(user[u].version)]
  <2>4. user' = [user EXCEPT ![u] = x] /\ FreeFor(u, e)
    BY <1>3, <2>1, <2>3 DEF ChangeEmail
  <2>5. /\ x \in UserRecords /\ x.st = user[u].st /\ x.version = Advanced(user[u].version)
        /\ x.email = e /\ x.passwords = user[u].passwords /\ x.passkeys = user[u].passkeys
        /\ x.admin = user[u].admin
    BY <2>2, <2>3 DEF UserRecords
  <2> HIDE DEF x
  <2>6. user'[u] = x /\ \A v \in Users \ {u} : user'[v] = user[v]
    BY <2>4 DEF TypeOK
  <2>7. \A v \in Users : user[v].version <= user[v].version
    BY DEF TypeOK, UserRecords
  <2>8. user[u].version < x.version /\ user[u].version <= x.version
    BY <2>2, <2>5 DEF UserRecords
  <2>9. Fair(x, user[u])
    BY <2>5, <2>8, MoreKept DEF Fair
  <2>10. \A v \in Users : Fair(user'[v], user[v])
    BY <2>6, <2>7, <2>9 DEF Fair, Kept
  <2> QED BY <2>4, <2>5, <2>6, <2>8, <2>10 DEF UsersMove
<1>4. ASSUME NEW r \in Requests, AddPassword(r), ~ UNCHANGED user PROVE UsersMove
  <2>1. PICK u \in Users : u = req[r].user
    BY DEF TypeOK, RequestRecords
  <2>2. user[u] \in UserRecords /\ Advanced(user[u].version) \in Nat
        /\ user[u].version <= Advanced(user[u].version)
    BY DEF TypeOK, UserRecords, Advanced
  <2>3. PICK p \in Passwords : p = req[r].key
    BY <1>4 DEF AddPassword, TypeOK, RequestRecords
  <2> DEFINE x == [user[u] EXCEPT !.passwords = user[u].passwords \cup {p},
                                  !.version = Advanced(user[u].version)]
  <2>5. user' = [user EXCEPT ![u] = x]
    BY <1>4, <2>1, <2>3 DEF AddPassword
  <2>6. /\ x \in UserRecords /\ x.st = user[u].st /\ x.version = Advanced(user[u].version)
        /\ x.email = user[u].email /\ x.passwords = user[u].passwords \cup {p}
        /\ x.passkeys = user[u].passkeys /\ x.admin = user[u].admin
    BY <2>2, <2>3 DEF UserRecords
  <2> HIDE DEF x
  <2> QED BY <2>2, <2>5, <2>6, OneUserMoves, MoreKept DEF Fair, KeepsEmail
<1>5. ASSUME NEW r \in Requests, UpdateWrite(r), ~ UNCHANGED user PROVE UsersMove
  <2>1. PICK u \in Users : u = req[r].user
    BY DEF TypeOK, RequestRecords
  <2>2. user[u] \in UserRecords /\ Advanced(user[u].version) \in Nat
        /\ user[u].version <= Advanced(user[u].version) /\ user[u].version <= user[u].version
    BY DEF TypeOK, UserRecords, Advanced
  <2>3. PICK st \in {"active", "disabled", "deleted"} : st = NewStatus(r)
    BY DEF NewStatus, TypeOK, RequestRecords
  <2>4. PICK b \in BOOLEAN : b = NewVerified(r)
    BY DEF NewVerified, TypeOK, RequestRecords
  <2>5. PICK v \in Nat : /\ v = IF NewStatus(r) # req[r].st THEN Advanced(user[u].version)
                                                             ELSE user[u].version
                         /\ user[u].version <= v
    BY <2>2 DEF UserRecords
  <2> DEFINE x == [user[u] EXCEPT !.st = st, !.verified = b, !.version = v]
  <2>6. user' = [user EXCEPT ![u] = x] /\ Exists(u)
    BY <1>5, <2>1, <2>3, <2>4, <2>5 DEF UpdateWrite
  <2>7. /\ x \in UserRecords /\ x.st = st /\ x.version = v
        /\ x.email = user[u].email /\ x.passwords = user[u].passwords
        /\ x.passkeys = user[u].passkeys /\ x.admin = user[u].admin
    BY <2>2, <2>3, <2>4, <2>5 DEF UserRecords
  <2> HIDE DEF x
  <2> QED BY <2>2, <2>5, <2>6, <2>7, OneUserMoves, MoreKept DEF Fair, KeepsEmail, Exists
<1>6. ASSUME NEW u \in Users, Promote(u) PROVE UsersMove
  <2>2. user[u] \in UserRecords /\ Advanced(user[u].version) \in Nat
        /\ user[u].version <= Advanced(user[u].version)
        /\ user[u].version < Advanced(user[u].version)
    BY DEF TypeOK, UserRecords, Advanced
  <2> DEFINE x == [user[u] EXCEPT !.admin = TRUE, !.version = Advanced(user[u].version)]
  <2>5. user' = [user EXCEPT ![u] = x]
    BY <1>6 DEF Promote
  <2>6. /\ x \in UserRecords /\ x.st = user[u].st /\ x.version = Advanced(user[u].version)
        /\ x.email = user[u].email /\ x.passwords = user[u].passwords
        /\ x.passkeys = user[u].passkeys /\ x.admin
    BY <2>2 DEF UserRecords
  <2> HIDE DEF x
  <2>7. Kept(x, user[u])
    <3>1. CASE x.passwords # {}
      BY <2>6, <3>1 DEF Kept, LeftWeak
    <3>2. CASE x.passwords = {}
      BY <2>6, <3>2 DEF Kept, Usable, Eligible
    <3> QED BY <3>1, <3>2
  <2> QED BY <2>2, <2>5, <2>6, <2>7, OneUserMoves DEF Fair, KeepsEmail
<1>7. ASSUME NEW u \in Users, DeleteUser(u) PROVE UsersMove
  <2>2. user[u] \in UserRecords /\ user[u].version <= user[u].version
    BY DEF TypeOK, UserRecords
  <2> DEFINE x == [user[u] EXCEPT !.st = "deleted", !.admin = FALSE, !.passwords = {},
                                  !.passkeys = {}]
  <2>5. user' = [user EXCEPT ![u] = x]
    BY <1>7 DEF DeleteUser
  <2>6. /\ x \in UserRecords /\ x.st = "deleted" /\ x.version = user[u].version
        /\ x.email = user[u].email /\ x.admin = FALSE
    BY <2>2 DEF UserRecords
  <2> HIDE DEF x
  <2> QED BY <2>2, <2>5, <2>6, OneUserMoves DEF Fair, KeepsEmail, Kept
<1>8. ASSUME NEW u \in Users, NEW k \in Passkeys, AddPasskey(u, k) PROVE UsersMove
  <2>2. user[u] \in UserRecords /\ user[u].version <= user[u].version
    BY DEF TypeOK, UserRecords
  <2> DEFINE x == [user[u] EXCEPT !.passkeys = user[u].passkeys \cup {k}]
  <2>5. user' = [user EXCEPT ![u] = x]
    BY <1>8 DEF AddPasskey, TypeOK
  <2>6. /\ x \in UserRecords /\ x.st = user[u].st /\ x.version = user[u].version
        /\ x.email = user[u].email /\ x.passkeys = user[u].passkeys \cup {k}
        /\ x.passwords = user[u].passwords /\ x.admin = user[u].admin
    BY <2>2 DEF UserRecords
  <2> HIDE DEF x
  <2> QED BY <2>2, <2>5, <2>6, OneUserMoves, MoreKept DEF Fair, KeepsEmail
<1>9. ASSUME NEW u \in Users, NEW k, DeleteMethod(u, k) PROVE UsersMove
  <2>2. user[u] \in UserRecords /\ user[u].version <= user[u].version
    BY DEF TypeOK, UserRecords
  <2> DEFINE x == [user[u] EXCEPT !.passwords = user[u].passwords \ {k},
                                  !.passkeys = user[u].passkeys \ {k}]
  <2>5. user' = [user EXCEPT ![u] = x]
    BY <1>9 DEF DeleteMethod
  <2>6. /\ x \in UserRecords /\ x.st = user[u].st /\ x.version = user[u].version
        /\ x.email = user[u].email /\ x.passwords = user[u].passwords \ {k}
        /\ x.passkeys = user[u].passkeys \ {k} /\ x.admin = user[u].admin
    BY <2>2 DEF UserRecords
  <2> HIDE DEF x
  <2>7. Methods(x) # {}
    <3>1. k \in Methods(user[u]) /\ Methods(user[u]) # {k}
      BY <1>9 DEF DeleteMethod, AnotherMethod
    <3>2. Methods(x) = Methods(user[u]) \ {k}
      BY <2>6 DEF Methods
    <3> QED BY <3>1, <3>2
  <2>8. x.passwords \subseteq user[u].passwords /\ x.admin \in BOOLEAN
    BY <2>2, <2>6 DEF UserRecords
  <2>9. Kept(x, user[u])
    <3>1. CASE x.passkeys # {}
      BY <3>1 DEF Kept, Usable
    <3>2. CASE x.passkeys = {} /\ x.admin
      BY <2>7, <2>8, <3>2 DEF Kept, LeftWeak, Methods
    <3>3. CASE x.passkeys = {} /\ ~x.admin
      BY <2>7, <3>3 DEF Kept, Usable, Eligible, Methods
    <3> QED BY <2>8, <3>1, <3>2, <3>3
  <2> QED BY <2>2, <2>5, <2>6, <2>9, OneUserMoves DEF Fair, KeepsEmail
<1>10. ASSUME NEW r \in Requests, Start(r) PROVE UNCHANGED user
  BY <1>10 DEF Start, AskLink, Follow, UpdateStart, LoginStart, AddPasswordStart
<1>11. ASSUME NEW r \in Requests, Continue(r)
       PROVE  UNCHANGED user \/ SetPassword(r) \/ ChangeEmail(r) \/ AddPassword(r)
              \/ UpdateWrite(r)
  BY <1>11 DEF Continue, MagicAccount, LinkVersion, LinkRow, LinkStore, ResetPeek, ResetPending,
     TakeObject, TakeRow, MagicCurrent, CheckOwner, Policy, MagicSession, OpenSession, UpdateRead,
     LoginRole, LoginRows
<1>12. ASSUME Environment
       PROVE  \/ UNCHANGED user
              \/ \E u \in Users : Promote(u) \/ DeleteUser(u)
              \/ \E u \in Users, k \in Passkeys : AddPasskey(u, k)
              \/ \E u \in Users, k \in Passwords \cup Passkeys : DeleteMethod(u, k)
  BY <1>12 DEF Environment, RowExpires, ObjectExpires, Misdirected, PasskeySession, RevokeSession
<1>13. \A r \in Requests : Crash(r) => UNCHANGED user
  BY DEF Crash
<1>14. UNCHANGED vars => UNCHANGED user
  BY DEF vars
<1> QED BY <1>1, <1>2, <1>3, <1>4, <1>5, <1>6, <1>7, <1>8, <1>9, <1>10, <1>11, <1>12, <1>13,
           <1>14 DEF Next

-----------------------------------------------------------------------------
(* Addresses.  A change compares the new address with every account in the  *)
(* batch that writes it, so no two accounts ever share one.                 *)

DistinctEmails ==
  \A u, v \in Users : Exists(u) /\ Exists(v) /\ user[u].email = user[v].email => u = v

LEMMA StepDistinct ==
  ASSUME TypeOK, DistinctEmails, [Next]_vars
  PROVE  DistinctEmails'
<1>1. UsersMove
  BY UserStep
<1>2. \A u \in Users : user'[u].st # "deleted" => user[u].st # "deleted"
  BY <1>1 DEF UsersMove, Fair
<1>3. CASE \A u \in Users : KeepsEmail(user'[u], user[u])
  BY <1>2, <1>3 DEF DistinctEmails, Exists, KeepsEmail
<1>4. ASSUME NEW u \in Users, FreeFor(u, user'[u].email),
             \A v \in Users \ {u} : user'[v] = user[v]
      PROVE  DistinctEmails'
  <2>1. ASSUME NEW v \in Users \ {u}, user'[v].st # "deleted"
        PROVE  user'[v].email # user'[u].email
    <3>1. user[v].st # "deleted" /\ user'[v].email = user[v].email
      BY <1>4, <1>2, <2>1
    <3> QED BY <1>4, <3>1 DEF FreeFor, Owns, Exists
  <2> QED BY <1>4, <1>2, <2>1 DEF DistinctEmails, Exists
<1> QED BY <1>1, <1>3, <1>4 DEF UsersMove

LEMMA InitDistinct == Init => DistinctEmails
<1> SUFFICES ASSUME Init PROVE DistinctEmails
  OBVIOUS
<1>1. \A u \in Users : user[u].email = FirstEmail[u]
  BY DEF Init
<1> QED BY <1>1, ConstantsAssumption DEF DistinctEmails

(* Addresses stay unique although a change is asked for, mailed and         *)
(* confirmed long after the address was found free.                         *)
THEOREM UniqueAddresses == Spec => []EmailsUnique
<1>1. DistinctEmails => EmailsUnique
  <2> SUFFICES ASSUME DistinctEmails, NEW e \in Emails PROVE Cardinality(Owns(e)) <= 1
    BY DEF EmailsUnique
  <2>1. CASE Owns(e) = {}
    BY <2>1, FS_EmptySet
  <2>2. ASSUME NEW u \in Owns(e) PROVE Cardinality(Owns(e)) <= 1
    <3>1. Owns(e) = {u}
      BY <2>2 DEF Owns, DistinctEmails
    <3>2. Cardinality({u}) = 1
      BY FS_Singleton
    <3> QED BY <3>1, <3>2
  <2> QED BY <2>1, <2>2
<1> QED BY <1>1, InitDistinct, StepDistinct, AccountsTyped, PTL DEF Spec

-----------------------------------------------------------------------------
(* Following links.  Which locals of a handler say that it follows a link,  *)
(* that it has spent it, that it found the address right, and that it is    *)
(* about to store one it has a row for.                                     *)

Follows(x) ==
  \/ x.pc \in {"peek", "pending", "object", "takerow", "current", "owner"}
  \/ x.pc \in {"policy", "apply"} /\ (~x.ok \/ x.purpose \in {"magic", "change"})
  \/ x.pc \in {"read", "write"} /\ x.patch = "verify"
Spends(x) == Follows(x) /\ x.pc \notin {"peek", "pending", "object"}
Checked(x) ==
  Follows(x) /\ x.pc \in {"policy", "apply", "read", "write"} /\ x.purpose # "change"
Stores(x) == x.pc = "store" /\ x.purpose # "magic"

(* A handler carries what its link says, its link is spent and has not had  *)
(* its effect, and the address it found right is right as long as the       *)
(* version is the link's.                                                   *)
Carries(x) ==
  LET k == link[x.link] IN
  /\ k.obj # "none" /\ k.purpose = x.purpose /\ k.user = x.user /\ k.email = x.email
  /\ x.pc \notin {"read", "write"} => k.version = x.version

RequestHolds(x) ==
  /\ Follows(x) => Carries(x)
  /\ Spends(x) => link[x.link].obj = "spent" /\ effects[x.link] = 0
  /\ Checked(x) =>
       (link[x.link].version = user[x.user].version => user[x.user].email = x.email)
  /\ Stores(x) => link[x.link].obj = "none" /\ link[x.link].row # "none"
  /\ x.pc \in {"row", "store"} => x.version <= user[x.user].version
  /\ x.pc \in {"read", "write"} /\ x.patch # "verify" => x.purpose # "magic"

LinkHolds(l) ==
  /\ link[l].obj # "none" =>
       /\ link[l].version <= user[link[l].user].version
       /\ link[l].purpose # "magic" => link[l].to = link[l].email
  /\ link[l].obj # "spent" => effects[l] = 0

OneSpends ==
  \A p, q \in Requests : Spends(req[p]) /\ Spends(req[q]) /\ req[p].link = req[q].link => p = q
OneStores ==
  \A p, q \in Requests : Stores(req[p]) /\ Stores(req[q]) /\ req[p].link = req[q].link => p = q

LinkInv ==
  /\ \A r \in Requests : RequestHolds(req[r])
  /\ \A l \in Links : LinkHolds(l)
  /\ OneSpends /\ OneStores

(* What a step may do to links: nothing is taken back from one that was     *)
(* stored, and a spent one stays spent.                                     *)
LinkKept(new, old) ==
  /\ old.obj # "none" =>
       /\ new.obj # "none" /\ new.purpose = old.purpose /\ new.user = old.user
       /\ new.email = old.email /\ new.to = old.to /\ new.version = old.version
  /\ old.obj = "spent" => new.obj = "spent"
LinksKept == \A l \in Links : LinkKept(link'[l], link[l])

(* Calm steps store no link and forget no row.                             *)
LinksCalm ==
  /\ LinksKept /\ effects' = effects
  /\ \A l \in Links : /\ link[l].obj = "none" => link'[l].obj = "none"
                      /\ link[l].row # "none" => link'[l].row # "none"

Undisturbed(x) ==
  /\ Spends(x) => effects'[x.link] = effects[x.link]
  /\ Stores(x) => /\ link[x.link].obj = "none" => link'[x.link].obj = "none"
                  /\ (link[x.link].row # "none" => link'[x.link].row # "none")

LEMMA RequestStays ==
  ASSUME TypeOK, TypeOK', UsersMove, LinksKept, NEW x \in RequestRecords,
         Undisturbed(x), RequestHolds(x), LinkHolds(x.link)
  PROVE  RequestHolds(x)'
<1>1. /\ x.link \in Links /\ x.user \in Users /\ x.version \in Nat
      /\ LinkKept(link'[x.link], link[x.link])
  BY DEF RequestRecords, LinksKept
<1>2. /\ user[x.user].version \in Nat /\ user'[x.user].version \in Nat
      /\ link[x.link].version \in Nat /\ user[x.user].version <= user'[x.user].version
  BY <1>1 DEF TypeOK, UserRecords, LinkRecords, UsersMove, Fair
<1>3. user'[x.user].email = user[x.user].email \/ user[x.user].version < user'[x.user].version
  BY <1>1 DEF UsersMove, KeepsEmail
<1>4. (Follows(x) => Carries(x))'
  BY <1>1 DEF RequestHolds, Carries, LinkKept, Follows
<1>5. (Spends(x) => link[x.link].obj = "spent" /\ effects[x.link] = 0)'
  BY <1>1 DEF RequestHolds, LinkKept, Undisturbed, Spends, Follows
<1>6. (Checked(x) =>
        (link[x.link].version = user[x.user].version => user[x.user].email = x.email))'
  <2> SUFFICES ASSUME Checked(x), link'[x.link].version = user'[x.user].version
               PROVE  user'[x.user].email = x.email
    BY DEF Checked, Follows
  <2>1. Carries(x)
    BY DEF Checked, RequestHolds
  <2>2. link'[x.link].version = link[x.link].version /\ link[x.link].user = x.user
        /\ link[x.link].version <= user[x.user].version
    BY <1>1, <2>1 DEF Carries, LinkKept, LinkHolds
  <2>3. user[x.user].version = user'[x.user].version
        /\ link[x.link].version = user[x.user].version
    BY <1>2, <2>2
  <2> QED BY <1>2, <1>3, <2>3 DEF RequestHolds
<1>7. (Stores(x) => link[x.link].obj = "none" /\ link[x.link].row # "none")'
  BY DEF RequestHolds, Undisturbed, Stores
<1>8. (x.pc \in {"row", "store"} => x.version <= user[x.user].version)'
  BY <1>1, <1>2 DEF RequestHolds
<1>9. (x.pc \in {"read", "write"} /\ x.patch # "verify" => x.purpose # "magic")'
  BY DEF RequestHolds
<1> QED BY <1>4, <1>5, <1>6, <1>7, <1>8, <1>9 DEF RequestHolds

LEMMA LinkStays ==
  ASSUME TypeOK, TypeOK', UsersMove, LinksKept, NEW l \in Links, LinkHolds(l),
         link[l].obj # "none" \/ link'[l].obj = "none",
         link[l].obj = "spent" \/ effects'[l] = effects[l]
  PROVE  LinkHolds(l)'
<1>1. LinkKept(link'[l], link[l])
  BY DEF LinksKept
<1>2. CASE link[l].obj = "none"
  BY <1>1, <1>2 DEF LinkHolds
<1>3. CASE link[l].obj # "none"
  <2>1. PICK u \in Users : u = link[l].user
    BY DEF TypeOK, LinkRecords
  <2>2. /\ user[u].version \in Nat /\ user'[u].version \in Nat /\ link[l].version \in Nat
        /\ user[u].version <= user'[u].version
    BY DEF TypeOK, UserRecords, LinkRecords, UsersMove, Fair
  <2>3. link'[l].version = link[l].version /\ link'[l].user = u /\ link[l].version <= user[u].version
    BY <1>1, <1>3, <2>1 DEF LinkKept, LinkHolds
  <2>4. link'[l].version <= user'[u].version
    BY <2>2, <2>3
  <2>6. link'[l].purpose # "magic" => link'[l].to = link'[l].email
    BY <1>1, <1>3 DEF LinkKept, LinkHolds
  <2>5. link'[l].obj # "spent" => effects'[l] = 0
    BY <1>1 DEF LinkKept, LinkHolds
  <2> QED BY <2>3, <2>4, <2>5, <2>6 DEF LinkHolds
<1> QED BY <1>2, <1>3

(* One handler steps; the links and the other handlers are left in order.  *)
LEMMA HandlerStep ==
  ASSUME TypeOK, TypeOK', LinkInv, UsersMove, LinksKept,
         NEW r \in Requests, NEW y \in RequestRecords, req' = [req EXCEPT ![r] = y],
         \A q \in Requests \ {r} : Undisturbed(req[q]),
         RequestHolds(y)', \A l \in Links : LinkHolds(l)',
         \A q \in Requests \ {r} : Spends(y) /\ Spends(req[q]) => y.link # req[q].link,
         \A q \in Requests \ {r} : Stores(y) /\ Stores(req[q]) => y.link # req[q].link
  PROVE  LinkInv'
<1>1. req'[r] = y /\ \A q \in Requests \ {r} : req'[q] = req[q]
  BY DEF TypeOK
<1>2. ASSUME NEW q \in Requests \ {r} PROVE RequestHolds(req[q])'
  <2>1. PICK x \in RequestRecords : x = req[q]
    BY DEF TypeOK
  <2>2. x.link \in Links /\ RequestHolds(x) /\ Undisturbed(x)
    BY <2>1 DEF RequestRecords, LinkInv
  <2>3. RequestHolds(x)'
    BY <2>2, RequestStays DEF LinkInv
  <2>4. req'[q] = x
    BY <1>1, <2>1
  <2> QED BY <2>3, <2>4
<1>3. RequestHolds(req[r])'
  BY <1>1
<1>4. OneSpends'
  BY <1>1 DEF OneSpends, LinkInv
<1>5. OneStores'
  BY <1>1 DEF OneStores, LinkInv
<1> QED BY <1>2, <1>3, <1>4, <1>5 DEF LinkInv

LEMMA CalmKeeps ==
  ASSUME TypeOK, TypeOK', LinkInv, UsersMove, LinksCalm
  PROVE  /\ LinksKept /\ \A l \in Links : LinkHolds(l)'
         /\ \A x \in RequestRecords : Undisturbed(x) /\ (RequestHolds(x) => RequestHolds(x)')
<1>1. ASSUME NEW l \in Links PROVE LinkHolds(l)'
  <2>1. /\ LinksKept /\ LinkHolds(l)
        /\ link[l].obj # "none" \/ link'[l].obj = "none"
        /\ link[l].obj = "spent" \/ effects'[l] = effects[l]
    BY DEF LinksCalm, LinkInv
  <2> QED BY <2>1, LinkStays
<1>2. ASSUME NEW x \in RequestRecords PROVE x.link \in Links /\ Undisturbed(x)
  BY DEF RequestRecords, Undisturbed, LinksCalm, Stores
<1>3. ASSUME NEW x \in RequestRecords, RequestHolds(x) PROVE RequestHolds(x)'
  BY <1>2, <1>3, RequestStays DEF LinksCalm, LinkInv
<1> QED BY <1>1, <1>2, <1>3 DEF LinksCalm

Succeeds(y, x) ==
  /\ Spends(y) => Spends(x) /\ y.link = x.link
  /\ Stores(y) => Stores(x) /\ y.link = x.link

LEMMA CalmStep ==
  ASSUME TypeOK, TypeOK', LinkInv, UsersMove, LinksCalm,
         NEW r \in Requests, NEW y \in RequestRecords, req' = [req EXCEPT ![r] = y],
         RequestHolds(y), Succeeds(y, req[r])
  PROVE  LinkInv'
<1>1. /\ LinksKept /\ \A l \in Links : LinkHolds(l)'
      /\ \A x \in RequestRecords : Undisturbed(x) /\ (RequestHolds(x) => RequestHolds(x)')
  BY CalmKeeps
<1>2. \A q \in Requests \ {r} : Undisturbed(req[q])
  BY <1>1 DEF TypeOK
<1>3. RequestHolds(y)'
  BY <1>1
<1>4. \A q \in Requests \ {r} : Spends(y) /\ Spends(req[q]) => y.link # req[q].link
  BY DEF LinkInv, OneSpends, Succeeds
<1>5. \A q \in Requests \ {r} : Stores(y) /\ Stores(req[q]) => y.link # req[q].link
  BY DEF LinkInv, OneStores, Succeeds
<1> QED BY <1>1, <1>2, <1>3, <1>4, <1>5, HandlerStep

LEMMA CalmWorld ==
  ASSUME TypeOK, TypeOK', LinkInv, UsersMove, LinksCalm, UNCHANGED req
  PROVE  LinkInv'
<1>1. /\ LinksKept /\ \A l \in Links : LinkHolds(l)'
      /\ \A x \in RequestRecords : Undisturbed(x) /\ (RequestHolds(x) => RequestHolds(x)')
  BY CalmKeeps
<1>2. ASSUME NEW q \in Requests PROVE RequestHolds(req[q])'
  <2>1. PICK x \in RequestRecords : x = req[q]
    BY DEF TypeOK
  <2>2. RequestHolds(x)'
    BY <1>1, <2>1 DEF LinkInv
  <2> QED BY <2>1, <2>2
<1>3. OneSpends' /\ OneStores'
  BY DEF OneSpends, OneStores, LinkInv
<1> QED BY <1>1, <1>2, <1>3 DEF LinkInv

(* Handlers that neither follow nor store a link are never in the way.     *)
LEMMA OffHolds ==
  ASSUME NEW y, y.pc \in {"idle", "account", "version", "role", "rows", "session"}
  PROVE  RequestHolds(y) /\ ~Spends(y) /\ ~Stores(y)
BY DEF RequestHolds, Spends, Stores, Follows, Checked

LEMMA OffStep ==
  ASSUME TypeOK, TypeOK', LinkInv, UsersMove, LinksCalm,
         NEW r \in Requests, NEW y \in RequestRecords, req' = [req EXCEPT ![r] = y],
         y.pc \in {"idle", "account", "version", "role", "rows", "session"}
  PROVE  LinkInv'
<1>1. RequestHolds(y) /\ Succeeds(y, req[r])
  BY OffHolds DEF Succeeds
<1> QED BY <1>1, CalmStep

LEMMA FinishStep ==
  ASSUME TypeOK, TypeOK', LinkInv, UsersMove, LinksCalm, NEW r \in Requests, Finish(r)
  PROVE  LinkInv'
<1>1. NoRequest \in RequestRecords /\ NoRequest.pc = "idle"
  BY NoRequestType DEF NoRequest
<1> QED BY <1>1, OffStep DEF Finish

LEMMA SameLinksCalm ==
  ASSUME UNCHANGED <<link, effects>>
  PROVE  LinksCalm
BY DEF LinksCalm, LinksKept, LinkKept

(* One link gets a new record.                                             *)
LEMMA OneLinkCalm ==
  ASSUME TypeOK, NEW l \in Links, NEW k, link' = [link EXCEPT ![l] = k], UNCHANGED effects,
         LinkKept(k, link[l]), link[l].obj # "none" \/ k.obj = "none",
         link[l].row = "none" \/ k.row # "none"
  PROVE  LinksCalm
<1>1. link'[l] = k /\ \A j \in Links \ {l} : link'[j] = link[j]
  BY DEF TypeOK
<1> QED BY <1>1 DEF LinksCalm, LinksKept, LinkKept

LEMMA RowClosedCalm ==
  ASSUME TypeOK, NEW l \in Links, link' = [link EXCEPT ![l].row = "closed"], UNCHANGED effects
  PROVE  LinksCalm
<1> DEFINE k == [link[l] EXCEPT !.row = "closed"]
<1>1. link' = [link EXCEPT ![l] = k]
  BY DEF TypeOK
<1>2. /\ k.obj = link[l].obj /\ k.purpose = link[l].purpose /\ k.user = link[l].user
      /\ k.email = link[l].email /\ k.to = link[l].to /\ k.version = link[l].version /\ k.row = "closed"
  BY DEF TypeOK, LinkRecords
<1> HIDE DEF k
<1> QED BY <1>1, <1>2, OneLinkCalm DEF LinkKept

LEMMA ObjectEndsCalm ==
  ASSUME TypeOK, NEW l \in Links, NEW obj \in {"spent", "gone"}, link[l].obj = "live",
         link' = [link EXCEPT ![l].obj = obj], UNCHANGED effects
  PROVE  LinksCalm /\ link'[l].obj = obj
<1> DEFINE k == [link[l] EXCEPT !.obj = obj]
<1>1. link' = [link EXCEPT ![l] = k]
  BY DEF TypeOK
<1>2. /\ k.obj = obj /\ k.purpose = link[l].purpose /\ k.user = link[l].user
      /\ k.email = link[l].email /\ k.to = link[l].to /\ k.version = link[l].version /\ k.row = link[l].row
  BY DEF TypeOK, LinkRecords
<1>3. link'[l] = k
  BY <1>1 DEF TypeOK
<1> HIDE DEF k
<1>4. /\ LinkKept(k, link[l])
      /\ link[l].obj # "none" \/ k.obj = "none"
      /\ link[l].row = "none" \/ k.row # "none"
  BY <1>2 DEF LinkKept
<1>5. LinksCalm
  BY <1>1, <1>4, OneLinkCalm
<1> QED BY <1>2, <1>3, <1>5

(* The same locals but for the program counter.                            *)
SameBut(y, x) ==
  /\ y.link = x.link /\ y.user = x.user /\ y.purpose = x.purpose /\ y.email = x.email
  /\ y.ok = x.ok /\ y.key = x.key

LEMMA GotoFields ==
  ASSUME TypeOK, NEW r \in Requests, NEW pc \in Pcs, Goto(r, pc)
  PROVE  \E y \in RequestRecords :
           /\ req' = [req EXCEPT ![r] = y] /\ y.pc = pc /\ SameBut(y, req[r])
           /\ y.version = req[r].version /\ y.patch = req[r].patch
<1> DEFINE y == [req[r] EXCEPT !.pc = pc]
<1>1. req[r] \in RequestRecords
  BY DEF TypeOK
<1>2. /\ y \in RequestRecords /\ y.pc = pc /\ SameBut(y, req[r])
      /\ y.version = req[r].version /\ y.patch = req[r].patch
  BY <1>1 DEF RequestRecords, SameBut
<1>3. req' = [req EXCEPT ![r] = y]
  BY DEF Goto, TypeOK
<1> QED BY <1>2, <1>3

(* A handler that follows a link goes on to a step that spends nothing.    *)
LEMMA FollowOn ==
  ASSUME TypeOK, TypeOK', LinkInv, UsersMove, LinksCalm, NEW r \in Requests,
         NEW pc \in {"pending", "object"}, req[r].pc \in {"peek", "pending"}, Goto(r, pc)
  PROVE  LinkInv'
<1>1. PICK y \in RequestRecords :
         /\ req' = [req EXCEPT ![r] = y] /\ y.pc = pc /\ SameBut(y, req[r])
         /\ y.version = req[r].version /\ y.patch = req[r].patch
  BY GotoFields DEF Pcs
<1>2. Carries(req[r])
  BY DEF LinkInv, RequestHolds, Follows
<1>3. RequestHolds(y) /\ ~Spends(y) /\ ~Stores(y)
  BY <1>1, <1>2 DEF RequestHolds, Carries, Follows, Spends, Stores, Checked, SameBut
<1> QED BY <1>1, <1>3, CalmStep DEF Succeeds

(* A handler that spent its link goes on to a step before the address.     *)
LEMMA SpendOn ==
  ASSUME TypeOK, TypeOK', LinkInv, UsersMove, LinksCalm, NEW r \in Requests,
         req[r].pc \in {"takerow", "current"}, Goto(r, "owner")
  PROVE  LinkInv'
<1>1. PICK y \in RequestRecords :
         /\ req' = [req EXCEPT ![r] = y] /\ y.pc = "owner" /\ SameBut(y, req[r])
         /\ y.version = req[r].version /\ y.patch = req[r].patch
  BY GotoFields DEF Pcs
<1>2. Spends(req[r]) /\ Follows(req[r])
  BY DEF Spends, Follows
<1>3. Carries(req[r]) /\ link[req[r].link].obj = "spent" /\ effects[req[r].link] = 0
  BY <1>2 DEF LinkInv, RequestHolds
<1>4. RequestHolds(y) /\ ~Stores(y)
  BY <1>1, <1>3 DEF RequestHolds, Carries, Follows, Stores, Checked, SameBut
<1> QED BY <1>1, <1>2, <1>4, CalmStep DEF Succeeds, SameBut

(* What a link was spent for is done: once, for no other handler spent it. *)
LEMMA EffectStep ==
  ASSUME TypeOK, TypeOK', LinkInv, UsersMove, NEW r \in Requests, Spends(req[r]), Finish(r),
         UNCHANGED link, effects' = [effects EXCEPT ![req[r].link] = @ + 1]
  PROVE  LinkInv'
<1>1. PICK l \in Links : l = req[r].link
  BY DEF TypeOK, RequestRecords
<1>2. LinksKept /\ link[l].obj = "spent"
  BY <1>1 DEF LinksKept, LinkKept, LinkInv, RequestHolds
<1>3. \A k \in Links \ {l} : effects'[k] = effects[k]
  BY <1>1 DEF TypeOK
<1>4. \A q \in Requests \ {r} : Undisturbed(req[q])
  <2> SUFFICES ASSUME NEW q \in Requests \ {r} PROVE Undisturbed(req[q])
    OBVIOUS
  <2>1. req[q].link \in Links
    BY DEF TypeOK, RequestRecords
  <2>2. Spends(req[q]) => req[q].link # l
    BY <1>1 DEF LinkInv, OneSpends
  <2> QED BY <1>3, <2>1, <2>2 DEF Undisturbed
<1>5. ASSUME NEW k \in Links PROVE LinkHolds(k)'
  <2>1. LinkHolds(k) /\ (link[k].obj # "none" \/ link'[k].obj = "none")
    BY DEF LinkInv
  <2>2. link[k].obj = "spent" \/ effects'[k] = effects[k]
    BY <1>2, <1>3
  <2> QED BY <1>2, <2>1, <2>2, LinkStays
<1>6. NoRequest \in RequestRecords /\ NoRequest.pc = "idle"
  BY NoRequestType DEF NoRequest
<1>7. RequestHolds(NoRequest)' /\ ~Spends(NoRequest) /\ ~Stores(NoRequest)
  BY <1>6 DEF RequestHolds, Spends, Stores, Follows, Checked
<1> QED BY <1>2, <1>4, <1>5, <1>6, <1>7, HandlerStep DEF Finish

LEMMA StartLinks ==
  ASSUME TypeOK, TypeOK', LinkInv, UsersMove, NEW r \in Requests, Start(r)
  PROVE  LinkInv'
<1>n. NoRequest \in RequestRecords
  BY NoRequestType
<1>c. LinksCalm
  <2>1. UNCHANGED <<link, effects>>
    BY DEF Start, AskLink, Follow, UpdateStart, LoginStart, AddPasswordStart
  <2> QED BY <2>1, SameLinksCalm
<1>1. ASSUME NEW u \in Users, NEW purpose \in Purposes, NEW e \in Emails,
             AskLink(r, u, purpose, e)
      PROVE  LinkInv'
  <2>0. PICK pc \in {"account", "version"} :
          req' = [req EXCEPT ![r] = [NoRequest EXCEPT !.pc = pc, !.user = u,
            !.purpose = purpose, !.email = e, !.to = e]]
    BY <1>1 DEF AskLink
  <2> DEFINE y == [NoRequest EXCEPT !.pc = pc, !.user = u, !.purpose = purpose,
                                    !.email = e, !.to = e]
  <2>1. y \in RequestRecords /\ y.pc = pc
    BY <1>n, ConstantsAssumption DEF RequestRecords, Pcs
  <2>2. req' = [req EXCEPT ![r] = y]
    BY <2>0
  <2> HIDE DEF y
  <2> QED BY <1>c, <2>1, <2>2, OffStep
<1>2. ASSUME NEW l \in Links, NEW p \in Passwords \cup {None}, Follow(r, l, p)
      PROVE  LinkInv'
  <2>1. link[l] \in LinkRecords
    BY DEF TypeOK
  <2>2. PICK pc \in {"object", "peek"} :
          req' = [req EXCEPT ![r] = [NoRequest EXCEPT !.pc = pc,
            !.user = link[l].user, !.link = l, !.purpose = link[l].purpose,
            !.email = link[l].email, !.version = link[l].version, !.key = p]]
    BY <1>2 DEF Follow
  <2> DEFINE y == [NoRequest EXCEPT !.pc = pc,
            !.user = link[l].user, !.link = l, !.purpose = link[l].purpose,
            !.email = link[l].email, !.version = link[l].version, !.key = p]
  <2>3. /\ y \in RequestRecords /\ y.pc = pc /\ y.user = link[l].user /\ y.link = l
        /\ y.purpose = link[l].purpose /\ y.email = link[l].email
        /\ y.version = link[l].version
    BY <1>n, <2>1 DEF RequestRecords, LinkRecords, Pcs
  <2>4. req' = [req EXCEPT ![r] = y] /\ link[l].obj # "none"
    BY <1>2, <2>2 DEF Follow
  <2> HIDE DEF y
  <2>5. RequestHolds(y) /\ ~Spends(y) /\ ~Stores(y)
    BY <2>3, <2>4 DEF RequestHolds, Carries, Follows, Spends, Stores, Checked
  <2> QED BY <1>c, <2>3, <2>4, <2>5, CalmStep DEF Succeeds
<1>3. ASSUME NEW u \in Users, NEW patch \in Patches, UpdateStart(r, u, patch)
      PROVE  LinkInv'
  <2> DEFINE y == [NoRequest EXCEPT !.pc = "read", !.user = u, !.patch = patch]
  <2>1. /\ y \in RequestRecords /\ y.pc = "read" /\ y.patch = patch
        /\ y.purpose = NoRequest.purpose
    BY <1>n, ConstantsAssumption DEF RequestRecords, Pcs
  <2>2. req' = [req EXCEPT ![r] = y]
    BY <1>3 DEF UpdateStart
  <2>3. patch # "verify" /\ NoRequest.purpose = "reset"
    BY ConstantsAssumption DEF NoRequest
  <2> HIDE DEF y
  <2>4. RequestHolds(y) /\ ~Spends(y) /\ ~Stores(y)
    BY <2>1, <2>3 DEF RequestHolds, Follows, Spends, Stores, Checked
  <2> QED BY <1>c, <2>1, <2>2, <2>4, CalmStep DEF Succeeds
<1>4. ASSUME NEW u \in Users, NEW p \in Passwords, LoginStart(r, u, p)
      PROVE  LinkInv'
  <2> DEFINE y == [NoRequest EXCEPT !.pc = "role", !.user = u, !.key = p, !.st = user[u].st]
  <2>1. user[u].st \in {"active", "disabled", "deleted"}
    BY DEF TypeOK, UserRecords
  <2>2. y \in RequestRecords /\ y.pc = "role"
    BY <1>n, <2>1 DEF RequestRecords, Pcs
  <2>3. req' = [req EXCEPT ![r] = y]
    BY <1>4 DEF LoginStart
  <2> HIDE DEF y
  <2> QED BY <1>c, <2>2, <2>3, OffStep
<1>5. ASSUME NEW u \in Users, NEW p \in Passwords, AddPasswordStart(r, u, p)
      PROVE  LinkInv'
  <2> DEFINE y == [NoRequest EXCEPT !.pc = "policy", !.user = u, !.key = p, !.ok = TRUE]
  <2>1. /\ y \in RequestRecords /\ y.pc = "policy" /\ y.ok /\ y.purpose = NoRequest.purpose
    BY <1>n DEF RequestRecords, Pcs
  <2>2. req' = [req EXCEPT ![r] = y]
    BY <1>5 DEF AddPasswordStart
  <2>3. NoRequest.purpose = "reset"
    BY DEF NoRequest
  <2> HIDE DEF y
  <2>4. RequestHolds(y) /\ ~Spends(y) /\ ~Stores(y)
    BY <2>1, <2>3 DEF RequestHolds, Follows, Spends, Stores, Checked
  <2> QED BY <1>c, <2>1, <2>2, <2>4, CalmStep DEF Succeeds
<1> QED BY <1>1, <1>2, <1>3, <1>4, <1>5 DEF Start

LEMMA EnvironmentLinks ==
  ASSUME TypeOK, TypeOK', LinkInv, UsersMove, Environment
  PROVE  LinkInv'
<1>1. UNCHANGED req
  BY DEF Environment, RowExpires, ObjectExpires, Misdirected, Promote, DeleteUser, AddPasskey,
     PasskeySession, DeleteMethod, RevokeSession
<1>2. ASSUME NEW l \in Links, RowExpires(l) PROVE LinksCalm
  BY <1>2, RowClosedCalm DEF RowExpires
<1>3. ASSUME NEW l \in Links, ObjectExpires(l) \/ Misdirected(l) PROVE LinksCalm
  BY <1>3, ObjectEndsCalm DEF ObjectExpires, Misdirected
<1>4. ASSUME NEW u \in Users, DeleteUser(u) PROVE LinksCalm
  <2>1. ASSUME NEW l \in Links
        PROVE  /\ LinkKept(link'[l], link[l]) /\ link'[l].obj = link[l].obj
               /\ link[l].row # "none" => link'[l].row # "none"
    <3>1. link'[l] = link[l] \/ link'[l] = [link[l] EXCEPT !.row = "closed"]
      BY <1>4 DEF DeleteUser
    <3> QED BY <3>1 DEF TypeOK, LinkRecords, LinkKept
  <2>2. effects' = effects
    BY <1>4 DEF DeleteUser
  <2> QED BY <2>1, <2>2 DEF LinksCalm, LinksKept
<1>5. \/ \E l \in Links : RowExpires(l) \/ ObjectExpires(l) \/ Misdirected(l)
      \/ \E u \in Users : DeleteUser(u)
      \/ UNCHANGED <<link, effects>>
  BY DEF Environment, Promote, AddPasskey, PasskeySession, DeleteMethod, RevokeSession
<1> QED BY <1>1, <1>2, <1>3, <1>4, <1>5, SameLinksCalm, CalmWorld

(* updateUser returns: to nothing, or to a sign-in that spent its link.    *)
LEMMA AfterUpdateStep ==
  ASSUME TypeOK, TypeOK', LinkInv, UsersMove, LinksCalm, NEW r \in Requests,
         req[r].pc \in {"read", "write"}, AfterUpdate(r)
  PROVE  LinkInv'
<1>1. CASE Finish(r)
  BY <1>1, FinishStep
<1>2. CASE ~ Finish(r)
  <2>1. /\ req[r] \in RequestRecords /\ req[r].link \in Links /\ req[r].purpose = "magic"
    BY <1>2 DEF AfterUpdate, TypeOK, RequestRecords
  <2>2. PICK v \in Nat : v = link[req[r].link].version
    BY <2>1 DEF TypeOK, LinkRecords
  <2> DEFINE y == [req[r] EXCEPT !.pc = "apply", !.version = v]
  <2>3. req' = [req EXCEPT ![r] = y]
    BY <1>2, <2>1, <2>2 DEF AfterUpdate, TypeOK
  <2>4. /\ y \in RequestRecords /\ y.pc = "apply" /\ y.version = v /\ SameBut(y, req[r])
    BY <2>1 DEF RequestRecords, Pcs, SameBut
  <2> HIDE DEF y
  <2>5. Spends(req[r]) /\ Follows(req[r]) /\ Checked(req[r])
    BY <2>1 DEF LinkInv, RequestHolds, Spends, Follows, Checked
  <2>6. RequestHolds(req[r]) /\ Carries(req[r])
    BY <2>5 DEF LinkInv, RequestHolds
  <2>7. RequestHolds(y) /\ ~Stores(y)
    BY <2>2, <2>4, <2>5, <2>6 DEF RequestHolds, Carries, Stores, SameBut
  <2> QED BY <2>3, <2>4, <2>5, <2>7, CalmStep DEF Succeeds, SameBut
<1> QED BY <1>1, <1>2

LEMMA LinkRowLinks ==
  ASSUME TypeOK, TypeOK', LinkInv, UsersMove, NEW r \in Requests, NEW l \in Links, LinkRow(r, l)
  PROVE  LinkInv'
<1>1. CASE UNCHANGED link /\ Finish(r)
  BY <1>1, SameLinksCalm, FinishStep DEF LinkRow
<1>2. CASE ~(UNCHANGED link /\ Finish(r))
  <2>1. /\ link'[l] = [link[l] EXCEPT !.row = "open", !.purpose = req[r].purpose,
                                      !.user = req[r].user]
        /\ \A k \in Links \ {l} :
             link'[k] = link[k] \/ link'[k] = [link[k] EXCEPT !.row = "closed"]
        /\ req' = [req EXCEPT ![r].pc = "store", ![r].link = l]
        /\ effects' = effects /\ req[r].pc = "row"
    BY <1>2 DEF LinkRow
  <2>2. link[l].obj = "none" /\ link[l].row = "none"
    BY DEF LinkRow, Unused
  <2>3. link'[l].obj = "none" /\ link'[l].row = "open"
    BY <2>1, <2>2 DEF TypeOK, LinkRecords
  <2>4. ASSUME NEW k \in Links
        PROVE  /\ LinkKept(link'[k], link[k])
               /\ link[k].obj = "none" => link'[k].obj = "none"
               /\ link[k].row # "none" => link'[k].row # "none"
    <3>1. CASE k = l
      BY <2>2, <2>3, <3>1 DEF LinkKept
    <3>2. CASE k # l
      BY <2>1, <3>2 DEF TypeOK, LinkRecords, LinkKept
    <3> QED BY <3>1, <3>2
  <2>5. LinksCalm
    BY <2>1, <2>4 DEF LinksCalm, LinksKept
  <2>6. /\ LinksKept /\ \A k \in Links : LinkHolds(k)'
        /\ \A x \in RequestRecords : Undisturbed(x) /\ (RequestHolds(x) => RequestHolds(x)')
    BY <2>5, CalmKeeps
  <2>7. PICK y \in RequestRecords : y = [req[r] EXCEPT !.pc = "store", !.link = l]
    <3>1. req[r] \in RequestRecords
      BY DEF TypeOK
    <3>2. [req[r] EXCEPT !.pc = "store", !.link = l] \in RequestRecords
      BY <3>1 DEF RequestRecords, Pcs
    <3> QED BY <3>2
  <2>8. /\ req' = [req EXCEPT ![r] = y] /\ y.pc = "store" /\ y.link = l /\ y.user = req[r].user
        /\ y.version = req[r].version /\ y.user \in Users /\ y.version \in Nat
    BY <2>1, <2>7 DEF TypeOK, RequestRecords
  <2>9. y.version <= user[y.user].version
    BY <2>1, <2>8 DEF LinkInv, RequestHolds
  <2>10. y.version <= user'[y.user].version
    <3>1. user[y.user].version \in Nat /\ user'[y.user].version \in Nat
          /\ user[y.user].version <= user'[y.user].version
      BY <2>8 DEF TypeOK, UserRecords, UsersMove, Fair
    <3> QED BY <2>8, <2>9, <3>1
  <2>11. RequestHolds(y)'
    BY <2>3, <2>8, <2>10 DEF RequestHolds, Follows, Spends, Checked
  <2>12. ~Spends(y)
    BY <2>8 DEF Spends, Follows
  <2>13. \A q \in Requests \ {r} : Stores(req[q]) => req[q].link # l
    BY <2>2 DEF LinkInv, RequestHolds
  <2>14. \A q \in Requests \ {r} : Undisturbed(req[q])
    BY <2>6 DEF TypeOK
  <2> QED BY <2>6, <2>8, <2>11, <2>12, <2>13, <2>14, HandlerStep
<1> QED BY <1>1, <1>2

LEMMA LinkStoreLinks ==
  ASSUME TypeOK, TypeOK', LinkInv, UsersMove, NEW r \in Requests, NEW l \in Links,
         LinkStore(r, l)
  PROVE  LinkInv'
<1>1. /\ link' = [link EXCEPT ![l] = [link[l] EXCEPT
           !.obj = "live", !.purpose = req[r].purpose, !.user = req[r].user,
           !.email = req[r].email, !.version = req[r].version,
           !.to = MailedTo(r)]]
      /\ effects' = effects /\ Finish(r) /\ req[r].pc = "store"
      /\ IF req[r].purpose = "magic" THEN Unused(l) ELSE l = req[r].link
  BY DEF LinkStore
<1>2. RequestHolds(req[r])
  BY DEF LinkInv
<1>3. link[l].obj = "none"
  BY <1>1, <1>2 DEF Unused, RequestHolds, Stores
<1>4. /\ link'[l].obj = "live" /\ link'[l].user = req[r].user /\ link'[l].version = req[r].version
      /\ link'[l].purpose # "magic" => link'[l].to = link'[l].email
      /\ \A k \in Links \ {l} : link'[k] = link[k]
  BY <1>1 DEF TypeOK, LinkRecords, MailedTo
<1>5. LinksKept
  BY <1>3, <1>4 DEF LinksKept, LinkKept
<1>6. ASSUME NEW q \in Requests \ {r} PROVE Undisturbed(req[q])
  <2>1. req[q].link \in Links
    BY DEF TypeOK, RequestRecords
  <2>2. ASSUME Stores(req[q]) PROVE req[q].link # l
    <3>1. CASE req[r].purpose = "magic"
      <4>1. link[l].row = "none"
        BY <1>1, <3>1 DEF Unused
      <4>2. link[req[q].link].row # "none"
        BY <2>2 DEF LinkInv, RequestHolds
      <4> QED BY <4>1, <4>2
    <3>2. CASE req[r].purpose # "magic"
      <4>1. Stores(req[r]) /\ l = req[r].link
        BY <1>1, <3>2 DEF Stores
      <4> QED BY <2>2, <4>1 DEF LinkInv, OneStores
    <3> QED BY <3>1, <3>2
  <2> QED BY <1>1, <1>4, <2>1, <2>2 DEF Undisturbed
<1>7. ASSUME NEW k \in Links PROVE LinkHolds(k)'
  <2>1. CASE k = l
    <3>1. PICK u \in Users : u = req[r].user
      BY DEF TypeOK, RequestRecords
    <3>2. req[r].version <= user[u].version
      BY <1>1, <1>2, <3>1 DEF RequestHolds
    <3>3. /\ user[u].version \in Nat /\ user'[u].version \in Nat /\ req[r].version \in Nat
          /\ user[u].version <= user'[u].version
      BY DEF TypeOK, UserRecords, RequestRecords, UsersMove, Fair
    <3>4. req[r].version <= user'[u].version
      BY <3>2, <3>3
    <3>5. effects[l] = 0
      BY <1>3 DEF LinkInv, LinkHolds
    <3> QED BY <1>1, <1>4, <2>1, <3>1, <3>4, <3>5 DEF LinkHolds
  <2>2. CASE k # l
    <3>1. LinkHolds(k) /\ link'[k] = link[k] /\ effects'[k] = effects[k]
      BY <1>1, <1>4, <2>2 DEF LinkInv
    <3>2. link[k].obj # "none" \/ link'[k].obj = "none"
      BY <3>1
    <3> QED BY <1>5, <3>1, <3>2, LinkStays
  <2> QED BY <2>1, <2>2
<1>8. NoRequest \in RequestRecords /\ NoRequest.pc = "idle"
  BY NoRequestType DEF NoRequest
<1>9. RequestHolds(NoRequest)' /\ ~Spends(NoRequest) /\ ~Stores(NoRequest)
  BY <1>8 DEF RequestHolds, Spends, Stores, Follows, Checked
<1> QED BY <1>1, <1>5, <1>6, <1>7, <1>8, <1>9, HandlerStep DEF Finish

LEMMA TakeObjectLinks ==
  ASSUME TypeOK, TypeOK', LinkInv, UsersMove, NEW r \in Requests, TakeObject(r)
  PROVE  LinkInv'
<1>1. CASE UNCHANGED link /\ Finish(r)
  BY <1>1, SameLinksCalm, FinishStep DEF TakeObject
<1>2. CASE ~(UNCHANGED link /\ Finish(r))
  <2>1. PICK l \in Links : l = req[r].link
    BY DEF TypeOK, RequestRecords
  <2>2. PICK pc \in {"current", "takerow"} : Goto(r, pc)
    BY <1>2 DEF TakeObject
  <2>3. /\ link[l].obj = "live" /\ link' = [link EXCEPT ![l].obj = "spent"]
        /\ effects' = effects /\ req[r].pc = "object"
    BY <1>2, <2>1 DEF TakeObject, Spent
  <2>4. LinksCalm /\ link'[l].obj = "spent"
    BY <2>3, ObjectEndsCalm
  <2>5. /\ LinksKept /\ \A k \in Links : LinkHolds(k)'
        /\ \A x \in RequestRecords : Undisturbed(x) /\ (RequestHolds(x) => RequestHolds(x)')
    BY <2>4, CalmKeeps
  <2>6. PICK y \in RequestRecords :
           /\ req' = [req EXCEPT ![r] = y] /\ y.pc = pc /\ SameBut(y, req[r])
           /\ y.version = req[r].version /\ y.patch = req[r].patch
    BY <2>2, GotoFields DEF Pcs
  <2>7. Carries(req[r]) /\ effects[l] = 0
    BY <2>3 DEF LinkInv, RequestHolds, Follows, LinkHolds
  <2>8. Carries(y) /\ y.link = l
    BY <2>1, <2>3, <2>6, <2>7 DEF Carries, SameBut
  <2>9. Carries(y)'
    BY <2>5, <2>8 DEF Carries, LinksKept, LinkKept
  <2>10. RequestHolds(y)'
    BY <2>3, <2>4, <2>6, <2>7, <2>8, <2>9 DEF RequestHolds, Checked, Stores, Spends, Follows
  <2>11. \A q \in Requests \ {r} : Spends(req[q]) => req[q].link # l
    BY <2>3 DEF LinkInv, RequestHolds
  <2>12. ~Stores(y)
    BY <2>6 DEF Stores
  <2>13. \A q \in Requests \ {r} : Undisturbed(req[q])
    BY <2>5 DEF TypeOK
  <2> QED BY <2>5, <2>6, <2>8, <2>10, <2>11, <2>12, <2>13, HandlerStep
<1> QED BY <1>1, <1>2

LEMMA CheckOwnerLinks ==
  ASSUME TypeOK, TypeOK', LinkInv, UsersMove, NEW r \in Requests, CheckOwner(r)
  PROVE  LinkInv'
<1>c. LinksCalm
  BY SameLinksCalm DEF CheckOwner
<1>1. CASE Finish(r)
  BY <1>1, <1>c, FinishStep
<1>2. CASE ~ Finish(r)
  <2>1. Owner(r) /\ req[r].pc = "owner"
    BY <1>2 DEF CheckOwner
  <2>2. PICK pc \in {"policy", "apply", "read"} :
          req' = [req EXCEPT ![r].patch = "verify", ![r].pc = pc]
    BY <1>2 DEF CheckOwner
  <2> DEFINE y == [req[r] EXCEPT !.patch = "verify", !.pc = pc]
  <2>3. req[r] \in RequestRecords
    BY DEF TypeOK
  <2>4. req' = [req EXCEPT ![r] = y]
    BY <2>2, <2>3 DEF TypeOK
  <2>5. /\ y \in RequestRecords /\ y.pc = pc /\ y.patch = "verify" /\ SameBut(y, req[r])
        /\ y.version = req[r].version
    BY <2>3 DEF RequestRecords, Pcs, AllPatches, SameBut
  <2> HIDE DEF y
  <2>6. Spends(req[r]) /\ Follows(req[r])
    BY <2>1 DEF Spends, Follows
  <2>7. RequestHolds(req[r]) /\ Carries(req[r])
    BY <2>6 DEF LinkInv, RequestHolds
  <2>8. req[r].purpose # "change" => user[req[r].user].email = req[r].email
    BY <2>1 DEF Owner
  <2>9. RequestHolds(y) /\ ~Stores(y)
    BY <2>1, <2>5, <2>6, <2>7, <2>8 DEF RequestHolds, Carries, Stores, SameBut, Checked
  <2> QED BY <1>c, <2>4, <2>5, <2>6, <2>9, CalmStep DEF Succeeds, SameBut
<1> QED BY <1>1, <1>2

LEMMA PolicyLinks ==
  ASSUME TypeOK, TypeOK', LinkInv, UsersMove, NEW r \in Requests, Policy(r)
  PROVE  LinkInv'
<1>c. LinksCalm
  BY SameLinksCalm DEF Policy
<1>1. CASE Finish(r)
  BY <1>1, <1>c, FinishStep
<1>2. CASE Goto(r, "apply")
  <2>1. PICK y \in RequestRecords :
           /\ req' = [req EXCEPT ![r] = y] /\ y.pc = "apply" /\ SameBut(y, req[r])
           /\ y.version = req[r].version /\ y.patch = req[r].patch
    BY <1>2, GotoFields DEF Pcs
  <2>2. req[r].pc = "policy" /\ RequestHolds(req[r])
    BY DEF Policy, LinkInv
  <2>3. (Spends(y) <=> Spends(req[r])) /\ (Follows(y) <=> Follows(req[r]))
    BY <2>1, <2>2 DEF Spends, Follows, SameBut
  <2>4. (Checked(y) <=> Checked(req[r])) /\ ~Stores(y)
    BY <2>1, <2>2, <2>3 DEF Checked, Stores, SameBut
  <2>5. RequestHolds(y)
    BY <2>1, <2>2, <2>3, <2>4 DEF RequestHolds, Carries, SameBut
  <2> QED BY <1>c, <2>1, <2>3, <2>4, <2>5, CalmStep DEF Succeeds, SameBut
<1> QED BY <1>1, <1>2 DEF Policy

LEMMA UpdateReadLinks ==
  ASSUME TypeOK, TypeOK', LinkInv, UsersMove, NEW r \in Requests, UpdateRead(r)
  PROVE  LinkInv'
<1>c. LinksCalm /\ req[r].pc = "read"
  BY SameLinksCalm DEF UpdateRead
<1>1. CASE AfterUpdate(r)
  BY <1>1, <1>c, AfterUpdateStep
<1>2. CASE ~ AfterUpdate(r)
  <2>1. PICK u \in Users : u = req[r].user
    BY DEF TypeOK, RequestRecords
  <2> DEFINE y == [req[r] EXCEPT !.pc = "write", !.ok = user[u].verified,
                                 !.st = user[u].st, !.version = user[u].version]
  <2>2. req[r] \in RequestRecords /\ user[u] \in UserRecords
    BY DEF TypeOK
  <2>3. req' = [req EXCEPT ![r] = y]
    BY <1>2, <2>1, <2>2 DEF UpdateRead, TypeOK
  <2>4. /\ y \in RequestRecords /\ y.pc = "write" /\ y.patch = req[r].patch
        /\ y.link = req[r].link /\ y.user = req[r].user /\ y.purpose = req[r].purpose
        /\ y.email = req[r].email
    BY <2>2 DEF RequestRecords, UserRecords, Pcs
  <2> HIDE DEF y
  <2>5. RequestHolds(req[r])
    BY DEF LinkInv
  <2>6. (Spends(y) <=> Spends(req[r])) /\ (Follows(y) <=> Follows(req[r]))
    BY <1>c, <2>4 DEF Spends, Follows
  <2>7. (Checked(y) <=> Checked(req[r])) /\ ~Stores(y)
    BY <1>c, <2>4, <2>6 DEF Checked, Stores
  <2>8. RequestHolds(y)
    BY <1>c, <2>4, <2>5, <2>6, <2>7 DEF RequestHolds, Carries
  <2> QED BY <1>c, <2>3, <2>4, <2>6, <2>7, <2>8, CalmStep DEF Succeeds
<1> QED BY <1>1, <1>2

LEMMA UpdateWriteLinks ==
  ASSUME TypeOK, TypeOK', LinkInv, UsersMove, NEW r \in Requests, UpdateWrite(r)
  PROVE  LinkInv'
<1>1. req[r].pc = "write" /\ AfterUpdate(r) /\ UNCHANGED link
  BY DEF UpdateWrite
<1>2. CASE UNCHANGED effects
  BY <1>1, <1>2, SameLinksCalm, AfterUpdateStep
<1>3. CASE ~ UNCHANGED effects
  <2>1. /\ effects' = [effects EXCEPT ![req[r].link] = @ + 1]
        /\ req[r].patch = "verify" /\ req[r].purpose = "verify"
    BY <1>3 DEF UpdateWrite
  <2>2. Spends(req[r]) /\ Finish(r)
    BY <1>1, <2>1 DEF Spends, Follows, AfterUpdate
  <2> QED BY <1>1, <2>1, <2>2, EffectStep
<1> QED BY <1>2, <1>3

LEMMA ContinueLinks ==
  ASSUME TypeOK, TypeOK', LinkInv, UsersMove, NEW r \in Requests, Continue(r)
  PROVE  LinkInv'
<1>q. req[r] \in RequestRecords /\ req[r].user \in Users /\ RequestHolds(req[r])
  BY DEF TypeOK, RequestRecords, LinkInv
<1>u. user[req[r].user] \in UserRecords
  BY <1>q DEF TypeOK
<1>1. CASE LinkVersion(r)
  <2>c. LinksCalm
    BY <1>1, SameLinksCalm DEF LinkVersion
  <2>1. CASE Finish(r)
    BY <2>1, <2>c, FinishStep
  <2>2. CASE ~ Finish(r)
    <3>1. PICK pc \in {"store", "row"} :
            /\ pc = IF req[r].purpose = "magic" THEN "store" ELSE "row"
            /\ req' = [req EXCEPT ![r].version = user[req[r].user].version, ![r].pc = pc]
      BY <1>1, <2>2 DEF LinkVersion
    <3> DEFINE y == [req[r] EXCEPT !.version = user[req[r].user].version, !.pc = pc]
    <3>2. req' = [req EXCEPT ![r] = y]
      BY <1>q, <3>1 DEF TypeOK
    <3>3. /\ y \in RequestRecords /\ y.pc = pc /\ y.user = req[r].user
          /\ y.purpose = req[r].purpose /\ y.version = user[y.user].version
          /\ user[y.user].version \in Nat
      BY <1>q, <1>u DEF RequestRecords, UserRecords, Pcs
    <3> HIDE DEF y
    <3>4. ~Stores(y) /\ ~Spends(y) /\ ~Follows(y) /\ ~Checked(y)
      BY <3>1, <3>3 DEF Stores, Spends, Follows, Checked
    <3>5. RequestHolds(y)
      BY <3>3, <3>4 DEF RequestHolds
    <3> QED BY <2>c, <3>2, <3>3, <3>4, <3>5, CalmStep DEF Succeeds
  <2> QED BY <2>1, <2>2
<1>2. ASSUME NEW l \in Links, LinkRow(r, l) \/ LinkStore(r, l) PROVE LinkInv'
  BY <1>2, LinkRowLinks, LinkStoreLinks
<1>3. CASE ResetPeek(r) \/ ResetPending(r)
  <2>c. LinksCalm
    BY <1>3, SameLinksCalm DEF ResetPeek, ResetPending
  <2>1. \/ Finish(r)
        \/ /\ Goto(r, "pending") \/ Goto(r, "object")
           /\ req[r].pc \in {"peek", "pending"}
    BY <1>3 DEF ResetPeek, ResetPending
  <2> QED BY <2>c, <2>1, FinishStep, FollowOn
<1>4. CASE TakeObject(r)
  BY <1>4, TakeObjectLinks
<1>5. CASE TakeRow(r)
  <2>1. PICK l \in Links : l = req[r].link
    BY DEF TypeOK, RequestRecords
  <2>2. LinksCalm
    BY <1>5, <2>1, RowClosedCalm, SameLinksCalm DEF TakeRow
  <2>3. Finish(r) \/ (Goto(r, "owner") /\ req[r].pc \in {"takerow", "current"})
    BY <1>5 DEF TakeRow
  <2> QED BY <2>2, <2>3, FinishStep, SpendOn
<1>6. CASE MagicCurrent(r)
  <2>2. LinksCalm
    BY <1>6, SameLinksCalm DEF MagicCurrent
  <2>3. Finish(r) \/ (Goto(r, "owner") /\ req[r].pc \in {"takerow", "current"})
    BY <1>6 DEF MagicCurrent
  <2> QED BY <2>2, <2>3, FinishStep, SpendOn
<1>7. CASE CheckOwner(r)
  BY <1>7, CheckOwnerLinks
<1>8. CASE Policy(r)
  BY <1>8, PolicyLinks
<1>9. ASSUME SetPassword(r) \/ ChangeEmail(r) \/ \E s \in Sessions : MagicSession(r, s)
      PROVE  LinkInv'
  <2>1. /\ Finish(r) /\ UNCHANGED link
        /\ UNCHANGED effects \/ effects' = [effects EXCEPT ![req[r].link] = @ + 1]
    BY <1>9 DEF SetPassword, ChangeEmail, MagicSession
  <2>2. Spends(req[r])
    BY <1>9 DEF SetPassword, ChangeEmail, MagicSession, Spends, Follows
  <2> QED BY <2>1, <2>2, EffectStep, FinishStep, SameLinksCalm
<1>10. ASSUME AddPassword(r) \/ \E s \in Sessions : OpenSession(r, s) PROVE LinkInv'
  <2>1. Finish(r) /\ UNCHANGED <<link, effects>>
    BY <1>10 DEF AddPassword, OpenSession
  <2> QED BY <2>1, FinishStep, SameLinksCalm
<1>11. CASE UpdateRead(r)
  BY <1>11, UpdateReadLinks
<1>12. CASE UpdateWrite(r)
  BY <1>12, UpdateWriteLinks
<1>13. CASE LoginRole(r)
  <2>c. LinksCalm
    BY <1>13, SameLinksCalm DEF LoginRole
  <2> DEFINE y == [req[r] EXCEPT !.pc = "rows", !.ok = user[req[r].user].admin]
  <2>1. req' = [req EXCEPT ![r] = y]
    BY <1>13, <1>q DEF LoginRole, TypeOK
  <2>2. y \in RequestRecords /\ y.pc = "rows"
    BY <1>q, <1>u DEF RequestRecords, UserRecords, Pcs
  <2> HIDE DEF y
  <2> QED BY <2>c, <2>1, <2>2, OffStep
<1>14. CASE LoginRows(r)
  <2>c. LinksCalm
    BY <1>14, SameLinksCalm DEF LoginRows
  <2>1. CASE Finish(r)
    BY <2>1, <2>c, FinishStep
  <2>2. CASE Goto(r, "session")
    <3>1. PICK y \in RequestRecords : req' = [req EXCEPT ![r] = y] /\ y.pc = "session"
      BY <2>2, GotoFields DEF Pcs
    <3> QED BY <2>c, <3>1, OffStep
  <2> QED BY <1>14, <2>1, <2>2 DEF LoginRows
<1>15. CASE MagicAccount(r)
  <2>c. LinksCalm
    BY <1>15, SameLinksCalm DEF MagicAccount
  <2>1. CASE Finish(r)
    BY <2>1, <2>c, FinishStep
  <2>2. CASE ~ Finish(r)
    <3> DEFINE y == [req[r] EXCEPT !.pc = "version", !.email = user[req[r].user].email]
    <3>1. req' = [req EXCEPT ![r] = y]
      BY <1>15, <1>q, <2>2 DEF MagicAccount, TypeOK
    <3>2. y \in RequestRecords /\ y.pc = "version"
      BY <1>q, <1>u DEF RequestRecords, UserRecords, Pcs
    <3> HIDE DEF y
    <3> QED BY <2>c, <3>1, <3>2, OffStep
  <2> QED BY <2>1, <2>2
<1> QED BY <1>1, <1>2, <1>3, <1>4, <1>5, <1>6, <1>7, <1>8, <1>9, <1>10, <1>11, <1>12, <1>13,
           <1>14, <1>15 DEF Continue

LEMMA InitLinks == Init => LinkInv
<1> SUFFICES ASSUME Init PROVE LinkInv
  OBVIOUS
<1>1. \A r \in Requests : req[r] = NoRequest
  BY DEF Init
<1>2. NoRequest.pc = "idle"
  BY DEF NoRequest
<1>3. \A r \in Requests : RequestHolds(req[r]) /\ ~Spends(req[r]) /\ ~Stores(req[r])
  BY <1>1, <1>2, OffHolds
<1>4. \A l \in Links : link[l].obj = "none" /\ effects[l] = 0
  BY DEF Init
<1> QED BY <1>3, <1>4 DEF LinkInv, LinkHolds, OneSpends, OneStores

LEMMA StepLinks ==
  ASSUME TypeOK, LinkInv, [Next]_vars
  PROVE  LinkInv'
<1>1. TypeOK' /\ UsersMove
  BY StepTyped, UserStep
<1>2. ASSUME NEW r \in Requests, Crash(r) PROVE LinkInv'
  <2>1. Finish(r) /\ UNCHANGED <<link, effects>>
    BY <1>2 DEF Crash
  <2> QED BY <1>1, <2>1, FinishStep, SameLinksCalm
<1>3. CASE UNCHANGED vars
  <2>1. UNCHANGED <<link, effects>> /\ UNCHANGED req
    BY <1>3 DEF vars
  <2> QED BY <1>1, <2>1, SameLinksCalm, CalmWorld
<1> QED BY <1>1, <1>2, <1>3, StartLinks, ContinueLinks, EnvironmentLinks DEF Next

(* A handler that follows a link carries what the link says and is the only *)
(* one to have spent it; the address it compared stays right for as long as *)
(* the account keeps the link's security version.                           *)
THEOREM LinkInvariant == Spec => []LinkInv
BY InitLinks, StepLinks, AccountsTyped, PTL DEF Spec

(* A link has its effect in four places, each with the link spent.         *)
LEMMA TakingEffect ==
  ASSUME TypeOK, [Next]_vars, ~ UNCHANGED effects
  PROVE  \E r \in Requests :
           /\ Spends(req[r]) /\ UNCHANGED link
           /\ effects' = [effects EXCEPT ![req[r].link] = @ + 1]
           /\ \/ req[r].pc = "write" /\ req[r].purpose = "verify"
              \/ req[r].pc = "apply" /\ user[req[r].user].version = req[r].version
<1>1. PICK r \in Requests : SetPassword(r) \/ ChangeEmail(r) \/ UpdateWrite(r)
                            \/ \E s \in Sessions : MagicSession(r, s)
  <2>1. ASSUME NEW r \in Requests, Start(r) \/ Crash(r) PROVE UNCHANGED effects
    BY <2>1 DEF Start, Crash, AskLink, Follow, UpdateStart, LoginStart, AddPasswordStart
  <2>2. ASSUME Environment PROVE UNCHANGED effects
    BY <2>2 DEF Environment, RowExpires, ObjectExpires, Misdirected, Promote, DeleteUser,
       AddPasskey, PasskeySession, DeleteMethod, RevokeSession
  <2>3. ASSUME NEW r \in Requests, Continue(r)
        PROVE  \/ UNCHANGED effects \/ SetPassword(r) \/ ChangeEmail(r) \/ UpdateWrite(r)
               \/ \E s \in Sessions : MagicSession(r, s)
    BY <2>3 DEF Continue, MagicAccount, LinkVersion, LinkRow, LinkStore, ResetPeek, ResetPending, TakeObject,
       TakeRow, MagicCurrent, CheckOwner, Policy, AddPassword, OpenSession, UpdateRead,
       LoginRole, LoginRows
  <2> QED BY <2>1, <2>2, <2>3 DEF Next, vars
<1>2. CASE UpdateWrite(r)
  <2>1. /\ effects' = [effects EXCEPT ![req[r].link] = @ + 1] /\ UNCHANGED link
        /\ req[r].patch = "verify" /\ req[r].purpose = "verify" /\ req[r].pc = "write"
    BY <1>2 DEF UpdateWrite
  <2>2. Spends(req[r])
    BY <2>1 DEF Spends, Follows
  <2> QED BY <2>1, <2>2
<1>3. ASSUME SetPassword(r) \/ ChangeEmail(r) \/ \E s \in Sessions : MagicSession(r, s)
      PROVE  /\ Spends(req[r]) /\ UNCHANGED link
             /\ effects' = [effects EXCEPT ![req[r].link] = @ + 1]
             /\ req[r].pc = "apply" /\ user[req[r].user].version = req[r].version
  <2>1. Spends(req[r]) /\ req[r].pc = "apply"
    BY <1>3 DEF SetPassword, ChangeEmail, MagicSession, Spends, Follows
  <2>2. /\ UNCHANGED link /\ effects' = [effects EXCEPT ![req[r].link] = @ + 1]
        /\ OfThisVersion(r)
    BY <1>3 DEF SetPassword, ChangeEmail, MagicSession
  <2> QED BY <2>1, <2>2 DEF OfThisVersion
<1> QED BY <1>1, <1>2, <1>3

(* A link that sets a password, changes the address or opens a session was  *)
(* issued for the security version the account still has and is bound to    *)
(* the address it still has, although the handlers read both awaits before  *)
(* they write; one that sets a password was mailed to that address.  (A      *)
(* sign-in link is mailed to the address typed, which is read before the    *)
(* one it is bound to: nothing is claimed of where it went.)                *)
THEOREM CurrentLinks == Spec => LinksAreCurrent
<1>1. TypeOK /\ LinkInv /\ [Next]_vars =>
        [\A l \in Links :
           TakesEffect(l) /\ link[l].purpose # "verify" =>
             LET u == link[l].user IN
             /\ link[l].version = user[u].version
             /\ link[l].purpose # "change" => link[l].email = user[u].email
             /\ link[l].purpose \in {"reset", "invite"} => link[l].to = user[u].email]_vars
  <2> SUFFICES ASSUME TypeOK, LinkInv, [Next]_vars,
                      NEW l \in Links, effects'[l] # effects[l], link[l].purpose # "verify"
               PROVE  /\ link[l].version = user[link[l].user].version
                      /\ link[l].purpose # "change" =>
                           link[l].email = user[link[l].user].email
                      /\ link[l].purpose \in {"reset", "invite"} =>
                           link[l].to = user[link[l].user].email
    BY DEF TakesEffect
  <2>1. PICK r \in Requests :
           /\ Spends(req[r]) /\ effects' = [effects EXCEPT ![req[r].link] = @ + 1]
           /\ \/ req[r].pc = "write" /\ req[r].purpose = "verify"
              \/ req[r].pc = "apply" /\ user[req[r].user].version = req[r].version
    BY TakingEffect
  <2>2. req[r].link = l
    BY <2>1 DEF TypeOK
  <2>3. RequestHolds(req[r]) /\ Carries(req[r]) /\ Follows(req[r])
    BY <2>1 DEF LinkInv, RequestHolds, Spends
  <2>4. req[r].pc = "apply" /\ user[req[r].user].version = req[r].version
    BY <2>1, <2>2, <2>3 DEF Carries
  <2>5. link[l].version = user[link[l].user].version
    BY <2>2, <2>3, <2>4 DEF Carries
  <2>6. ASSUME link[l].purpose # "change" PROVE link[l].email = user[link[l].user].email
    <3>1. Checked(req[r])
      BY <2>2, <2>3, <2>4, <2>6 DEF Checked, Carries
    <3> QED BY <2>2, <2>3, <2>5, <3>1 DEF RequestHolds, Carries
  <2>7. link[l].purpose \in {"reset", "invite"} => link[l].to = link[l].email
    BY <2>2, <2>3 DEF LinkInv, LinkHolds, Carries
  <2> QED BY <2>5, <2>6, <2>7
<1> QED BY <1>1, AccountsTyped, LinkInvariant, PTL DEF Spec, LinksAreCurrent

-----------------------------------------------------------------------------
(* Ways in.  A handler about to set a password checked it against the role, *)
(* which the account has for as long as it has the version.                 *)

Worthy(x) ==
  /\ x.key # None => x.purpose \in {"reset", "invite"}
  /\ x.pc = "apply" /\ x.key # None /\ ~x.ok /\ x.version = user[x.user].version =>
       (user[x.user].admin => x.key \in Strong)
WorthyInv == \A r \in Requests : Worthy(req[r])

LEMMA WorthyStays ==
  ASSUME TypeOK, TypeOK', LinkInv, UsersMove, NEW x \in RequestRecords, RequestHolds(x), Worthy(x)
  PROVE  Worthy(x)'
<1> SUFFICES ASSUME x.pc = "apply", x.key # None, ~x.ok, x.version = user'[x.user].version,
                    user'[x.user].admin
             PROVE  x.key \in Strong
  BY DEF Worthy
<1>1. PICK u \in Users : u = x.user
  BY DEF RequestRecords
<1>2. Carries(x) /\ x.link \in Links
  BY DEF RequestHolds, Follows, RequestRecords
<1>3. x.version <= user[u].version
  BY <1>1, <1>2 DEF Carries, LinkInv, LinkHolds
<1>4. /\ user[u].version <= user'[u].version
      /\ user[u].admin \/ user[u].version < user'[u].version
  BY <1>1 DEF UsersMove, Fair
<1>5. user[u].version \in Nat /\ user'[u].version \in Nat
  BY DEF TypeOK, UserRecords
<1>6. x.version = user[u].version /\ user[u].admin
  BY <1>1, <1>3, <1>4, <1>5
<1> QED BY <1>1, <1>6 DEF Worthy

(* What the handler that steps becomes.                                    *)
LEMMA WorthyStart ==
  ASSUME TypeOK, NEW r \in Requests, Start(r)
  PROVE  Worthy(req[r])'
<1>n. NoRequest \in RequestRecords /\ NoRequest.key = None /\ NoRequest.purpose = "reset"
  BY NoRequestType DEF NoRequest
<1>1. ASSUME NEW u \in Users, NEW purpose \in Purposes, NEW e \in Emails,
             AskLink(r, u, purpose, e)
      PROVE  req'[r].key = None
  BY <1>1, <1>n DEF AskLink, TypeOK, RequestRecords
<1>2. ASSUME NEW l \in Links, NEW p \in Passwords \cup {None}, Follow(r, l, p)
      PROVE  Worthy(req[r])'
  <2>1. /\ req'[r].pc \in {"object", "peek"} /\ req'[r].key = p
        /\ req'[r].purpose = link[l].purpose
    BY <1>2, <1>n DEF Follow, TypeOK, RequestRecords
  <2> QED BY <1>2, <2>1 DEF Follow, Worthy
<1>3. ASSUME NEW u \in Users, NEW patch \in Patches, UpdateStart(r, u, patch)
      PROVE  req'[r].key = None
  BY <1>3, <1>n DEF UpdateStart, TypeOK, RequestRecords
<1>4. ASSUME NEW u \in Users, NEW p \in Passwords, LoginStart(r, u, p) \/ AddPasswordStart(r, u, p)
      PROVE  req'[r].purpose = "reset" /\ req'[r].pc \in {"role", "policy"}
  <2>1. req'[r] = [NoRequest EXCEPT !.pc = "role", !.user = u, !.key = p, !.st = user[u].st]
        \/ req'[r] = [NoRequest EXCEPT !.pc = "policy", !.user = u, !.key = p, !.ok = TRUE]
    BY <1>4 DEF LoginStart, AddPasswordStart, TypeOK
  <2> QED BY <1>n, <2>1 DEF RequestRecords
<1> QED BY <1>1, <1>2, <1>3, <1>4 DEF Start, Worthy

LEMMA WorthyContinue ==
  ASSUME TypeOK, NEW r \in Requests, Worthy(req[r]), Continue(r)
  PROVE  Worthy(req[r])'
<1>q. req \in [Requests -> RequestRecords] /\ req[r] \in RequestRecords
  BY DEF TypeOK
<1>f. ASSUME Finish(r) PROVE Worthy(req[r])'
  <2>1. req'[r].key = None
    BY <1>f, <1>q DEF Finish, NoRequest
  <2> QED BY <2>1 DEF Worthy
<1>k. ASSUME req'[r].key = req[r].key, req'[r].purpose = req[r].purpose,
             req'[r].pc # "apply" \/ req[r].purpose \notin {"reset", "invite"}
      PROVE  Worthy(req[r])'
  BY <1>k DEF Worthy
<1>g. ASSUME NEW pc \in Pcs, Goto(r, pc)
      PROVE  req'[r].key = req[r].key /\ req'[r].purpose = req[r].purpose /\ req'[r].pc = pc
  BY <1>g, <1>q DEF Goto, RequestRecords
<1>a. ASSUME AfterUpdate(r) PROVE Worthy(req[r])'
  <2>1. CASE ~ Finish(r)
    <3>1. /\ req[r].purpose = "magic" /\ req'[r].key = req[r].key
          /\ req'[r].purpose = req[r].purpose
      BY <1>a, <1>q, <2>1 DEF AfterUpdate, RequestRecords
    <3> QED BY <1>k, <3>1
  <2> QED BY <1>f, <2>1
<1>1. CASE MagicAccount(r) \/ LinkVersion(r) \/ LoginRole(r) \/ (\E l \in Links : LinkRow(r, l))
  <2>1. CASE ~ Finish(r) /\ MagicAccount(r)
    <3>1. req'[r] = [req[r] EXCEPT !.pc = "version", !.email = user[req[r].user].email]
      BY <1>q, <2>1 DEF MagicAccount
    <3> QED BY <1>q, <1>k, <3>1 DEF RequestRecords
  <2>2. CASE ~ Finish(r) /\ LinkVersion(r)
    <3>1. PICK pc \in {"store", "row"} :
            req'[r] = [req[r] EXCEPT !.version = user[req[r].user].version, !.pc = pc]
      BY <1>q, <2>2 DEF LinkVersion
    <3> QED BY <1>q, <1>k, <3>1 DEF RequestRecords
  <2>3. CASE LoginRole(r)
    <3>1. req'[r] = [req[r] EXCEPT !.pc = "rows", !.ok = user[req[r].user].admin]
      BY <1>q, <2>3 DEF LoginRole
    <3> QED BY <1>q, <1>k, <3>1 DEF RequestRecords
  <2>4. ASSUME NEW l \in Links, LinkRow(r, l), ~ Finish(r) PROVE Worthy(req[r])'
    <3>1. req'[r] = [req[r] EXCEPT !.pc = "store", !.link = l]
      BY <1>q, <2>4 DEF LinkRow
    <3> QED BY <1>q, <1>k, <3>1 DEF RequestRecords
  <2> QED BY <1>1, <1>f, <2>1, <2>2, <2>3, <2>4
<1>2. CASE ResetPeek(r) \/ ResetPending(r) \/ TakeObject(r) \/ TakeRow(r) \/ MagicCurrent(r)
           \/ LoginRows(r)
  <2>1. CASE ~ Finish(r)
    <3>1. PICK pc \in Pcs \ {"apply"} : Goto(r, pc)
      BY <1>2, <2>1 DEF ResetPeek, ResetPending, TakeObject, TakeRow, MagicCurrent, LoginRows, Pcs
    <3> QED BY <1>g, <1>k, <3>1
  <2> QED BY <1>f, <2>1
<1>3. CASE CheckOwner(r)
  <2>1. CASE ~ Finish(r)
    <3>1. /\ req'[r].key = req[r].key /\ req'[r].purpose = req[r].purpose
          /\ req'[r].pc # "apply" \/ req[r].purpose \notin {"reset", "invite"}
      BY <1>3, <1>q, <2>1 DEF CheckOwner, RequestRecords
    <3> QED BY <1>k, <3>1
  <2> QED BY <1>f, <2>1
<1>4. CASE Policy(r)
  <2>1. CASE ~ Finish(r)
    <3>1. Goto(r, "apply") /\ Acceptable(r) /\ UNCHANGED user
      BY <1>4, <2>1 DEF Policy
    <3>2. /\ req'[r].key = req[r].key /\ req'[r].purpose = req[r].purpose
          /\ req'[r].user = req[r].user
      BY <1>q, <3>1 DEF Goto, RequestRecords
    <3> QED BY <3>1, <3>2 DEF Worthy, Acceptable
  <2> QED BY <1>f, <2>1
<1>5. CASE UpdateRead(r)
  <2>1. CASE ~ AfterUpdate(r)
    <3>1. /\ req'[r].pc = "write" /\ req'[r].key = req[r].key
          /\ req'[r].purpose = req[r].purpose
      BY <1>5, <1>q, <2>1 DEF UpdateRead, RequestRecords
    <3> QED BY <1>k, <3>1
  <2> QED BY <1>a, <2>1
<1>6. CASE UpdateWrite(r)
  BY <1>6, <1>a DEF UpdateWrite
<1>7. CASE SetPassword(r) \/ ChangeEmail(r) \/ AddPassword(r)
           \/ (\E s \in Sessions : MagicSession(r, s) \/ OpenSession(r, s))
           \/ (\E l \in Links : LinkStore(r, l))
  BY <1>7, <1>f DEF SetPassword, ChangeEmail, AddPassword, MagicSession, OpenSession, LinkStore
<1> QED BY <1>1, <1>2, <1>3, <1>4, <1>5, <1>6, <1>7 DEF Continue

(* A step belongs to one handler or to none.                               *)
LEMMA OthersWait ==
  ASSUME TypeOK, NEW r \in Requests, Start(r) \/ Continue(r) \/ Crash(r)
  PROVE  \A q \in Requests \ {r} : req'[q] = req[q]
<1>1. ASSUME Start(r) PROVE \A q \in Requests \ {r} : req'[q] = req[q]
  BY <1>1 DEF Start, AskLink, Follow, UpdateStart, LoginStart, AddPasswordStart, TypeOK
<1>f. ASSUME Finish(r) PROVE \A q \in Requests \ {r} : req'[q] = req[q]
  BY <1>f DEF Finish, TypeOK
<1>g. ASSUME NEW pc, Goto(r, pc) PROVE \A q \in Requests \ {r} : req'[q] = req[q]
  BY <1>g DEF Goto, TypeOK
<1>a. ASSUME AfterUpdate(r) PROVE \A q \in Requests \ {r} : req'[q] = req[q]
  BY <1>a, <1>f DEF AfterUpdate, TypeOK
<1>2. ASSUME ResetPeek(r) \/ ResetPending(r) \/ TakeObject(r) \/ TakeRow(r) \/ MagicCurrent(r)
             \/ LoginRows(r) \/ Policy(r) \/ SetPassword(r) \/ ChangeEmail(r) \/ AddPassword(r)
             \/ (\E s \in Sessions : MagicSession(r, s) \/ OpenSession(r, s))
             \/ (\E l \in Links : LinkStore(r, l)) \/ Crash(r)
      PROVE  Finish(r) \/ \E pc : Goto(r, pc)
  BY <1>2 DEF ResetPeek, ResetPending, TakeObject, TakeRow, MagicCurrent, LoginRows, Policy,
     SetPassword, ChangeEmail, AddPassword, MagicSession, OpenSession, LinkStore, Crash
<1>3. ASSUME MagicAccount(r) \/ LinkVersion(r) \/ LoginRole(r) \/ CheckOwner(r) \/ UpdateRead(r)
             \/ (\E l \in Links : LinkRow(r, l)) \/ UpdateWrite(r)
      PROVE  \A q \in Requests \ {r} : req'[q] = req[q]
  BY <1>3, <1>f, <1>a DEF MagicAccount, LinkVersion, LoginRole, CheckOwner, UpdateRead, LinkRow,
     UpdateWrite, TypeOK
<1> QED BY <1>1, <1>f, <1>g, <1>2, <1>3 DEF Continue

LEMMA WorthyStep ==
  ASSUME TypeOK, TypeOK', LinkInv, WorthyInv, [Next]_vars
  PROVE  WorthyInv'
<1>s. ASSUME NEW q \in Requests, req'[q] = req[q] PROVE Worthy(req[q])'
  <2>1. PICK x \in RequestRecords : x = req[q]
    BY DEF TypeOK
  <2>2. Worthy(x) /\ RequestHolds(x)
    BY <2>1 DEF WorthyInv, LinkInv
  <2>3. Worthy(x)'
    BY <2>2, WorthyStays, UserStep
  <2> QED BY <1>s, <2>1, <2>3
<1>1. ASSUME NEW r \in Requests, Start(r) \/ Continue(r) \/ Crash(r) PROVE WorthyInv'
  <2>1. Worthy(req[r])'
    <3>1. CASE Crash(r)
      <4>1. req'[r].key = None
        BY <3>1 DEF Crash, Finish, NoRequest, TypeOK
      <4> QED BY <4>1 DEF Worthy
    <3> QED BY <1>1, <3>1, WorthyStart, WorthyContinue DEF WorthyInv
  <2>2. \A q \in Requests \ {r} : Worthy(req[q])'
    BY <1>1, <1>s, OthersWait
  <2> QED BY <2>1, <2>2 DEF WorthyInv
<1>2. ASSUME Environment \/ UNCHANGED vars PROVE WorthyInv'
  <2>1. UNCHANGED req
    BY <1>2 DEF Environment, RowExpires, ObjectExpires, Misdirected, Promote, DeleteUser,
       AddPasskey, PasskeySession, DeleteMethod, RevokeSession, vars
  <2> QED BY <1>s, <2>1 DEF WorthyInv
<1> QED BY <1>1, <1>2 DEF Next

LEMMA WorthyAlways == Spec => []WorthyInv
<1>1. Init => WorthyInv
  BY DEF Init, WorthyInv, Worthy, NoRequest
<1> QED BY <1>1, WorthyStep, AccountsTyped, LinkInvariant, PTL DEF Spec

(* An account that can be entered without mail still can, whoever removes   *)
(* passwords and passkeys, alone or at once, and whatever resets and         *)
(* promotions happen meanwhile; but an administrator may be left with        *)
(* passwords it had and that let no administrator in, by its promotion or    *)
(* by removing the other methods.                                           *)
THEOREM MethodRemains == Spec => LoginMethodRemains
<1>1. TypeOK /\ WorthyInv /\ [Next]_vars =>
        [\A u \in Users : Usable(user[u]) # {} =>
           \/ Usable(user'[u]) # {} \/ user'[u].st = "deleted"
           \/ LeftWeak(user'[u], user[u])]_vars
  <2> SUFFICES ASSUME TypeOK, WorthyInv, [Next]_vars, NEW u \in Users
               PROVE  Kept(user'[u], user[u])
    BY DEF Kept
  <2>1. Kept(user'[u], user[u]) \/ Replaced(user'[u], user[u])
    BY UserStep DEF UsersMove, Fair
  <2>2. ASSUME Replaced(user'[u], user[u]) PROVE Usable(user'[u]) # {}
    <3>1. PICK r \in Requests :
            /\ req[r].pc = "apply" /\ req[r].key # None /\ ~req[r].ok
            /\ user[req[r].user] = user[u] /\ user[u].version = req[r].version
            /\ user'[u].passwords = {req[r].key} /\ user'[u].admin = user[u].admin
      BY <2>2 DEF Replaced
    <3>2. user'[u].admin => req[r].key \in Strong
      BY <3>1 DEF WorthyInv, Worthy
    <3>3. req[r].key \in Eligible(user'[u], user'[u].admin)
      BY <3>1, <3>2 DEF Eligible
    <3> QED BY <3>3 DEF Usable
  <2> QED BY <2>1, <2>2 DEF Kept
<1> QED BY <1>1, AccountsTyped, WorthyAlways, PTL DEF Spec, LoginMethodRemains

-----------------------------------------------------------------------------
(* Single use of links.                                                    *)

OthersKept(l) == \A k \in Links \ {l} : Phase(k)' = Phase(k)

LEMMA Stutters ==
  ASSUME UNCHANGED effects, \A l \in Links : Phase(l)' = Phase(l)
  PROVE  UNCHANGED Abstract!grantVars
BY DEF Abstract!grantVars

LEMMA Offers ==
  ASSUME UNCHANGED effects, NEW l \in Links, Phase(l) = "none", Phase(l)' = "offered",
         OthersKept(l)
  PROVE  Abstract!Next
<1>1. Abstract!Offer(l)
  BY DEF Abstract!Offer, OthersKept
<1> QED BY <1>1 DEF Abstract!Next

LEMMA SpendsIt ==
  ASSUME UNCHANGED effects, NEW l \in Links, Phase(l) = "offered", Phase(l)' = "spent",
         OthersKept(l)
  PROVE  Abstract!Next
<1>1. Abstract!Spend(l)
  BY DEF Abstract!Spend, OthersKept
<1> QED BY <1>1 DEF Abstract!Next

LEMMA Refuses ==
  ASSUME UNCHANGED effects, NEW l \in Links, Phase(l) = "offered", Phase(l)' = "refused",
         OthersKept(l)
  PROVE  Abstract!Next
<1>1. Abstract!Refuse({l})
  BY DEF Abstract!Refuse, OthersKept
<1>2. {l} \in SUBSET Links
  OBVIOUS
<1> QED BY <1>1, <1>2 DEF Abstract!Next

(* One link's object changes, or none does.                                *)
LEMMA ObjectMoves ==
  ASSUME TypeOK, UNCHANGED effects, NEW l \in Links,
         \A k \in Links \ {l} : link'[k].obj = link[k].obj,
         \/ link'[l].obj = link[l].obj
         \/ link[l].obj = "none" /\ link'[l].obj = "live"
         \/ link[l].obj = "live" /\ link'[l].obj \in {"spent", "gone"}
  PROVE  [Abstract!Next]_Abstract!grantVars
<1>1. OthersKept(l)
  BY DEF OthersKept, Phase
<1>2. CASE link'[l].obj = link[l].obj
  <2>1. Phase(l)' = Phase(l)
    BY <1>2 DEF Phase
  <2> QED BY <1>1, <2>1, Stutters DEF OthersKept
<1>3. CASE link[l].obj = "none" /\ link'[l].obj = "live"
  <2>1. Phase(l) = "none" /\ Phase(l)' = "offered"
    BY <1>3 DEF Phase
  <2> QED BY <1>1, <2>1, Offers
<1>4. CASE link[l].obj = "live" /\ link'[l].obj = "spent"
  <2>1. Phase(l) = "offered" /\ Phase(l)' = "spent"
    BY <1>4 DEF Phase
  <2> QED BY <1>1, <2>1, SpendsIt
<1>5. CASE link[l].obj = "live" /\ link'[l].obj = "gone"
  <2>1. Phase(l) = "offered" /\ Phase(l)' = "refused"
    BY <1>5 DEF Phase
  <2> QED BY <1>1, <2>1, Refuses
<1> QED BY <1>2, <1>3, <1>4, <1>5

LEMMA AbstractStep ==
  ASSUME TypeOK, LinkInv, [Next]_vars
  PROVE  [Abstract!Next]_Abstract!grantVars
<1>1. ASSUME ~ UNCHANGED effects PROVE Abstract!Next
  <2>1. PICK r \in Requests : /\ Spends(req[r]) /\ UNCHANGED link
                              /\ effects' = [effects EXCEPT ![req[r].link] = @ + 1]
    BY <1>1, TakingEffect
  <2>2. PICK l \in Links : l = req[r].link
    BY DEF TypeOK, RequestRecords
  <2>3. link[l].obj = "spent" /\ effects[l] = 0
    BY <2>1, <2>2 DEF LinkInv, RequestHolds
  <2>4. effects' = [effects EXCEPT ![l] = 1]
    BY <2>1, <2>2, <2>3 DEF TypeOK
  <2>5. Phase(l) = "spent"
    BY <2>3 DEF Phase
  <2>6. \A k \in Links : Phase(k)' = Phase(k)
    BY <2>1 DEF Phase
  <2>7. Abstract!Honour(l)
    BY <2>3, <2>4, <2>5, <2>6 DEF Abstract!Honour
  <2> QED BY <2>7 DEF Abstract!Next
<1> SUFFICES ASSUME UNCHANGED effects PROVE [Abstract!Next]_Abstract!grantVars
  BY <1>1
<1>2. CASE \A k \in Links : link'[k].obj = link[k].obj
  <2>1. \A k \in Links : Phase(k)' = Phase(k)
    BY <1>2 DEF Phase
  <2> QED BY <2>1, Stutters
<1>t. link \in [Links -> LinkRecords] /\ \A k \in Links : link[k] \in LinkRecords
  BY DEF TypeOK
<1>3. ASSUME NEW r \in Requests, NEW l \in Links, LinkRow(r, l)
      PROVE  \A k \in Links : link'[k].obj = link[k].obj
  <2>1. ASSUME NEW k \in Links PROVE link'[k].obj = link[k].obj
    <3>1. \/ link'[k] = link[k] \/ link'[k] = [link[k] EXCEPT !.row = "closed"]
          \/ link'[k] = [link[k] EXCEPT !.row = "open", !.purpose = req[r].purpose,
                                        !.user = req[r].user]
      BY <1>3 DEF LinkRow
    <3> QED BY <1>t, <3>1 DEF LinkRecords
  <2> QED BY <2>1
<1>4. ASSUME NEW r \in Requests, NEW l \in Links, LinkStore(r, l)
      PROVE  [Abstract!Next]_Abstract!grantVars
  <2>1. link[l].obj = "none"
    BY <1>4 DEF LinkStore, Unused, LinkInv, RequestHolds, Stores
  <2>2. link'[l].obj = "live" /\ \A k \in Links \ {l} : link'[k].obj = link[k].obj
    BY <1>4, <1>t DEF LinkStore, LinkRecords
  <2> QED BY <2>1, <2>2, ObjectMoves
<1>5. ASSUME NEW r \in Requests, TakeObject(r) PROVE [Abstract!Next]_Abstract!grantVars
  <2>1. PICK l \in Links : l = req[r].link
    BY DEF TypeOK, RequestRecords
  <2>2. /\ \A k \in Links \ {l} : link'[k].obj = link[k].obj
        /\ \/ link'[l].obj = link[l].obj
           \/ link[l].obj = "live" /\ link'[l].obj = "spent"
    BY <1>5, <1>t, <2>1 DEF TakeObject, Spent, LinkRecords
  <2> QED BY <2>2, ObjectMoves
<1>6. ASSUME NEW l \in Links, ObjectExpires(l) \/ Misdirected(l)
      PROVE  [Abstract!Next]_Abstract!grantVars
  <2>1. /\ \A k \in Links \ {l} : link'[k].obj = link[k].obj
        /\ link[l].obj = "live" /\ link'[l].obj \in {"spent", "gone"}
    BY <1>6, <1>t DEF ObjectExpires, Misdirected, LinkRecords
  <2> QED BY <2>1, ObjectMoves
<1>7. ASSUME (\E r \in Requests : TakeRow(r)) \/ (\E l \in Links : RowExpires(l))
             \/ (\E u \in Users : DeleteUser(u))
      PROVE  \A k \in Links : link'[k].obj = link[k].obj
  <2>1. ASSUME NEW k \in Links PROVE link'[k].obj = link[k].obj
    <3>1. link'[k] = link[k] \/ link'[k] = [link[k] EXCEPT !.row = "closed"]
      BY <1>7, <1>t DEF TakeRow, RowExpires, DeleteUser
    <3> QED BY <1>t, <3>1 DEF LinkRecords
  <2> QED BY <2>1
<1>8. ASSUME UNCHANGED link PROVE \A k \in Links : link'[k].obj = link[k].obj
  BY <1>8
<1>9. ASSUME NEW r \in Requests, Start(r) \/ Crash(r) PROVE UNCHANGED link
  BY <1>9 DEF Start, Crash, AskLink, Follow, UpdateStart, LoginStart, AddPasswordStart
<1>10. ASSUME NEW r \in Requests, Continue(r)
       PROVE  \/ UNCHANGED link \/ TakeRow(r) \/ TakeObject(r)
              \/ \E l \in Links : LinkRow(r, l) \/ LinkStore(r, l)
  BY <1>10 DEF Continue, MagicAccount, LinkVersion, ResetPeek, ResetPending, MagicCurrent, CheckOwner, Policy,
     SetPassword, ChangeEmail, AddPassword, MagicSession, OpenSession, UpdateRead, UpdateWrite,
     LoginRole, LoginRows
<1>11. ASSUME Environment
       PROVE  \/ UNCHANGED link \/ \E u \in Users : DeleteUser(u)
              \/ \E l \in Links : RowExpires(l) \/ ObjectExpires(l) \/ Misdirected(l)
  BY <1>11 DEF Environment, Promote, AddPasskey, PasskeySession, DeleteMethod, RevokeSession
<1> QED BY <1>2, <1>3, <1>4, <1>5, <1>6, <1>7, <1>8, <1>9, <1>10, <1>11 DEF Next, vars

LEMMA AbstractInit == Init => Abstract!Init
<1> SUFFICES ASSUME Init PROVE Abstract!Init
  OBVIOUS
<1>1. \A l \in Links : Phase(l) = "none"
  BY DEF Init, Phase
<1>2. effects = [l \in Links |-> 0]
  BY DEF Init
<1> QED BY <1>1, <1>2 DEF Abstract!Init

(* Following links implements GrantSpec: a link is offered once, spent or   *)
(* refused for good, and changes an account or opens a session at most      *)
(* once, whatever crashes, is posted twice or is posted to the wrong form.  *)
THEOREM LinksOnce == Spec => ImplementsLinks
<1>1. TypeOK /\ LinkInv /\ [Next]_vars => [Abstract!Next]_Abstract!grantVars
  BY AbstractStep
<1> QED BY <1>1, AbstractInit, AccountsTyped, LinkInvariant, PTL
        DEF Spec, ImplementsLinks, Abstract!Spec
=============================================================================
