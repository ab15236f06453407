-------------------------- MODULE Reauthentication --------------------------
(***************************************************************************)
(* Signing in, signing in again, and signing out.  Signing in again         *)
(* replaces the session of the browser's cookie, and leaves a continuation: *)
(* a one-time proof that lifts prompt=login and max_age from the            *)
(* authorization request it was made for.  How a password, a link or a      *)
(* passkey is checked is in Accounts and Passkeys.                          *)
(***************************************************************************)
EXTENDS Naturals, FiniteSets

CONSTANTS
  Visitors,             \* accounts
  Browsing,             \* session ids
  Queries,              \* authorization requests that demand a login
  Tabs,                 \* requests that may be in progress at once
  ProofTtl,             \* REAUTH_PROOF_TTL_SECONDS
  MaxMoment, MaxTabs, MaxMishaps

ASSUME ReauthenticationAssumption ==
  ProofTtl \in Nat /\ MaxMoment \in Nat /\ MaxTabs \in Nat /\ MaxMishaps \in Nat

VARIABLES
  barred,     \* the disabled accounts
  browser,    \* sessions, with their continuation (a login makes at most one)
  tab,        \* the requests in progress
  lifted,     \* how often a request of each session got past the login it demanded, and which
  orphaned,   \* the sessions whose clean-up failed and was logged
  moment, opened, mishaps

reauthenticationVars == <<barred, browser, tab, lifted, orphaned, moment, opened, mishaps>>

NoProof == [st |-> "none", query |-> "none", until |-> 0]
NoBrowser == [st |-> "none", of |-> "nobody", replaces |-> "none", proof |-> NoProof]
Closed == [pc |-> "idle", of |-> "nobody", previous |-> "none", next |-> "none", query |-> "none"]

ReauthenticationInit ==
  /\ barred = {} /\ tab = [r \in Tabs |-> Closed]
  /\ \E s \in Browsing, u \in Visitors :
       browser = [t \in Browsing |-> IF t = s THEN [NoBrowser EXCEPT !.st = "live", !.of = u] ELSE NoBrowser]
  /\ lifted = [s \in Browsing |-> [times |-> 0, query |-> "none"]] /\ orphaned = {}
  /\ moment = 0 /\ opened = 0 /\ mishaps = 0

(* The session middleware: neither revoked nor of a disabled account.       *)
SignedIn(s) == browser[s].st = "live" /\ browser[s].of \notin barred

(* A request comes in; so many in all.                                     *)
Sent == opened < MaxTabs /\ opened' = opened + 1
Opens(r, request) == tab[r].pc = "idle" /\ Sent /\ tab' = [tab EXCEPT ![r] = request]

Closes(r) == tab' = [tab EXCEPT ![r] = Closed]
Mishap == mishaps < MaxMishaps /\ mishaps' = mishaps + 1
RevokedIn(s) == [browser EXCEPT ![s].st = IF browser[s].st = "live" THEN "revoked" ELSE browser[s].st]

-----------------------------------------------------------------------------
(* A login that has been checked.  When it signs in again, previous is the  *)
(* session of the cookie, if any, and query the request it returns to; a    *)
(* continuation is made for authorization requests only.                   *)

SignIn(r, u, previous, query) ==
  /\ u \notin barred /\ (previous # "none" => SignedIn(previous))
  /\ Opens(r, [Closed EXCEPT !.pc = "create", !.of = u, !.previous = previous, !.query = query])
  /\ UNCHANGED <<barred, browser, lifted, orphaned, moment, mishaps>>

(* createSession                                                           *)
CreateBrowserSession(r, s) ==
  /\ tab[r].pc = "create" /\ browser[s].st = "none" /\ tab[r].of \notin barred
  /\ browser' = [browser EXCEPT ![s] =
       [NoBrowser EXCEPT !.st = "live", !.of = tab[r].of, !.replaces = tab[r].previous]]
  /\ tab' = [tab EXCEPT ![r].next = s, ![r].pc = IF tab[r].previous # "none" THEN "replace" ELSE "answer"]
  /\ UNCHANGED <<barred, lifted, orphaned, moment, opened, mishaps>>

SessionRefused(r) ==
  /\ tab[r].pc = "create" /\ tab[r].of \in barred /\ Closes(r)
  /\ UNCHANGED <<barred, browser, lifted, orphaned, moment, opened, mishaps>>

(* replaceReauthenticatedSession                                           *)
ReplaceSession(r) ==
  /\ tab[r].pc = "replace" /\ browser' = RevokedIn(tab[r].previous)
  /\ tab' = [tab EXCEPT ![r].pc = "answer"]
  /\ UNCHANGED <<barred, lifted, orphaned, moment, opened, mishaps>>

(* Slip: the failure is logged and the login goes on.                      *)
GoesOnAnyway(r) == [tab[r] EXCEPT !.pc = "answer"]

AfterFailure(r) == [tab[r] EXCEPT !.pc = "undo"]

ReplaceFails(r) ==
  /\ tab[r].pc = "replace" /\ Mishap /\ tab' = [tab EXCEPT ![r] = AfterFailure(r)]
  /\ UNCHANGED <<barred, browser, lifted, orphaned, moment, opened>>

UndoSession(r) ==
  /\ tab[r].pc = "undo" /\ browser' = RevokedIn(tab[r].next) /\ Closes(r)
  /\ UNCHANGED <<barred, lifted, orphaned, moment, opened, mishaps>>

UndoFails(r) ==
  /\ tab[r].pc = "undo" /\ Mishap /\ orphaned' = orphaned \cup {tab[r].next} /\ Closes(r)
  /\ UNCHANGED <<barred, browser, lifted, moment, opened>>

(* createReauthContinuation                                                *)
AnswerLogin(r) ==
  /\ tab[r].pc = "answer" /\ Closes(r)
  /\ browser' = IF tab[r].query = "none" THEN browser
       ELSE [browser EXCEPT ![tab[r].next].proof = [st |-> "open", query |-> tab[r].query, until |-> moment + ProofTtl]]
  /\ UNCHANGED <<barred, lifted, orphaned, moment, opened, mishaps>>

AnswerFails(r) ==
  /\ tab[r].pc = "answer" /\ tab[r].query # "none" /\ Mishap /\ Closes(r)
  /\ UNCHANGED <<barred, browser, lifted, orphaned, moment, opened>>

-----------------------------------------------------------------------------
(* The authorization request comes back, with the session of the cookie     *)
(* and a continuation of that or of another session.                       *)

ReturnToAuthorize(r, s, proved, query) ==
  /\ SignedIn(s) /\ browser[proved].proof.st # "none"
  /\ Opens(r, [Closed EXCEPT !.pc = "prove", !.previous = s, !.next = proved, !.query = query])
  /\ UNCHANGED <<barred, browser, lifted, orphaned, moment, mishaps>>

(* Slip: a proof that was used is good again.                              *)
ProofMatches(r) ==
  LET proof == browser[tab[r].next].proof IN
  tab[r].next = tab[r].previous /\ proof.query = tab[r].query /\ moment < proof.until

(* The conditions of the UPDATE.                                           *)
ProofHolds(r) ==
  LET proof == browser[tab[r].next].proof IN
  tab[r].next = tab[r].previous /\ proof.query = tab[r].query /\ moment < proof.until /\ proof.st = "open"

(* consumeReauthContinuation; without the proof the request is sent to sign *)
(* in again.                                                               *)
ConsumeProof(r) ==
  /\ tab[r].pc = "prove" /\ Closes(r)
  /\ IF ProofHolds(r)
       THEN /\ browser' = [browser EXCEPT ![tab[r].next].proof.st = "used"]
            /\ lifted' = [lifted EXCEPT ![tab[r].previous] =
                            [times |-> lifted[tab[r].previous].times + 1, query |-> tab[r].query]]
       ELSE UNCHANGED <<browser, lifted>>
  /\ UNCHANGED <<barred, orphaned, moment, opened, mishaps>>

-----------------------------------------------------------------------------
(* POST /logout, and POST /oauth/end_session, whose id_token_hint must be   *)
(* the session's user's.                                                   *)

Logout(s) ==
  /\ Sent /\ browser[s].st = "live" /\ browser' = RevokedIn(s)
  /\ UNCHANGED <<barred, tab, lifted, orphaned, moment, mishaps>>

EndSession(s, hinted) ==
  /\ hinted # "nobody" /\ SignedIn(s) => hinted = browser[s].of
  /\ Logout(s)

Bar(u) ==
  /\ Sent /\ u \notin barred /\ barred' = barred \cup {u}
  /\ browser' = [s \in Browsing |-> IF browser[s].of = u /\ browser[s].st = "live"
                                      THEN [browser[s] EXCEPT !.st = "revoked"] ELSE browser[s]]
  /\ UNCHANGED <<tab, lifted, orphaned, moment, mishaps>>

Passes ==
  /\ moment < MaxMoment /\ moment' = moment + 1
  /\ UNCHANGED <<barred, browser, tab, lifted, orphaned, opened, mishaps>>

ReauthenticationNext ==
  \/ \E r \in Tabs :
       \/ \E u \in Visitors, previous \in Browsing \cup {"none"}, query \in Queries \cup {"none"} :
            SignIn(r, u, previous, query)
       \/ \E s \in Browsing : CreateBrowserSession(r, s)
       \/ SessionRefused(r) \/ ReplaceSession(r) \/ ReplaceFails(r) \/ UndoSession(r) \/ UndoFails(r)
       \/ AnswerLogin(r) \/ AnswerFails(r) \/ ConsumeProof(r)
       \/ \E s, proved \in Browsing, query \in Queries : ReturnToAuthorize(r, s, proved, query)
  \/ \E s \in Browsing : Logout(s) \/ \E hinted \in Visitors \cup {"nobody"} : EndSession(s, hinted)
  \/ \E u \in Visitors : Bar(u)
  \/ Passes

ReauthenticationSpec == ReauthenticationInit /\ [][ReauthenticationNext]_reauthenticationVars

-----------------------------------------------------------------------------
(* The variables have their types.                                         *)
ReauthenticationTypeOK ==
  /\ barred \subseteq Visitors /\ orphaned \subseteq Browsing
  /\ \A s \in Browsing : browser[s].st \in {"none", "live", "revoked"}
  /\ \A r \in Tabs : tab[r].pc \in {"idle", "create", "replace", "undo", "answer", "prove"}

Replacing(s) == \E r \in Tabs : tab[r].next = s /\ tab[r].pc \in {"replace", "undo"}

(* security/reauth-continuation.ts: a login lifts prompt=login and max_age  *)
(* once, for the request it was made for and for its own session, however   *)
(* often the continuation is opened.  auth/session.ts: signing in again     *)
(* never leaves both the old and the new session valid, failures included,  *)
(* unless the clean-up failed too, which is logged.                         *)
ReauthenticationHolds ==
  /\ \A s \in Browsing : lifted[s].times <= 1 /\ (lifted[s].times = 1 => lifted[s].query = browser[s].proof.query)
  /\ \A s \in Browsing :
       browser[s].st = "live" /\ browser[s].replaces # "none" /\ browser[browser[s].replaces].st = "live"
         => Replacing(s) \/ s \in orphaned
=============================================================================
