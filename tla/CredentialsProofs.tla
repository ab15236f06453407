-------------------------- MODULE CredentialsProofs --------------------------
(***************************************************************************)
(* Proofs about ClientAuth, Reauthentication, Passkeys and MetadataClients, *)
(* for any number of clients' assertions, sessions, passkeys, ceremonies,   *)
(* documents and requests.                                                  *)
(***************************************************************************)
EXTENDS MetadataClients, ClientAuth, Passkeys, Reauthentication, FiniteSetTheorems, TLAPS

-----------------------------------------------------------------------------
(* Client authentication.                                                  *)

Attempts ==
  [pc : {"out", "client", "compare", "in", "hop", "fetch", "jti"}, client : Registered \cup {"none"},
   proof : Nat, hash : Nat, arrived : Nat, assertion : Assertions \cup {NoAssertion},
   url : Sites \cup {"none"}, seen : SUBSET Sites]

(* What an invocation carries from one of its reads to the next: the hash   *)
(* it compares with is no older than the request.                          *)
AttemptHolds(at, now) ==
  /\ at.arrived <= now
  /\ at.pc = "client" => at.client \in Registered /\ (at.client = "keys" => at.assertion \in Assertions)
  /\ at.pc = "compare" => at.hash >= at.arrived
  /\ at.pc \in {"hop", "fetch", "jti"} => at.client = "keys" /\ at.assertion \in Assertions
  /\ at.pc = "in" /\ at.client = "secret" => at.proof >= at.arrived

(* Secrets are numbered in the order of the rotations, and an assertion     *)
(* that was accepted has its row until it expires, or has lost the row to a *)
(* deletion of the client once for each acceptance.                        *)
StoredHolds ==
  /\ registry \in [Registered -> {"none", "enabled", "disabled"}]
  /\ secret \in Nat \ {0} /\ issued = 1..secret
  /\ jtis \subseteq Assertions /\ second \in Nat
  /\ registry["keys"] = "none" => jtis = {}
  /\ accepted \in [Assertions -> Nat] /\ lost \in [Assertions -> Nat]
  /\ \A a \in Assertions :
       accepted[a] <= 1 + lost[a] /\ (a \notin jtis /\ second <= a.exp => accepted[a] <= lost[a])

AttemptsHold == login \in [Logins -> Attempts] /\ \A q \in Logins : AttemptHolds(login[q], secret)

AuthInv == StoredHolds /\ AttemptsHold

LEMMA OutHolds ==
  ASSUME NEW now \in Nat
  PROVE  Out \in Attempts /\ AttemptHolds(Out, now)
BY DEF Out, NoAssertion, Attempts, AttemptHolds

(* One invocation moves, and the others keep what they carry.              *)
LEMMA OneAttempt ==
  ASSUME AuthInv, NEW q \in Logins, NEW at \in Attempts, AttemptHolds(at, secret),
         login' = [login EXCEPT ![q] = at], secret' = secret
  PROVE  AttemptsHold'
BY DEF AuthInv, AttemptsHold

LEMMA RefusedHolds ==
  ASSUME AuthInv, NEW q \in Logins, Refused(q), secret' = secret
  PROVE  AttemptsHold'
<1>1. secret \in Nat
  BY DEF AuthInv, StoredHolds
<1> QED BY <1>1, OutHolds, OneAttempt DEF Refused

LEMMA AuthenticatedHolds ==
  ASSUME AuthInv, NEW q \in Logins, Authenticated(q), secret' = secret,
         login[q].client = "secret" => login[q].proof >= login[q].arrived
  PROVE  AttemptsHold'
<1>1. login[q] \in Attempts /\ AttemptHolds(login[q], secret)
  BY DEF AuthInv, AttemptsHold
<1> DEFINE at == [login[q] EXCEPT !.pc = "in"]
<1>2. at \in Attempts /\ AttemptHolds(at, secret)
  BY <1>1 DEF Attempts, AttemptHolds
<1>3. login' = [login EXCEPT ![q] = at]
  BY DEF Authenticated
<1> HIDE DEF at
<1> QED BY <1>2, <1>3, OneAttempt

LEMMA PresentsHolds ==
  ASSUME AuthInv, NEW q \in Logins, NEW c \in Registered, NEW n \in Nat,
         NEW a \in Assertions \cup {NoAssertion}, c = "keys" => a \in Assertions, Presents(q, c, n, a)
  PROVE  AuthInv'
<1> DEFINE at == [Out EXCEPT !.pc = "client", !.client = c, !.proof = n, !.arrived = secret, !.assertion = a]
<1>1. secret \in Nat
  BY DEF AuthInv, StoredHolds
<1>2. at \in Attempts
  BY <1>1, OutHolds DEF Attempts
<1>3. at.pc = "client" /\ at.client = c /\ at.arrived = secret /\ at.assertion = a
  BY <1>1, OutHolds DEF Attempts
<1>4. AttemptHolds(at, secret)
  BY <1>1, <1>3 DEF AttemptHolds
<1>5. login' = [login EXCEPT ![q] = at] /\ secret' = secret
  BY DEF Presents
<1> HIDE DEF at
<1>6. AttemptsHold'
  BY <1>2, <1>4, <1>5, OneAttempt
<1>7. StoredHolds'
  BY DEF Presents, AuthInv, StoredHolds
<1> QED BY <1>6, <1>7 DEF AuthInv

LEMMA ReadClientHolds ==
  ASSUME AuthInv, NEW q \in Logins, ReadClient(q)
  PROVE  AuthInv'
<1>1. StoredHolds' /\ secret' = secret /\ secret \in Nat
  BY DEF ReadClient, AuthInv, StoredHolds
<1>2. login[q] \in Attempts /\ AttemptHolds(login[q], secret) /\ login[q].pc = "client"
  BY DEF ReadClient, AuthInv, AttemptsHold
<1>3. CASE Refused(q)
  BY <1>1, <1>3, RefusedHolds DEF AuthInv
<1>4. CASE Authenticated(q) /\ login[q].client = "public"
  BY <1>1, <1>4, AuthenticatedHolds DEF AuthInv
<1>5. CASE login' = [login EXCEPT ![q].pc = "compare", ![q].hash = secret]
  <2> DEFINE at == [login[q] EXCEPT !.pc = "compare", !.hash = secret]
  <2>1. at \in Attempts /\ AttemptHolds(at, secret)
    BY <1>1, <1>2 DEF Attempts, AttemptHolds
  <2>2. login' = [login EXCEPT ![q] = at]
    BY <1>5
  <2> HIDE DEF at
  <2> QED BY <1>1, <2>1, <2>2, OneAttempt DEF AuthInv
<1>6. CASE login' = [login EXCEPT ![q].pc = "hop", ![q].url = JwksUri] /\ login[q].client = "keys"
  <2> DEFINE at == [login[q] EXCEPT !.pc = "hop", !.url = JwksUri]
  <2>1. at \in Attempts /\ AttemptHolds(at, secret)
    BY <1>1, <1>2, <1>6, ClientAuthAssumption DEF Attempts, AttemptHolds
  <2>2. login' = [login EXCEPT ![q] = at]
    BY <1>6
  <2> HIDE DEF at
  <2> QED BY <1>1, <2>1, <2>2, OneAttempt DEF AuthInv
<1>7. login[q].client \in {"public", "secret", "keys"}
  BY <1>2 DEF AttemptHolds, Registered
<1> QED BY <1>3, <1>4, <1>5, <1>6, <1>7 DEF ReadClient

LEMMA CompareHolds ==
  ASSUME AuthInv, NEW q \in Logins, CompareSecret(q)
  PROVE  AuthInv'
<1>1. StoredHolds' /\ secret' = secret
  BY DEF CompareSecret, AuthInv, StoredHolds
<1>2. login[q] \in Attempts /\ AttemptHolds(login[q], secret) /\ login[q].pc = "compare"
  BY DEF CompareSecret, AuthInv, AttemptsHold
<1>3. CASE SecretMatches(login[q])
  <2>1. Authenticated(q) /\ login[q].proof >= login[q].arrived
    BY <1>2, <1>3 DEF CompareSecret, SecretMatches, AttemptHolds
  <2> QED BY <1>1, <2>1, AuthenticatedHolds DEF AuthInv
<1>4. CASE ~SecretMatches(login[q])
  BY <1>1, <1>4, RefusedHolds DEF CompareSecret, AuthInv
<1> QED BY <1>3, <1>4

LEMMA HopHolds ==
  ASSUME AuthInv, NEW q \in Logins, Hop(q)
  PROVE  AuthInv'
<1>1. login[q] \in Attempts /\ AttemptHolds(login[q], secret) /\ login[q].pc = "hop" /\ secret' = secret
  BY DEF Hop, AuthInv, AttemptsHold
<1>2. CASE HopSafe(login[q].url, login[q].seen)
  <2> DEFINE at == [login[q] EXCEPT !.pc = "fetch", !.seen = login[q].seen \cup {login[q].url}]
  <2>1. login[q].url \in PublicSites /\ login[q].url \in Sites
    BY <1>2, ClientAuthAssumption DEF HopSafe
  <2>2. at \in Attempts /\ AttemptHolds(at, secret)
    BY <1>1, <2>1 DEF Attempts, AttemptHolds
  <2>3. login' = [login EXCEPT ![q] = at]
    BY <1>1, <1>2 DEF Hop, AuthInv, AttemptsHold
  <2>4. StoredHolds'
    BY <1>2, <2>1 DEF Hop, AuthInv, StoredHolds
  <2> HIDE DEF at
  <2> QED BY <1>1, <2>2, <2>3, <2>4, OneAttempt DEF AuthInv
<1>3. CASE ~HopSafe(login[q].url, login[q].seen)
  <2>1. Refused(q) /\ StoredHolds'
    BY <1>3 DEF Hop, AuthInv, StoredHolds
  <2> QED BY <1>1, <2>1, RefusedHolds DEF AuthInv
<1> QED BY <1>2, <1>3

LEMMA RedirectedHolds ==
  ASSUME AuthInv, NEW q \in Logins, NEW url \in Sites, Redirected(q, url)
  PROVE  AuthInv'
<1>1. StoredHolds' /\ secret' = secret
  BY DEF Redirected, AuthInv, StoredHolds
<1>2. login[q] \in Attempts /\ AttemptHolds(login[q], secret) /\ login[q].pc = "fetch"
  BY DEF Redirected, AuthInv, AttemptsHold
<1>3. CASE Refused(q)
  BY <1>1, <1>3, RefusedHolds DEF AuthInv
<1>4. CASE login' = [login EXCEPT ![q].pc = "hop", ![q].url = url]
  <2> DEFINE at == [login[q] EXCEPT !.pc = "hop", !.url = url]
  <2>1. at \in Attempts /\ AttemptHolds(at, secret)
    BY <1>2 DEF Attempts, AttemptHolds
  <2>2. login' = [login EXCEPT ![q] = at]
    BY <1>4
  <2> HIDE DEF at
  <2> QED BY <1>1, <2>1, <2>2, OneAttempt DEF AuthInv
<1> QED BY <1>3, <1>4 DEF Redirected

LEMMA VerifiedHolds ==
  ASSUME AuthInv, NEW q \in Logins, Verified(q)
  PROVE  AuthInv'
<1>1. StoredHolds' /\ secret' = secret
  BY DEF Verified, AuthInv, StoredHolds
<1>2. login[q] \in Attempts /\ AttemptHolds(login[q], secret) /\ login[q].pc = "fetch"
  BY DEF Verified, AuthInv, AttemptsHold
<1>3. CASE Refused(q)
  BY <1>1, <1>3, RefusedHolds DEF AuthInv
<1>4. CASE login' = [login EXCEPT ![q].pc = "jti", ![q].seen = {}, ![q].url = "none"]
  <2> DEFINE at == [login[q] EXCEPT !.pc = "jti", !.seen = {}, !.url = "none"]
  <2>1. at \in Attempts /\ AttemptHolds(at, secret)
    BY <1>2 DEF Attempts, AttemptHolds
  <2>2. login' = [login EXCEPT ![q] = at]
    BY <1>4
  <2> HIDE DEF at
  <2> QED BY <1>1, <2>1, <2>2, OneAttempt DEF AuthInv
<1> QED BY <1>3, <1>4 DEF Verified

(* The row that is missing is the one that would have been there had the    *)
(* assertion been accepted before.                                         *)
LEMMA InsertJtiHolds ==
  ASSUME AuthInv, NEW q \in Logins, InsertJti(q)
  PROVE  AuthInv'
<1>1. login[q].pc = "jti" /\ login[q].client = "keys" /\ login[q].assertion \in Assertions /\ secret' = secret
  BY DEF InsertJti, AuthInv, AttemptsHold, AttemptHolds
<1>2. PICK a \in Assertions : a = login[q].assertion
  BY <1>1
<1>3. CASE FreshJti(a)
  <2>1. Authenticated(q) /\ jtis' = jtis \cup {a} /\ registry["keys"] # "none" /\ a \notin jtis
    BY <1>2, <1>3 DEF InsertJti, FreshJti
  <2>2. accepted' \in [Assertions -> Nat]
        /\ \A b \in Assertions :
             accepted'[b] <= 1 + lost[b] /\ (b \notin jtis' /\ second <= b.exp => accepted'[b] <= lost[b])
    <3>1. CASE second <= a.exp
      <4>1. accepted' = [accepted EXCEPT ![a] = accepted[a] + 1] /\ accepted[a] <= lost[a]
        BY <1>2, <1>3, <2>1, <3>1 DEF InsertJti, AuthInv, StoredHolds
      <4> QED BY <2>1, <4>1 DEF AuthInv, StoredHolds
    <3>2. CASE ~(second <= a.exp)
      BY <1>2, <2>1, <3>2 DEF InsertJti, AuthInv, StoredHolds
    <3> QED BY <3>1, <3>2
  <2>3. StoredHolds'
    BY <2>1, <2>2 DEF InsertJti, AuthInv, StoredHolds
  <2> QED BY <1>1, <2>1, <2>3, AuthenticatedHolds DEF AuthInv
<1>4. CASE ~FreshJti(a)
  <2>1. Refused(q) /\ jtis' = jtis /\ accepted' = accepted
    BY <1>2, <1>4 DEF InsertJti
  <2>2. StoredHolds'
    BY <2>1 DEF InsertJti, AuthInv, StoredHolds
  <2> QED BY <1>1, <2>1, <2>2, RefusedHolds DEF AuthInv
<1> QED BY <1>3, <1>4

LEMMA RotateHolds ==
  ASSUME AuthInv, RotateSecret
  PROVE  AuthInv'
<1>1. secret \in Nat \ {0} /\ issued = 1..secret
  BY DEF AuthInv, StoredHolds
<1>2. Cardinality(issued) = secret
  BY <1>1, FS_Interval
<1>3. secret' = secret + 1 /\ issued' = 1..secret'
  BY <1>1, <1>2 DEF RotateSecret
<1>4. StoredHolds'
  BY <1>1, <1>3 DEF RotateSecret, AuthInv, StoredHolds
<1>5. \A q \in Logins : login[q].arrived \in Nat
  BY DEF AuthInv, AttemptsHold, Attempts
<1>6. AttemptsHold'
  BY <1>1, <1>3, <1>5 DEF RotateSecret, AuthInv, AttemptsHold, AttemptHolds
<1> QED BY <1>4, <1>6 DEF AuthInv

(* What happens outside the invocations.                                   *)
LEMMA ElsewhereHolds ==
  ASSUME AuthInv,
         \/ CleanupJtis \/ RemoveKeyClient \/ OnboardAgain \/ Tick
         \/ \E c \in Registered, on \in {"enabled", "disabled"} : SetRegistered(c, on)
  PROVE  AuthInv'
<1>1. AttemptsHold'
  BY DEF AuthInv, AttemptsHold, CleanupJtis, RemoveKeyClient, OnboardAgain, Tick, SetRegistered
<1>2. ASSUME CleanupJtis PROVE StoredHolds'
  BY <1>2, ClientAuthAssumption DEF CleanupJtis, AuthInv, StoredHolds
<1>3. ASSUME RemoveKeyClient PROVE StoredHolds'
  BY <1>3 DEF RemoveKeyClient, AuthInv, StoredHolds, Registered
<1>4. ASSUME OnboardAgain PROVE StoredHolds'
  BY <1>4 DEF OnboardAgain, AuthInv, StoredHolds
<1>5. ASSUME Tick PROVE StoredHolds'
  BY <1>5, ClientAuthAssumption DEF Tick, AuthInv, StoredHolds
<1>6. ASSUME \E c \in Registered, on \in {"enabled", "disabled"} : SetRegistered(c, on) PROVE StoredHolds'
  BY <1>6 DEF SetRegistered, AuthInv, StoredHolds
<1>7. StoredHolds'
  BY <1>2, <1>3, <1>4, <1>5, <1>6 DEF AuthInv
<1> QED BY <1>1, <1>7 DEF AuthInv

LEMMA AuthInvariant == ClientAuthSpec => []AuthInv
<1>1. ClientAuthInit => AuthInv
  <2> SUFFICES ASSUME ClientAuthInit PROVE AuthInv
    OBVIOUS
  <2>1. StoredHolds
    BY DEF ClientAuthInit, StoredHolds, Registered
  <2>2. AttemptsHold
    BY OutHolds DEF ClientAuthInit, AttemptsHold
  <2> QED BY <2>1, <2>2 DEF AuthInv
<1>2. AuthInv /\ [ClientAuthNext]_clientAuthVars => AuthInv'
  <2> SUFFICES ASSUME AuthInv, [ClientAuthNext]_clientAuthVars PROVE AuthInv'
    OBVIOUS
  <2>1. ASSUME NEW q \in Logins, NEW c \in {"public", "secret"}, NEW n \in 0..MaxSecrets, PresentSecret(q, c, n)
        PROVE AuthInv'
    <3>1. n \in Nat
      BY ClientAuthAssumption
    <3> QED BY <2>1, <3>1, PresentsHolds DEF PresentSecret, Registered
  <2>2. ASSUME NEW q \in Logins, NEW a \in Assertions, PresentAssertion(q, a) PROVE AuthInv'
    BY <2>2, PresentsHolds DEF PresentAssertion, Registered
  <2>3. ASSUME NEW q \in Logins, GoesOn(q) \/ FetchFailed(q) PROVE AuthInv'
    <3>1. Refused(q) /\ StoredHolds' /\ secret' = secret
      BY <2>3 DEF GoesOn, FetchFailed, AuthInv, StoredHolds
    <3> QED BY <3>1, RefusedHolds DEF AuthInv
  <2>4. CASE UNCHANGED clientAuthVars
    BY <2>4 DEF clientAuthVars, AuthInv, StoredHolds, AttemptsHold
  <2> QED BY <2>1, <2>2, <2>3, <2>4, ReadClientHolds, CompareHolds, HopHolds, RedirectedHolds, VerifiedHolds,
             InsertJtiHolds, RotateHolds, ElsewhereHolds DEF ClientAuthNext
<1> QED BY <1>1, <1>2, PTL DEF ClientAuthSpec

(* The variables of client authentication keep their types, and secrets are *)
(* numbered without gaps.                                                  *)
THEOREM AuthenticationTyped == ClientAuthSpec => []ClientAuthTypeOK
<1>1. AuthInv => ClientAuthTypeOK
  <2> SUFFICES ASSUME AuthInv PROVE ClientAuthTypeOK
    OBVIOUS
  <2>1. secret \in Nat \ {0} /\ issued = 1..secret
    BY DEF AuthInv, StoredHolds
  <2>2. Cardinality(issued) = secret
    BY <2>1, FS_Interval
  <2> QED BY <2>1, <2>2, ClientAuthAssumption DEF ClientAuthTypeOK, AuthInv, StoredHolds
<1> QED BY <1>1, AuthInvariant, PTL

(* Until it expires an assertion is accepted once, and once more for each   *)
(* time its row went with the deletion of the client; a secret that was     *)
(* replaced before the request arrived does not authenticate it.  Both hold *)
(* whatever sites answer and however requests, rotations, deletions and     *)
(* clean-ups interleave.                                                   *)
THEOREM CredentialsAreCurrent == ClientAuthSpec => []AuthenticationHolds
<1>1. AuthInv => AuthenticationHolds
  BY DEF AuthInv, StoredHolds, AttemptsHold, AttemptHolds, AuthenticationHolds
<1> QED BY <1>1, AuthInvariant, PTL

-----------------------------------------------------------------------------
(* Signing in again.                                                       *)

SessionRows ==
  [st : {"none", "live", "revoked"}, of : Visitors \cup {"nobody"}, replaces : Browsing \cup {"none"},
   proof : [st : {"none", "open", "used"}, query : Queries \cup {"none"}, until : Nat]]
TabRecords ==
  [pc : {"idle", "create", "replace", "undo", "answer", "prove"}, of : Visitors \cup {"nobody"},
   previous : Browsing \cup {"none"}, next : Browsing \cup {"none"}, query : Queries \cup {"none"}]
Lifts == [times : Nat, query : Queries \cup {"none"}]

BrowsingTyped ==
  /\ browser \in [Browsing -> SessionRows] /\ tab \in [Tabs -> TabRecords] /\ lifted \in [Browsing -> Lifts]
  /\ barred \subseteq Visitors /\ orphaned \subseteq Browsing /\ moment \in Nat

(* The request made the session tab[r].next, and has not answered yet.     *)
Signing(r) == tab[r].pc \in {"replace", "undo", "answer"}
Valid(s) == browser[s].st = "live"

(* A session that let a request past has its proof used up, a proof has its *)
(* session, and a session that replaces another was made after it.         *)
SessionHolds(s) ==
  /\ lifted[s].times # 0 => /\ lifted[s].times = 1 /\ browser[s].proof.st = "used"
                            /\ lifted[s].query = browser[s].proof.query
  /\ browser[s].st = "none" => browser[s].proof.st = "none"
  /\ browser[s].replaces # "none" => browser[s].replaces \in Browsing /\ browser[browser[s].replaces].st # "none"
  /\ Valid(s) /\ browser[s].replaces # "none" /\ Valid(browser[s].replaces) => Replacing(s) \/ s \in orphaned

(* A session whose login is not answered yet has no proof.                 *)
TabHolds(r) ==
  /\ tab[r].pc # "idle" /\ tab[r].previous # "none" => tab[r].previous \in Browsing /\ browser[tab[r].previous].st # "none"
  /\ Signing(r) => tab[r].next \in Browsing /\ browser[tab[r].next].st # "none" /\ browser[tab[r].next].proof.st = "none"
  /\ tab[r].pc \in {"replace", "undo"} => tab[r].previous # "none" /\ browser[tab[r].next].replaces = tab[r].previous
  /\ tab[r].pc = "prove" => tab[r].next \in Browsing /\ tab[r].previous \in Browsing

Apart == \A q, r \in Tabs : q # r /\ Signing(q) /\ Signing(r) => tab[q].next # tab[r].next

SessionsHold == (\A s \in Browsing : SessionHolds(s)) /\ (\A r \in Tabs : TabHolds(r)) /\ Apart

BrowsingInv == BrowsingTyped /\ SessionsHold

(* Sessions are at most revoked.                                           *)
AtMostRevoked ==
  \A s \in Browsing :
    /\ browser'[s].proof = browser[s].proof /\ browser'[s].replaces = browser[s].replaces
    /\ browser'[s].st = browser[s].st \/ (browser[s].st = "live" /\ browser'[s].st = "revoked")

(* A request ends, begins, or goes on with the session it made.            *)
TabMoves(r) ==
  \/ tab'[r] = tab[r] \/ tab'[r].pc = "idle"
  \/ /\ tab'[r].pc \in {"create", "prove"}
     /\ tab'[r].previous # "none" => tab'[r].previous \in Browsing /\ browser[tab'[r].previous].st # "none"
     /\ tab'[r].pc = "prove" => tab'[r].next \in Browsing /\ tab'[r].previous \in Browsing
  \/ /\ Signing(r) /\ tab'[r].pc \in {"undo", "answer"} /\ (tab'[r].pc = "undo" => tab[r].pc = "replace")
     /\ tab'[r].next = tab[r].next /\ tab'[r].previous = tab[r].previous

(* A replacement that is over has left one of the two sessions, or a trace. *)
Settles(r) ==
  \/ tab'[r].pc \in {"replace", "undo"} /\ tab'[r].next = tab[r].next
  \/ browser'[tab[r].next].st # "live" \/ browser'[tab[r].previous].st # "live" \/ tab[r].next \in orphaned'

LEMMA QuietHolds ==
  ASSUME BrowsingInv, BrowsingTyped', AtMostRevoked, lifted' = lifted, orphaned \subseteq orphaned',
         \A r \in Tabs : TabMoves(r) /\ (tab[r].pc \in {"replace", "undo"} => Settles(r))
  PROVE  SessionsHold'
<1>1. \A r \in Tabs : TabHolds(r)'
  <2> SUFFICES ASSUME NEW r \in Tabs PROVE TabHolds(r)'
    OBVIOUS
  <2>1. TabHolds(r) /\ TabMoves(r)
    BY DEF BrowsingInv, SessionsHold
  <2> QED BY <2>1 DEF TabHolds, TabMoves, AtMostRevoked, Signing
<1>2. Apart'
  <2> SUFFICES ASSUME NEW q \in Tabs, NEW r \in Tabs, q # r, Signing(q)', Signing(r)' PROVE tab'[q].next # tab'[r].next
    BY DEF Apart
  <2>1. Signing(q) /\ tab'[q].next = tab[q].next /\ Signing(r) /\ tab'[r].next = tab[r].next
    BY DEF TabMoves, Signing
  <2> QED BY <2>1 DEF BrowsingInv, SessionsHold, Apart
<1>3. \A s \in Browsing : SessionHolds(s)'
  <2> SUFFICES ASSUME NEW s \in Browsing PROVE SessionHolds(s)'
    OBVIOUS
  <2>1. SessionHolds(s)
    BY DEF BrowsingInv, SessionsHold
  <2>2. ASSUME Valid(s)', browser'[s].replaces # "none", Valid(browser[s].replaces)'
        PROVE  Replacing(s)' \/ s \in orphaned'
    <3>1. Valid(s) /\ browser[s].replaces # "none" /\ browser[s].replaces \in Browsing /\ Valid(browser[s].replaces)
      BY <2>1, <2>2 DEF AtMostRevoked, Valid, SessionHolds
    <3>2. CASE s \in orphaned
      BY <3>2
    <3>3. ASSUME NEW r \in Tabs, tab[r].next = s, tab[r].pc \in {"replace", "undo"}
          PROVE  Replacing(s)' \/ s \in orphaned'
      <4>1. browser[s].replaces = tab[r].previous
        BY <3>3 DEF BrowsingInv, SessionsHold, TabHolds
      <4> QED BY <2>2, <3>3, <4>1 DEF AtMostRevoked, Settles, Valid, Replacing
    <3> QED BY <2>1, <3>1, <3>2, <3>3 DEF SessionHolds, Replacing
  <2>3. lifted'[s].times # 0 => /\ lifted'[s].times = 1 /\ browser'[s].proof.st = "used"
                                /\ lifted'[s].query = browser'[s].proof.query
    BY <2>1 DEF SessionHolds, AtMostRevoked
  <2>4. browser'[s].st = "none" => browser'[s].proof.st = "none"
    BY <2>1 DEF SessionHolds, AtMostRevoked
  <2>5. browser'[s].replaces # "none" => browser'[s].replaces \in Browsing /\ browser'[browser'[s].replaces].st # "none"
    BY <2>1 DEF SessionHolds, AtMostRevoked
  <2> QED BY <2>2, <2>3, <2>4, <2>5 DEF SessionHolds
<1> QED BY <1>1, <1>2, <1>3 DEF SessionsHold

(* The fields that a record update leaves and sets.                        *)
LEMMA RevokedInHolds ==
  ASSUME BrowsingInv, NEW s \in Browsing, browser' = RevokedIn(s)
  PROVE  browser' \in [Browsing -> SessionRows] /\ AtMostRevoked /\ browser'[s].st # "live"
<1> DEFINE row == [browser[s] EXCEPT !.st = IF browser[s].st = "live" THEN "revoked" ELSE browser[s].st]
<1>1. browser \in [Browsing -> SessionRows] /\ browser[s] \in SessionRows
  BY DEF BrowsingInv, BrowsingTyped
<1>2. browser' = [browser EXCEPT ![s] = row]
  BY DEF RevokedIn
<1>3. row \in SessionRows /\ row.proof = browser[s].proof /\ row.replaces = browser[s].replaces
      /\ row.st = IF browser[s].st = "live" THEN "revoked" ELSE browser[s].st
  BY <1>1 DEF SessionRows
<1> HIDE DEF row
<1> QED BY <1>1, <1>2, <1>3 DEF AtMostRevoked

LEMMA SameBrowser ==
  ASSUME browser' = browser
  PROVE  AtMostRevoked
BY DEF AtMostRevoked

LEMMA ClosedTyped == Closed \in TabRecords
BY DEF Closed, TabRecords

LEMMA TabTyped ==
  ASSUME BrowsingInv, NEW r \in Tabs
  PROVE  tab \in [Tabs -> TabRecords] /\ tab[r] \in TabRecords /\ TabHolds(r)
BY DEF BrowsingInv, BrowsingTyped, SessionsHold

(* A request that closes.                                                  *)
LEMMA ClosesHolds ==
  ASSUME BrowsingInv, NEW r \in Tabs, Closes(r), AtMostRevoked, browser' \in [Browsing -> SessionRows],
         lifted' = lifted, orphaned \subseteq orphaned', orphaned' \subseteq Browsing,
         barred' = barred, moment' = moment,
         tab[r].pc \in {"replace", "undo"} => browser'[tab[r].next].st # "live" \/ tab[r].next \in orphaned'
  PROVE  BrowsingInv'
<1>1. tab' \in [Tabs -> TabRecords] /\ tab'[r].pc = "idle" /\ \A q \in Tabs : q # r => tab'[q] = tab[q]
  BY TabTyped, ClosedTyped DEF Closes, Closed
<1>2. BrowsingTyped'
  BY <1>1 DEF BrowsingInv, BrowsingTyped
<1>3. \A q \in Tabs : TabMoves(q) /\ (tab[q].pc \in {"replace", "undo"} => Settles(q))
  BY <1>1 DEF TabMoves, Settles
<1> QED BY <1>2, <1>3, QuietHolds DEF BrowsingInv

(* A request that comes in.                                                *)
LEMMA OpensHolds ==
  ASSUME BrowsingInv, NEW r \in Tabs, NEW request \in TabRecords, Opens(r, request),
         UNCHANGED <<barred, browser, lifted, orphaned, moment>>,
         request.pc \in {"create", "prove"},
         request.previous # "none" => request.previous \in Browsing /\ browser[request.previous].st # "none",
         request.pc = "prove" => request.next \in Browsing /\ request.previous \in Browsing
  PROVE  BrowsingInv'
<1>1. tab' \in [Tabs -> TabRecords] /\ tab'[r] = request /\ tab[r].pc = "idle" /\ \A q \in Tabs : q # r => tab'[q] = tab[q]
  BY TabTyped DEF Opens
<1>2. BrowsingTyped'
  BY <1>1 DEF BrowsingInv, BrowsingTyped
<1>3. \A q \in Tabs : TabMoves(q) /\ (tab[q].pc \in {"replace", "undo"} => Settles(q))
  BY <1>1 DEF TabMoves, Settles
<1> QED BY <1>2, <1>3, SameBrowser, QuietHolds DEF BrowsingInv

LEMMA SignInHolds ==
  ASSUME BrowsingInv, NEW r \in Tabs, NEW u \in Visitors, NEW previous \in Browsing \cup {"none"},
         NEW query \in Queries \cup {"none"}, SignIn(r, u, previous, query)
  PROVE  BrowsingInv'
<1> DEFINE request == [Closed EXCEPT !.pc = "create", !.of = u, !.previous = previous, !.query = query]
<1>1. request \in TabRecords /\ request.pc = "create" /\ request.previous = previous
  BY ClosedTyped DEF TabRecords
<1>2. Opens(r, request) /\ UNCHANGED <<barred, browser, lifted, orphaned, moment>>
  BY DEF SignIn
<1>3. previous # "none" => previous \in Browsing /\ browser[previous].st # "none"
  BY DEF SignIn, SignedIn
<1> HIDE DEF request
<1> QED BY <1>1, <1>2, <1>3, OpensHolds

LEMMA ReturnHolds ==
  ASSUME BrowsingInv, NEW r \in Tabs, NEW s \in Browsing, NEW proved \in Browsing, NEW query \in Queries,
         ReturnToAuthorize(r, s, proved, query)
  PROVE  BrowsingInv'
<1> DEFINE request == [Closed EXCEPT !.pc = "prove", !.previous = s, !.next = proved, !.query = query]
<1>1. request \in TabRecords /\ request.pc = "prove" /\ request.previous = s /\ request.next = proved
  BY ClosedTyped DEF TabRecords
<1>2. Opens(r, request) /\ UNCHANGED <<barred, browser, lifted, orphaned, moment>>
  BY DEF ReturnToAuthorize
<1>3. browser[s].st # "none"
  BY DEF ReturnToAuthorize, SignedIn
<1> HIDE DEF request
<1> QED BY <1>1, <1>2, <1>3, OpensHolds

(* The steps of a replacement, failures included.                          *)
LEMMA ReplaceHolds ==
  ASSUME BrowsingInv, NEW r \in Tabs, ReplaceSession(r) \/ ReplaceFails(r)
  PROVE  BrowsingInv'
<1>1. tab[r].pc = "replace" /\ tab[r] \in TabRecords /\ tab[r].previous \in Browsing /\ tab \in [Tabs -> TabRecords]
  BY TabTyped DEF ReplaceSession, ReplaceFails, TabHolds
<1>2. PICK pc \in {"undo", "answer"} :
         tab' = [tab EXCEPT ![r] = [tab[r] EXCEPT !.pc = pc]] /\ (pc = "answer" => browser' = RevokedIn(tab[r].previous))
         /\ (pc = "undo" => browser' = browser)
  BY DEF ReplaceSession, ReplaceFails, AfterFailure
<1> DEFINE at == [tab[r] EXCEPT !.pc = pc]
<1>3. at \in TabRecords /\ at.pc = pc /\ at.next = tab[r].next /\ at.previous = tab[r].previous
  BY <1>1 DEF TabRecords
<1>4. tab' = [tab EXCEPT ![r] = at]
  BY <1>2
<1> HIDE DEF at
<1>5. tab' \in [Tabs -> TabRecords] /\ tab'[r] = at /\ \A q \in Tabs : q # r => tab'[q] = tab[q]
  BY <1>1, <1>3, <1>4
<1>6. browser' \in [Browsing -> SessionRows] /\ AtMostRevoked /\ (pc = "answer" => browser'[tab[r].previous].st # "live")
  BY <1>1, <1>2, RevokedInHolds, SameBrowser DEF BrowsingInv, BrowsingTyped
<1>7. lifted' = lifted /\ orphaned' = orphaned /\ barred' = barred /\ moment' = moment
  BY DEF ReplaceSession, ReplaceFails
<1>8. BrowsingTyped'
  BY <1>5, <1>6, <1>7 DEF BrowsingInv, BrowsingTyped
<1>9. \A q \in Tabs : TabMoves(q) /\ (tab[q].pc \in {"replace", "undo"} => Settles(q))
  BY <1>1, <1>2, <1>3, <1>5, <1>6 DEF TabMoves, Settles, Signing
<1> QED BY <1>6, <1>7, <1>8, <1>9, QuietHolds DEF BrowsingInv

LEMMA UndoHolds ==
  ASSUME BrowsingInv, NEW r \in Tabs, UndoSession(r) \/ UndoFails(r)
  PROVE  BrowsingInv'
<1>1. tab[r].pc = "undo" /\ tab[r].next \in Browsing
  BY TabTyped DEF UndoSession, UndoFails, TabHolds, Signing
<1>2. CASE UndoSession(r)
  <2>1. browser' \in [Browsing -> SessionRows] /\ AtMostRevoked /\ browser'[tab[r].next].st # "live"
    BY <1>1, <1>2, RevokedInHolds DEF UndoSession
  <2>2. orphaned \subseteq orphaned' /\ orphaned' \subseteq Browsing
    BY <1>2 DEF UndoSession, BrowsingInv, BrowsingTyped
  <2> QED BY <1>2, <2>1, <2>2, ClosesHolds DEF UndoSession
<1>3. CASE UndoFails(r)
  <2>1. browser' \in [Browsing -> SessionRows] /\ AtMostRevoked
    BY <1>3, SameBrowser DEF UndoFails, BrowsingInv, BrowsingTyped
  <2>2. orphaned \subseteq orphaned' /\ orphaned' \subseteq Browsing /\ tab[r].next \in orphaned'
    BY <1>1, <1>3 DEF UndoFails, BrowsingInv, BrowsingTyped
  <2> QED BY <1>3, <2>1, <2>2, ClosesHolds DEF UndoFails
<1> QED BY <1>2, <1>3

LEMMA EndsHolds ==
  ASSUME BrowsingInv, NEW r \in Tabs, tab[r].pc \notin {"replace", "undo"}, Closes(r),
         UNCHANGED <<barred, browser, lifted, orphaned, moment>>
  PROVE  BrowsingInv'
<1>1. AtMostRevoked /\ browser' \in [Browsing -> SessionRows] /\ orphaned' \subseteq Browsing
  BY SameBrowser DEF BrowsingInv, BrowsingTyped
<1> QED BY <1>1, ClosesHolds

(* Sessions that are revoked from elsewhere.                               *)
LEMMA OutsideHolds ==
  ASSUME BrowsingInv, AtMostRevoked, browser' \in [Browsing -> SessionRows], barred' \subseteq Visitors,
         moment' \in Nat, UNCHANGED <<tab, lifted, orphaned>>
  PROVE  BrowsingInv'
<1>1. BrowsingTyped'
  BY DEF BrowsingInv, BrowsingTyped
<1>2. \A q \in Tabs : TabMoves(q) /\ (tab[q].pc \in {"replace", "undo"} => Settles(q))
  BY DEF TabMoves, Settles
<1> QED BY <1>1, <1>2, QuietHolds DEF BrowsingInv

LEMMA LogoutHolds ==
  ASSUME BrowsingInv, NEW s \in Browsing, Logout(s)
  PROVE  BrowsingInv'
<1>1. AtMostRevoked /\ browser' \in [Browsing -> SessionRows]
  BY RevokedInHolds DEF Logout
<1>2. barred' \subseteq Visitors /\ moment' \in Nat
  BY DEF Logout, BrowsingInv, BrowsingTyped
<1> QED BY <1>1, <1>2, OutsideHolds DEF Logout

LEMMA BarHolds ==
  ASSUME BrowsingInv, NEW u \in Visitors, Bar(u)
  PROVE  BrowsingInv'
<1>1. \A s \in Browsing :
        /\ browser'[s] \in SessionRows
        /\ browser'[s].proof = browser[s].proof /\ browser'[s].replaces = browser[s].replaces
        /\ browser'[s].st = browser[s].st \/ (browser[s].st = "live" /\ browser'[s].st = "revoked")
  <2> SUFFICES ASSUME NEW s \in Browsing
               PROVE  /\ browser'[s] \in SessionRows
                      /\ browser'[s].proof = browser[s].proof /\ browser'[s].replaces = browser[s].replaces
                      /\ browser'[s].st = browser[s].st \/ (browser[s].st = "live" /\ browser'[s].st = "revoked")
    OBVIOUS
  <2>1. browser[s] \in SessionRows
    BY DEF BrowsingInv, BrowsingTyped
  <2>2. CASE browser[s].of = u /\ browser[s].st = "live"
    <3>1. browser'[s] = [browser[s] EXCEPT !.st = "revoked"]
      BY <2>2 DEF Bar
    <3> QED BY <2>1, <2>2, <3>1 DEF SessionRows
  <2>3. CASE ~(browser[s].of = u /\ browser[s].st = "live")
    BY <2>1, <2>3 DEF Bar
  <2> QED BY <2>2, <2>3
<1>2. AtMostRevoked
  BY <1>1 DEF AtMostRevoked
<1>3. browser' \in [Browsing -> SessionRows]
  BY <1>1 DEF Bar
<1>4. barred' \subseteq Visitors /\ moment' \in Nat
  BY DEF Bar, BrowsingInv, BrowsingTyped
<1> QED BY <1>2, <1>3, <1>4, OutsideHolds DEF Bar

LEMMA PassesHolds ==
  ASSUME BrowsingInv, Passes
  PROVE  BrowsingInv'
<1>1. AtMostRevoked /\ browser' \in [Browsing -> SessionRows] /\ barred' \subseteq Visitors /\ moment' \in Nat
  BY SameBrowser DEF Passes, BrowsingInv, BrowsingTyped
<1> QED BY <1>1, OutsideHolds DEF Passes

(* The session is new: no request and no other session refers to it yet.   *)
LEMMA CreateHolds ==
  ASSUME BrowsingInv, NEW r \in Tabs, NEW s \in Browsing, CreateBrowserSession(r, s)
  PROVE  BrowsingInv'
<1>1. /\ tab[r].pc = "create" /\ tab[r] \in TabRecords /\ TabHolds(r) /\ tab \in [Tabs -> TabRecords]
      /\ browser \in [Browsing -> SessionRows] /\ browser[s].st = "none" /\ moment \in Nat
  BY TabTyped DEF CreateBrowserSession, BrowsingInv, BrowsingTyped
<1> DEFINE row == [NoBrowser EXCEPT !.st = "live", !.of = tab[r].of, !.replaces = tab[r].previous]
           at  == [tab[r] EXCEPT !.next = s, !.pc = IF tab[r].previous # "none" THEN "replace" ELSE "answer"]
<1>2. row \in SessionRows /\ row.st = "live" /\ row.replaces = tab[r].previous /\ row.proof.st = "none"
  BY <1>1 DEF SessionRows, NoBrowser, NoProof, TabRecords
<1>3. at \in TabRecords /\ at.next = s /\ at.previous = tab[r].previous
      /\ at.pc = (IF tab[r].previous # "none" THEN "replace" ELSE "answer")
  BY <1>1 DEF TabRecords
<1>4. browser' = [browser EXCEPT ![s] = row] /\ tab' = [tab EXCEPT ![r] = at]
  BY DEF CreateBrowserSession
<1> HIDE DEF row, at
<1>5. /\ browser' \in [Browsing -> SessionRows] /\ browser'[s] = row /\ \A t \in Browsing : t # s => browser'[t] = browser[t]
      /\ tab' \in [Tabs -> TabRecords] /\ tab'[r] = at /\ \A q \in Tabs : q # r => tab'[q] = tab[q]
  BY <1>1, <1>2, <1>3, <1>4
<1>6. lifted' = lifted /\ orphaned' = orphaned /\ barred' = barred /\ moment' = moment
  BY DEF CreateBrowserSession
<1>7. BrowsingTyped'
  BY <1>5, <1>6 DEF BrowsingInv, BrowsingTyped
<1>8. at.previous # "none" => at.previous \in Browsing /\ at.previous # s /\ browser[at.previous].st # "none"
  BY <1>1, <1>3 DEF TabHolds
<1>9. ASSUME NEW q \in Tabs PROVE TabHolds(q)'
  <2>1. CASE q = r
    BY <1>2, <1>3, <1>5, <1>8, <2>1 DEF TabHolds, Signing
  <2>2. CASE q # r
    <3>1. TabHolds(q)
      BY DEF BrowsingInv, SessionsHold
    <3> QED BY <1>1, <1>5, <2>2, <3>1 DEF TabHolds, Signing
  <2> QED BY <2>1, <2>2
<1>10. Apart'
  <2>1. \A q \in Tabs : q # r /\ Signing(q) => tab[q].next # s
    BY <1>1 DEF BrowsingInv, SessionsHold, TabHolds
  <2> QED BY <1>3, <1>5, <2>1 DEF BrowsingInv, SessionsHold, Apart, Signing
<1>11. ASSUME NEW t \in Browsing PROVE SessionHolds(t)'
  <2>1. SessionHolds(t)
    BY DEF BrowsingInv, SessionsHold
  <2>2. CASE t = s
    <3>1. lifted'[t].times = 0
      BY <1>1, <1>6, <2>1, <2>2 DEF SessionHolds
    <3>2. browser'[t].replaces # "none" => Replacing(t)'
      BY <1>2, <1>3, <1>5, <2>2 DEF Replacing
    <3> QED BY <1>2, <1>3, <1>5, <1>8, <2>2, <3>1, <3>2 DEF SessionHolds
  <2>3. CASE t # s
    <3>1. browser'[t] = browser[t]
      BY <1>5, <2>3
    <3>2. browser[t].replaces # "none" =>
            browser[t].replaces \in Browsing /\ browser'[browser[t].replaces] = browser[browser[t].replaces]
      BY <1>1, <1>5, <2>1 DEF SessionHolds
    <3>3. Replacing(t) => Replacing(t)'
      BY <1>1, <1>5 DEF Replacing
    <3> QED BY <1>6, <2>1, <3>1, <3>2, <3>3 DEF SessionHolds, Valid
  <2> QED BY <2>2, <2>3
<1> QED BY <1>7, <1>9, <1>10, <1>11 DEF BrowsingInv, SessionsHold

(* Only the proof of one session changes, and lifted with it.              *)
LEMMA ProofChanges ==
  ASSUME BrowsingInv, NEW s \in Browsing, NEW row \in SessionRows, NEW r \in Tabs, Closes(r),
         tab[r].pc \in {"answer", "prove"},
         browser' = [browser EXCEPT ![s] = row], row.st = browser[s].st, row.replaces = browser[s].replaces,
         browser[s].st # "none", UNCHANGED <<barred, orphaned, moment>>, lifted' \in [Browsing -> Lifts],
         \A t \in Browsing : t # s => lifted'[t] = lifted[t],
         lifted'[s].times # 0 => lifted'[s].times = 1 /\ row.proof.st = "used" /\ lifted'[s].query = row.proof.query,
         \A q \in Tabs : q # r /\ Signing(q) => tab[q].next # s
  PROVE  BrowsingInv'
<1>1. /\ browser' \in [Browsing -> SessionRows] /\ browser'[s] = row /\ \A t \in Browsing : t # s => browser'[t] = browser[t]
      /\ \A t \in Browsing : browser'[t].st = browser[t].st /\ browser'[t].replaces = browser[t].replaces
  BY DEF BrowsingInv, BrowsingTyped
<1>2. tab' \in [Tabs -> TabRecords] /\ tab'[r].pc = "idle" /\ \A q \in Tabs : q # r => tab'[q] = tab[q]
  BY TabTyped, ClosedTyped DEF Closes, Closed
<1>3. BrowsingTyped'
  BY <1>1, <1>2 DEF BrowsingInv, BrowsingTyped
<1>4. ASSUME NEW q \in Tabs PROVE TabHolds(q)'
  <2>1. TabHolds(q)
    BY DEF BrowsingInv, SessionsHold
  <2> QED BY <1>1, <1>2, <2>1 DEF TabHolds, Signing
<1>5. Apart'
  BY <1>2 DEF BrowsingInv, SessionsHold, Apart, Signing
<1>6. ASSUME NEW t \in Browsing PROVE SessionHolds(t)'
  <2>1. SessionHolds(t)
    BY DEF BrowsingInv, SessionsHold
  <2>2. Replacing(t) => Replacing(t)'
    BY <1>2 DEF Replacing
  <2>3. lifted'[t].times # 0 => /\ lifted'[t].times = 1 /\ browser'[t].proof.st = "used"
                                /\ lifted'[t].query = browser'[t].proof.query
    BY <1>1, <2>1 DEF SessionHolds
  <2>4. browser'[t].st = "none" => browser'[t].proof.st = "none"
    BY <1>1, <2>1 DEF SessionHolds
  <2> QED BY <1>1, <2>1, <2>2, <2>3, <2>4 DEF SessionHolds, Valid
<1> QED BY <1>3, <1>4, <1>5, <1>6 DEF BrowsingInv, SessionsHold

(* The session has no proof yet, so that no request has been let past.     *)
LEMMA AnswerHolds ==
  ASSUME BrowsingInv, NEW r \in Tabs, AnswerLogin(r)
  PROVE  BrowsingInv'
<1>1. tab[r].pc = "answer" /\ tab[r] \in TabRecords /\ Closes(r) /\ TabHolds(r)
      /\ UNCHANGED <<barred, lifted, orphaned, moment>>
  BY TabTyped DEF AnswerLogin
<1>2. CASE tab[r].query = "none"
  BY <1>1, <1>2, EndsHolds DEF AnswerLogin
<1>3. CASE tab[r].query # "none"
  <2>1. PICK s \in Browsing : s = tab[r].next /\ browser[s].st # "none" /\ browser[s].proof.st = "none"
    BY <1>1 DEF TabHolds, Signing
  <2> DEFINE proof == [st |-> "open", query |-> tab[r].query, until |-> moment + ProofTtl]
             row   == [browser[s] EXCEPT !.proof = proof]
  <2>2. browser \in [Browsing -> SessionRows] /\ browser[s] \in SessionRows /\ moment \in Nat
        /\ lifted \in [Browsing -> Lifts] /\ SessionHolds(s)
    BY DEF BrowsingInv, BrowsingTyped, SessionsHold
  <2>3. proof \in [st : {"none", "open", "used"}, query : Queries \cup {"none"}, until : Nat]
    BY <1>1, <2>2, ReauthenticationAssumption DEF TabRecords
  <2>4. browser' = [browser EXCEPT ![s] = row]
    BY <1>3, <2>1 DEF AnswerLogin
  <2> HIDE DEF proof
  <2>5. row \in SessionRows /\ row.st = browser[s].st /\ row.replaces = browser[s].replaces
    BY <2>2, <2>3 DEF SessionRows
  <2> HIDE DEF row
  <2>6. lifted'[s].times = 0
    BY <1>1, <2>1, <2>2 DEF SessionHolds
  <2>7. \A q \in Tabs : q # r /\ Signing(q) => tab[q].next # s
    BY <1>1, <2>1 DEF BrowsingInv, SessionsHold, Apart, Signing
  <2> QED BY <1>1, <2>1, <2>2, <2>4, <2>5, <2>6, <2>7, ProofChanges
<1> QED BY <1>2, <1>3

(* The proof is open, so that this is the first request that is let past.   *)
LEMMA ConsumeHolds ==
  ASSUME BrowsingInv, NEW r \in Tabs, ConsumeProof(r)
  PROVE  BrowsingInv'
<1>1. tab[r].pc = "prove" /\ tab[r] \in TabRecords /\ Closes(r) /\ TabHolds(r)
      /\ UNCHANGED <<barred, orphaned, moment>>
  BY TabTyped DEF ConsumeProof
<1>2. CASE ~ProofHolds(r)
  BY <1>1, <1>2, EndsHolds DEF ConsumeProof
<1>3. CASE ProofHolds(r)
  <2>1. PICK s \in Browsing : s = tab[r].next /\ s = tab[r].previous /\ browser[s].proof.st = "open"
                              /\ browser[s].proof.query = tab[r].query
    BY <1>1, <1>3 DEF TabHolds, ProofHolds
  <2>2. browser \in [Browsing -> SessionRows] /\ browser[s] \in SessionRows
        /\ lifted \in [Browsing -> Lifts] /\ SessionHolds(s)
    BY DEF BrowsingInv, BrowsingTyped, SessionsHold
  <2>3. lifted[s].times = 0 /\ browser[s].st # "none"
    BY <2>1, <2>2 DEF SessionHolds
  <2> DEFINE proof == [browser[s].proof EXCEPT !.st = "used"]
             row   == [browser[s] EXCEPT !.proof = proof]
             lift  == [times |-> lifted[s].times + 1, query |-> tab[r].query]
  <2>4. proof \in [st : {"none", "open", "used"}, query : Queries \cup {"none"}, until : Nat]
        /\ proof.st = "used" /\ proof.query = tab[r].query
    BY <2>1, <2>2 DEF SessionRows
  <2>5. browser' = [browser EXCEPT ![s] = row] /\ lifted' = [lifted EXCEPT ![s] = lift]
    BY <1>3, <2>1 DEF ConsumeProof
  <2>6. lift \in Lifts /\ lift.times = 1 /\ lift.query = tab[r].query
    BY <1>1, <2>3 DEF Lifts, TabRecords
  <2> HIDE DEF proof, lift
  <2>7. row \in SessionRows /\ row.st = browser[s].st /\ row.replaces = browser[s].replaces /\ row.proof = proof
    BY <2>2, <2>4 DEF SessionRows
  <2> HIDE DEF row
  <2>8. \A q \in Tabs : q # r /\ Signing(q) => tab[q].next # s
    BY <2>1 DEF BrowsingInv, SessionsHold, TabHolds
  <2>9. lifted' \in [Browsing -> Lifts] /\ lifted'[s] = lift /\ \A t \in Browsing : t # s => lifted'[t] = lifted[t]
    BY <2>2, <2>5, <2>6
  <2> QED BY <1>1, <2>3, <2>4, <2>5, <2>6, <2>7, <2>8, <2>9, ProofChanges
<1> QED BY <1>2, <1>3

LEMMA BrowsingInvariant == ReauthenticationSpec => []BrowsingInv
<1>1. ReauthenticationInit => BrowsingInv
  <2> SUFFICES ASSUME ReauthenticationInit PROVE BrowsingInv
    OBVIOUS
  <2>1. PICK s \in Browsing, u \in Visitors :
          browser = [t \in Browsing |-> IF t = s THEN [NoBrowser EXCEPT !.st = "live", !.of = u] ELSE NoBrowser]
    BY DEF ReauthenticationInit
  <2> DEFINE row == [NoBrowser EXCEPT !.st = "live", !.of = u]
  <2>2. row \in SessionRows /\ row.replaces = "none" /\ row.proof.st = "none"
    BY DEF NoBrowser, NoProof, SessionRows
  <2>3. NoBrowser \in SessionRows /\ NoBrowser.replaces = "none" /\ NoBrowser.proof.st = "none"
    BY DEF NoBrowser, NoProof, SessionRows
  <2>4. browser = [t \in Browsing |-> IF t = s THEN row ELSE NoBrowser]
    BY <2>1
  <2> HIDE DEF row
  <2>5. browser \in [Browsing -> SessionRows] /\ \A t \in Browsing : browser[t].replaces = "none" /\ browser[t].proof.st = "none"
    BY <2>2, <2>3, <2>4
  <2>6. tab \in [Tabs -> TabRecords] /\ \A r \in Tabs : tab[r].pc = "idle"
    BY ClosedTyped DEF ReauthenticationInit, Closed
  <2>7. lifted \in [Browsing -> Lifts] /\ \A t \in Browsing : lifted[t].times = 0
    BY DEF ReauthenticationInit, Lifts
  <2>8. BrowsingTyped
    BY <2>5, <2>6, <2>7 DEF ReauthenticationInit, BrowsingTyped
  <2>9. SessionsHold
    BY <2>5, <2>6, <2>7 DEF SessionsHold, SessionHolds, TabHolds, Apart, Signing
  <2> QED BY <2>8, <2>9 DEF BrowsingInv
<1>2. BrowsingInv /\ [ReauthenticationNext]_reauthenticationVars => BrowsingInv'
  <2> SUFFICES ASSUME BrowsingInv, [ReauthenticationNext]_reauthenticationVars PROVE BrowsingInv'
    OBVIOUS
  <2>1. ASSUME NEW r \in Tabs, SessionRefused(r) \/ AnswerFails(r) PROVE BrowsingInv'
    <3>1. tab[r].pc \notin {"replace", "undo"} /\ Closes(r) /\ UNCHANGED <<barred, browser, lifted, orphaned, moment>>
      BY <2>1 DEF SessionRefused, AnswerFails
    <3> QED BY <3>1, EndsHolds
  <2>2. ASSUME NEW s \in Browsing, NEW hinted \in Visitors \cup {"nobody"}, EndSession(s, hinted) PROVE BrowsingInv'
    BY <2>2, LogoutHolds DEF EndSession
  <2>3. CASE UNCHANGED reauthenticationVars
    <3>1. AtMostRevoked /\ browser' \in [Browsing -> SessionRows] /\ barred' \subseteq Visitors /\ moment' \in Nat
      BY <2>3, SameBrowser DEF reauthenticationVars, BrowsingInv, BrowsingTyped
    <3> QED BY <2>3, <3>1, OutsideHolds DEF reauthenticationVars
  <2> QED BY <2>1, <2>2, <2>3, SignInHolds, CreateHolds, ReplaceHolds, UndoHolds, AnswerHolds, ConsumeHolds,
             ReturnHolds, LogoutHolds, BarHolds, PassesHolds DEF ReauthenticationNext
<1> QED BY <1>1, <1>2, PTL DEF ReauthenticationSpec

(* The sessions of browsers and the requests in progress keep their types.  *)
THEOREM BrowsingIsTyped == ReauthenticationSpec => []ReauthenticationTypeOK
<1>1. BrowsingInv => ReauthenticationTypeOK
  BY DEF BrowsingInv, BrowsingTyped, SessionRows, TabRecords, ReauthenticationTypeOK
<1> QED BY <1>1, BrowsingInvariant, PTL

(* A login lifts prompt=login and max_age once, for its own request and     *)
(* session, and signing in again leaves one of the two sessions, however    *)
(* logins, continuations, sign-outs, failures and bans interleave.          *)
THEOREM OneLoginOneLift == ReauthenticationSpec => []ReauthenticationHolds
<1>1. BrowsingInv => ReauthenticationHolds
  <2> SUFFICES ASSUME BrowsingInv, NEW s \in Browsing
               PROVE  /\ lifted[s].times <= 1 /\ (lifted[s].times = 1 => lifted[s].query = browser[s].proof.query)
                      /\ browser[s].st = "live" /\ browser[s].replaces # "none" /\ browser[browser[s].replaces].st = "live"
                           => Replacing(s) \/ s \in orphaned
    BY DEF ReauthenticationHolds
  <2>1. SessionHolds(s) /\ lifted[s].times \in Nat
    BY DEF BrowsingInv, BrowsingTyped, SessionsHold, Lifts
  <2> QED BY <2>1 DEF SessionHolds, Valid
<1> QED BY <1>1, BrowsingInvariant, PTL

-----------------------------------------------------------------------------
(* Passkeys.                                                               *)

Enrolments == Keys \cup Ceremonies \cup {"none"}
PasskeyRows == [of : People \cup {Nobody}, counter : 0..MaxCount, via : Enrolments]
CeremonyRows ==
  [st : {"none", "stored", "consumed", "gone"}, kind : {"registration", "authentication"},
   of : People \cup {Nobody}, until : Nat]
HandlerRecords ==
  [pc : {"idle", "register", "assert", "counter", "owner", "create"}, of : People \cup {Nobody},
   via : Ceremonies \cup {"none"}, key : Keys \cup {"none"}, enrolment : Enrolments,
   read : 0..MaxCount, count : 0..MaxCount]
Entries == [via : Ceremonies, enrolment : Enrolments, count : 0..MaxCount, by : Responses]

CeremonyTyped ==
  /\ passkey \in [Keys -> PasskeyRows] /\ ceremony \in [Ceremonies -> CeremonyRows]
  /\ handler \in [Responses -> HandlerRecords] /\ entered \subseteq Entries /\ instant \in Nat
  /\ disabled \subseteq People /\ DOMAIN since \subseteq People /\ DOMAIN since \cap disabled = {}

(* A ceremony that was answered, or that has expired; what a row stems from; *)
(* a request that has taken a ceremony; one that has advanced a counter.    *)
AnsweredBefore(c) == c \in Ceremonies /\ ceremony[c].st \in {"consumed", "gone"}
Enrolled(e) == e \in Keys \/ AnsweredBefore(e)
Active(r) == handler[r].pc # "idle"
Won(r) == handler[r].pc \in {"owner", "create"}

HandlerHolds(r) ==
  /\ Active(r) => AnsweredBefore(handler[r].via)
  /\ handler[r].pc \in {"register", "counter", "owner", "create"} => handler[r].of \in People
  /\ handler[r].pc = "counter" => handler[r].key \in Keys /\ Advances(handler[r].read, handler[r].count)
  /\ Won(r) => Enrolled(handler[r].enrolment)

RowHolds(k) == passkey[k] # NoKey => Enrolled(passkey[k].via) /\ passkey[k].of \in People

EntryHolds(x) == AnsweredBefore(x.via) /\ Enrolled(x.enrolment)

(* The ceremony of a request is nobody else's: no other request, row or     *)
(* login stems from it.                                                    *)
OwnsCeremony(r) ==
  /\ \A q \in Responses : q # r /\ Active(q) => handler[q].via # handler[r].via
  /\ \A q \in Responses : Won(q) => handler[q].enrolment # handler[r].via
  /\ \A x \in entered : x.via # handler[r].via /\ x.enrolment # handler[r].via
  /\ \A k \in Keys : passkey[k].via # handler[r].via

RowsApart == \A k, l \in Keys : k # l /\ passkey[k] # NoKey => passkey[k].via # passkey[l].via

EntriesApart ==
  /\ \A x, y \in entered : x # y => x.via # y.via
  /\ \A x \in entered, k \in Keys : passkey[k].via # x.via

(* A row's counter is that of the last login that advanced it.             *)
CountsKept ==
  \A k \in Keys :
    /\ \A x \in entered : x.enrolment = passkey[k].via => x.count <= passkey[k].counter
    /\ \A r \in Responses : Won(r) /\ handler[r].enrolment = passkey[k].via => handler[r].count <= passkey[k].counter

Differ(e, n, f, m) == e # f \/ n # m \/ n = 0

CountsDiffer ==
  /\ \A x, y \in entered : x # y => Differ(x.enrolment, x.count, y.enrolment, y.count)
  /\ \A x \in entered, r \in Responses :
       Won(r) => Differ(x.enrolment, x.count, handler[r].enrolment, handler[r].count)
  /\ \A q, r \in Responses :
       q # r /\ Won(q) /\ Won(r) => Differ(handler[q].enrolment, handler[q].count, handler[r].enrolment, handler[r].count)

CeremoniesApart ==
  /\ \A r \in Responses : HandlerHolds(r) /\ (Active(r) => OwnsCeremony(r))
  /\ \A k \in Keys : RowHolds(k)
  /\ \A x \in entered : EntryHolds(x)
  /\ RowsApart /\ EntriesApart /\ CountsKept /\ CountsDiffer

CeremonyInv == CeremonyTyped /\ CeremoniesApart

(* Ceremonies never come back.                                             *)
NoneComesBack == \A c \in Ceremonies : AnsweredBefore(c) => AnsweredBefore(c)'

(* A request ends, goes on, or takes a ceremony that nobody has answered.   *)
HandlerMoves(r) ==
  \/ handler'[r] = handler[r] \/ handler'[r].pc = "idle"
  \/ /\ handler[r].pc = "assert" /\ handler'[r].pc = "counter" /\ handler'[r].via = handler[r].via
     /\ handler'[r].key \in Keys /\ handler'[r].of \in People /\ Advances(handler'[r].read, handler'[r].count)
  \/ /\ handler[r].pc = "owner" /\ handler'[r].pc = "create" /\ handler'[r].via = handler[r].via
     /\ handler'[r].enrolment = handler[r].enrolment /\ handler'[r].count = handler[r].count
     /\ handler'[r].of = handler[r].of
  \/ /\ handler'[r].pc \in {"register", "assert"} /\ handler'[r].via \in Ceremonies
     /\ (handler'[r].pc = "register" => handler'[r].of \in People)
     /\ ceremony[handler'[r].via].st = "stored" /\ ceremony'[handler'[r].via].st \in {"consumed", "gone"}
     /\ \A q \in Responses : q # r => handler'[q] = handler[q]

LEMMA QuietCeremonies ==
  ASSUME CeremonyInv, CeremonyTyped', NoneComesBack, UNCHANGED <<passkey, entered>>,
         \A r \in Responses : HandlerMoves(r)
  PROVE  CeremonyInv'
<1>1. \A e \in Enrolments : Enrolled(e) => Enrolled(e)'
  BY DEF NoneComesBack, Enrolled, AnsweredBefore
<1>2. ASSUME NEW r \in Responses PROVE HandlerHolds(r)'
  <2>1. HandlerHolds(r) /\ HandlerMoves(r) /\ handler[r] \in HandlerRecords /\ handler'[r] \in HandlerRecords
    BY DEF CeremonyInv, CeremoniesApart, CeremonyTyped
  <2>2. Active(r)' => AnsweredBefore(handler[r].via)'
    BY <2>1 DEF HandlerHolds, HandlerMoves, Active, AnsweredBefore, NoneComesBack
  <2>3. Won(r)' => Won(r) /\ handler'[r].enrolment = handler[r].enrolment
    BY <2>1 DEF HandlerMoves, Won
  <2>4. Won(r)' => Enrolled(handler[r].enrolment)'
    BY <1>1, <2>1, <2>3 DEF HandlerHolds, HandlerRecords, Enrolled, AnsweredBefore
  <2>5. handler'[r].pc \in {"register", "counter", "owner", "create"} => handler'[r].of \in People
    BY <2>1 DEF HandlerHolds, HandlerMoves
  <2>6. handler'[r].pc = "counter" => handler'[r].key \in Keys /\ Advances(handler'[r].read, handler'[r].count)
    BY <2>1 DEF HandlerHolds, HandlerMoves
  <2> QED BY <2>2, <2>4, <2>5, <2>6 DEF HandlerHolds
<1>3. \A r \in Responses : Won(r)' => Won(r) /\ handler'[r].enrolment = handler[r].enrolment /\ handler'[r].count = handler[r].count
  BY DEF HandlerMoves, Won
<1>4. ASSUME NEW k \in Keys PROVE RowHolds(k)'
  <2>1. RowHolds(k) /\ passkey[k].via \in Enrolments
    BY DEF CeremonyInv, CeremoniesApart, CeremonyTyped, PasskeyRows
  <2> QED BY <1>1, <2>1 DEF RowHolds, Enrolled, AnsweredBefore
<1>5. ASSUME NEW x \in entered PROVE EntryHolds(x)'
  <2>1. EntryHolds(x) /\ x.via \in Enrolments /\ x.enrolment \in Enrolments
    BY DEF CeremonyInv, CeremoniesApart, CeremonyTyped, Entries, Enrolments
  <2> QED BY <1>1, <2>1 DEF EntryHolds, Enrolled, AnsweredBefore, NoneComesBack
<1>6. RowsApart' /\ EntriesApart'
  BY DEF CeremonyInv, CeremoniesApart, RowsApart, EntriesApart
<1>7. CountsKept'
  BY <1>3 DEF CeremonyInv, CeremoniesApart, CountsKept
<1>8. CountsDiffer'
  BY <1>3 DEF CeremonyInv, CeremoniesApart, CountsDiffer
<1>9. ASSUME NEW r \in Responses, Active(r)' PROVE OwnsCeremony(r)'
  <2>1. CASE Active(r) /\ handler'[r].via = handler[r].via
    <3>1. OwnsCeremony(r) /\ AnsweredBefore(handler[r].via)
      BY <2>1 DEF CeremonyInv, CeremoniesApart, HandlerHolds
    <3>2. ASSUME NEW q \in Responses, q # r, Active(q)' PROVE handler'[q].via # handler[r].via
      <4>1. HandlerMoves(q)
        OBVIOUS
      <4>2. CASE Active(q) /\ handler'[q].via = handler[q].via
        BY <3>1, <3>2, <4>2 DEF OwnsCeremony
      <4>3. CASE ceremony[handler'[q].via].st = "stored"
        BY <3>1, <4>3 DEF AnsweredBefore
      <4> QED BY <3>2, <4>1, <4>2, <4>3 DEF HandlerMoves, Active
    <3> QED BY <1>3, <2>1, <3>1, <3>2 DEF OwnsCeremony
  <2>2. CASE handler'[r].via \in Ceremonies /\ ceremony[handler'[r].via].st = "stored"
             /\ \A q \in Responses : q # r => handler'[q] = handler[q]
    <3>1. PICK c \in Ceremonies : c = handler'[r].via /\ ceremony[c].st = "stored"
      BY <2>2
    <3>2. ~Enrolled(c) /\ ~AnsweredBefore(c) /\ c # "none"
      BY <3>1, PasskeysAssumption DEF Enrolled, AnsweredBefore
    <3>3. \A q \in Responses : q # r /\ Active(q)' => handler'[q].via # c
      BY <2>2, <3>2 DEF CeremonyInv, CeremoniesApart, HandlerHolds, Active
    <3>4. \A q \in Responses : Won(q)' => handler'[q].enrolment # c
      BY <1>3, <3>2 DEF CeremonyInv, CeremoniesApart, HandlerHolds
    <3>5. \A x \in entered : x.via # c /\ x.enrolment # c
      BY <3>2 DEF CeremonyInv, CeremoniesApart, EntryHolds
    <3>6. \A k \in Keys : passkey[k].via # c
      BY <3>2 DEF CeremonyInv, CeremoniesApart, RowHolds, NoKey
    <3> QED BY <3>1, <3>3, <3>4, <3>5, <3>6 DEF OwnsCeremony
  <2> QED BY <1>9, <2>1, <2>2 DEF HandlerMoves, Active
<1> QED BY <1>2, <1>4, <1>5, <1>6, <1>7, <1>8, <1>9 DEF CeremonyInv, CeremoniesApart

LEMMA IdleTyped == Idle \in HandlerRecords /\ Idle.pc = "idle"
<1>1. 0 \in 0..MaxCount
  BY PasskeysAssumption
<1> QED BY <1>1 DEF Idle, HandlerRecords, Nobody, Enrolments

(* What one step does to the ceremonies.                                   *)
LEMMA CeremonyStep ==
  ASSUME CeremonyInv, NEW c \in Ceremonies, NEW row \in CeremonyRows, ceremony' = [ceremony EXCEPT ![c] = row],
         ceremony[c].st \in {"consumed", "gone"} => row.st \in {"consumed", "gone"}
  PROVE  ceremony' \in [Ceremonies -> CeremonyRows] /\ NoneComesBack /\ ceremony'[c].st = row.st
BY DEF CeremonyInv, CeremonyTyped, NoneComesBack, AnsweredBefore

LEMMA StoreStep ==
  ASSUME CeremonyInv, NEW c \in Ceremonies, NEW kind \in {"registration", "authentication"},
         NEW u \in People \cup {Nobody}, Store(c, kind, u)
  PROVE  ceremony' \in [Ceremonies -> CeremonyRows] /\ NoneComesBack
<1> DEFINE row == [st |-> "stored", kind |-> kind, of |-> u, until |-> instant + CeremonyTtl]
<1>1. row \in CeremonyRows
  BY PasskeysAssumption DEF CeremonyRows, CeremonyInv, CeremonyTyped
<1>2. ceremony' = [ceremony EXCEPT ![c] = row] /\ ceremony[c].st = "none"
  BY DEF Store
<1> HIDE DEF row
<1> QED BY <1>1, <1>2, CeremonyStep

LEMMA StatusStep ==
  ASSUME CeremonyInv, NEW c \in Ceremonies, NEW st \in {"none", "stored", "consumed", "gone"},
         ceremony' = [ceremony EXCEPT ![c].st = st],
         ceremony[c].st \in {"consumed", "gone"} => st \in {"consumed", "gone"}
  PROVE  ceremony' \in [Ceremonies -> CeremonyRows] /\ NoneComesBack /\ ceremony'[c].st = st
<1> DEFINE row == [ceremony[c] EXCEPT !.st = st]
<1>1. row \in CeremonyRows /\ row.st = st
  BY DEF CeremonyRows, CeremonyInv, CeremonyTyped
<1>2. ceremony' = [ceremony EXCEPT ![c] = row]
  OBVIOUS
<1> HIDE DEF row
<1> QED BY <1>1, <1>2, CeremonyStep

LEMMA SpentStep ==
  ASSUME CeremonyInv, NEW c \in Ceremonies, ceremony' = Spent(c)
  PROVE  /\ ceremony' \in [Ceremonies -> CeremonyRows] /\ NoneComesBack
         /\ \A kind : Found(c, kind) => ceremony[c].st = "stored" /\ ceremony'[c].st = "consumed"
<1>1. ceremony[c] \in CeremonyRows /\ instant \in Nat
  BY DEF CeremonyInv, CeremonyTyped
<1> DEFINE st == IF ceremony[c].st # "stored" THEN ceremony[c].st
                 ELSE IF instant > ceremony[c].until THEN "gone" ELSE "consumed"
<1>2. st \in {"none", "stored", "consumed", "gone"} /\ (ceremony[c].st \in {"consumed", "gone"} => st \in {"consumed", "gone"})
  BY <1>1 DEF CeremonyRows
<1>3. \A kind : Found(c, kind) => ceremony[c].st = "stored" /\ st = "consumed"
  BY <1>1 DEF Found, CeremonyRows
<1>4. ceremony' = [ceremony EXCEPT ![c].st = st]
  BY DEF Spent
<1> HIDE DEF st
<1> QED BY <1>2, <1>3, <1>4, StatusStep

(* One request steps, and the ceremonies at most with it.                  *)
LEMMA HandlerStep ==
  ASSUME CeremonyInv, NEW r \in Responses, NEW h \in HandlerRecords, handler' = [handler EXCEPT ![r] = h],
         handler'[r] = h => HandlerMoves(r),
         ceremony' \in [Ceremonies -> CeremonyRows], NoneComesBack,
         UNCHANGED <<disabled, since, passkey, entered, instant>>
  PROVE  CeremonyInv'
<1>1. handler' \in [Responses -> HandlerRecords] /\ handler'[r] = h /\ \A q \in Responses : q # r => handler'[q] = handler[q]
  BY DEF CeremonyInv, CeremonyTyped
<1>2. CeremonyTyped'
  BY <1>1 DEF CeremonyInv, CeremonyTyped
<1>3. \A q \in Responses : HandlerMoves(q)
  BY <1>1 DEF HandlerMoves
<1> QED BY <1>2, <1>3, QuietCeremonies

LEMMA SameCeremony ==
  ASSUME CeremonyInv, ceremony' = ceremony
  PROVE  ceremony' \in [Ceremonies -> CeremonyRows] /\ NoneComesBack
BY DEF CeremonyInv, CeremonyTyped, NoneComesBack, AnsweredBefore

LEMMA DoneHolds ==
  ASSUME CeremonyInv, NEW r \in Responses, Done(r), UNCHANGED <<disabled, since, passkey, ceremony, entered, instant>>
  PROVE  CeremonyInv'
<1>1. handler'[r] = Idle => HandlerMoves(r)
  BY IdleTyped DEF HandlerMoves
<1> QED BY <1>1, SameCeremony, IdleTyped, HandlerStep DEF Done

(* A request that answers a ceremony.                                      *)
LEMMA TakesHolds ==
  ASSUME CeremonyInv, NEW r \in Responses, NEW c \in Ceremonies, NEW h \in HandlerRecords, Begin(r, h), ceremony' = Spent(c),
         \/ h.pc = "idle"
         \/ /\ h.pc \in {"register", "assert"} /\ h.via = c /\ (h.pc = "register" => h.of \in People)
            /\ \E kind \in {"registration", "authentication"} : Found(c, kind),
         UNCHANGED <<disabled, since, passkey, entered, instant>>
  PROVE  CeremonyInv'
<1>1. ceremony' \in [Ceremonies -> CeremonyRows] /\ NoneComesBack
  BY SpentStep
<1>2. h.pc # "idle" => ceremony[c].st = "stored" /\ ceremony'[c].st = "consumed"
  BY SpentStep
<1>3. handler' = [handler EXCEPT ![r] = h] /\ \A q \in Responses : q # r => handler'[q] = handler[q]
  BY DEF Begin, CeremonyInv, CeremonyTyped
<1>4. handler'[r] = h => HandlerMoves(r)
  BY <1>2, <1>3 DEF HandlerMoves
<1> QED BY <1>1, <1>3, <1>4, HandlerStep

LEMMA RegisterConsumeHolds ==
  ASSUME CeremonyInv, NEW r \in Responses, NEW u \in People, NEW c \in Ceremonies, RegisterConsume(r, u, c)
  PROVE  CeremonyInv'
<1> DEFINE h == [Idle EXCEPT !.pc = "register", !.of = u, !.via = c]
<1>1. h \in HandlerRecords /\ h.pc = "register" /\ h.of = u /\ h.via = c
  BY IdleTyped DEF HandlerRecords
<1>2. CASE Found(c, "registration") /\ ceremony[c].of = u
  <2>1. Begin(r, h) /\ ceremony' = Spent(c) /\ UNCHANGED <<disabled, since, passkey, entered, instant>>
    BY <1>2 DEF RegisterConsume
  <2> HIDE DEF h
  <2> QED BY <1>1, <1>2, <2>1, TakesHolds
<1>3. CASE ~(Found(c, "registration") /\ ceremony[c].of = u)
  <2>1. Begin(r, Idle) /\ ceremony' = Spent(c) /\ UNCHANGED <<disabled, since, passkey, entered, instant>>
    BY <1>3 DEF RegisterConsume
  <2> QED BY <2>1, IdleTyped, TakesHolds
<1> QED BY <1>2, <1>3

LEMMA LoginConsumeHolds ==
  ASSUME CeremonyInv, NEW r \in Responses, NEW c \in Ceremonies, LoginConsume(r, c)
  PROVE  CeremonyInv'
<1> DEFINE h == [Idle EXCEPT !.pc = "assert", !.via = c]
<1>1. h \in HandlerRecords /\ h.pc = "assert" /\ h.via = c
  BY IdleTyped DEF HandlerRecords
<1>2. CASE Found(c, "authentication")
  <2>1. Begin(r, h) /\ ceremony' = Spent(c) /\ UNCHANGED <<disabled, since, passkey, entered, instant>>
    BY <1>2 DEF LoginConsume
  <2> HIDE DEF h
  <2> QED BY <1>1, <1>2, <2>1, TakesHolds
<1>3. CASE ~Found(c, "authentication")
  <2>1. Begin(r, Idle) /\ ceremony' = Spent(c) /\ UNCHANGED <<disabled, since, passkey, entered, instant>>
    BY <1>3 DEF LoginConsume
  <2> QED BY <2>1, IdleTyped, TakesHolds
<1> QED BY <1>2, <1>3

LEMMA ReadCredentialHolds ==
  ASSUME CeremonyInv, NEW r \in Responses, NEW k \in Keys, NEW n \in 0..MaxCount, ReadCredential(r, k, n)
  PROVE  CeremonyInv'
<1>1. handler[r] \in HandlerRecords /\ passkey[k] \in PasskeyRows /\ RowHolds(k) /\ handler[r].pc = "assert"
  BY DEF ReadCredential, CeremonyInv, CeremonyTyped, CeremoniesApart
<1>2. passkey[k].of \in People /\ Advances(passkey[k].counter, n)
  BY <1>1 DEF ReadCredential, RowHolds
<1> DEFINE h == [handler[r] EXCEPT !.pc = "counter", !.key = k, !.of = passkey[k].of, !.read = passkey[k].counter, !.count = n]
<1>3. h \in HandlerRecords /\ h.pc = "counter" /\ h.via = handler[r].via /\ h.key = k /\ h.of = passkey[k].of
      /\ h.read = passkey[k].counter /\ h.count = n
  BY <1>1 DEF HandlerRecords, PasskeyRows
<1>4. handler' = [handler EXCEPT ![r] = h] /\ UNCHANGED <<disabled, since, passkey, ceremony, entered, instant>>
  BY DEF ReadCredential
<1> HIDE DEF h
<1>5. handler'[r] = h => HandlerMoves(r)
  BY <1>1, <1>2, <1>3 DEF HandlerMoves
<1> QED BY <1>3, <1>4, <1>5, SameCeremony, HandlerStep

LEMMA ReadOwnerHolds ==
  ASSUME CeremonyInv, NEW r \in Responses, ReadOwner(r)
  PROVE  CeremonyInv'
<1>1. UNCHANGED <<disabled, since, passkey, ceremony, entered, instant>> /\ handler[r] \in HandlerRecords /\ handler[r].pc = "owner"
  BY DEF ReadOwner, CeremonyInv, CeremonyTyped
<1>2. CASE handler[r].of \in disabled
  BY <1>1, <1>2, DoneHolds DEF ReadOwner
<1>3. CASE handler[r].of \notin disabled
  <2> DEFINE h == [handler[r] EXCEPT !.pc = "create"]
  <2>1. h \in HandlerRecords /\ h.pc = "create" /\ h.via = handler[r].via /\ h.enrolment = handler[r].enrolment
        /\ h.count = handler[r].count /\ h.of = handler[r].of
    BY <1>1 DEF HandlerRecords
  <2>2. handler' = [handler EXCEPT ![r] = h]
    BY <1>3 DEF ReadOwner
  <2> HIDE DEF h
  <2>3. handler'[r] = h => HandlerMoves(r)
    BY <1>1, <2>1 DEF HandlerMoves
  <2> QED BY <1>1, <2>1, <2>2, <2>3, SameCeremony, HandlerStep
<1> QED BY <1>2, <1>3

(* What happens outside the requests.                                      *)
LEMMA AsideHolds ==
  ASSUME CeremonyInv, ceremony' \in [Ceremonies -> CeremonyRows], NoneComesBack, UNCHANGED <<passkey, entered, handler>>,
         instant' \in Nat, disabled' \subseteq People, DOMAIN since' \subseteq People, DOMAIN since' \cap disabled' = {}
  PROVE  CeremonyInv'
<1>1. CeremonyTyped'
  BY DEF CeremonyInv, CeremonyTyped
<1>2. \A r \in Responses : HandlerMoves(r)
  BY DEF HandlerMoves
<1> QED BY <1>1, <1>2, QuietCeremonies

LEMMA OptionsHold ==
  ASSUME CeremonyInv, NEW c \in Ceremonies,
         LoginOptions(c) \/ Forget(c) \/ \E u \in People : RegisterOptions(u, c)
  PROVE  CeremonyInv'
<1>1. UNCHANGED <<passkey, entered, handler, instant, disabled, since>>
  BY DEF LoginOptions, Forget, RegisterOptions
<1>2. ceremony' \in [Ceremonies -> CeremonyRows] /\ NoneComesBack
  <2>1. CASE LoginOptions(c)
    BY <2>1, StoreStep DEF LoginOptions
  <2>2. CASE Forget(c)
    BY <2>2, StatusStep DEF Forget
  <2>3. ASSUME NEW u \in People, RegisterOptions(u, c)
        PROVE  ceremony' \in [Ceremonies -> CeremonyRows] /\ NoneComesBack
    BY <2>3, StoreStep DEF RegisterOptions
  <2> QED BY <2>1, <2>2, <2>3
<1>3. instant' \in Nat /\ disabled' \subseteq People /\ DOMAIN since' \subseteq People /\ DOMAIN since' \cap disabled' = {}
  BY <1>1 DEF CeremonyInv, CeremonyTyped
<1> QED BY <1>1, <1>2, <1>3, AsideHolds

LEMMA DisableHolds ==
  ASSUME CeremonyInv, NEW u \in People, Disable(u)
  PROVE  CeremonyInv'
<1>1. DOMAIN since' = DOMAIN since \ {u} /\ disabled' = disabled \cup {u}
  BY DEF Disable
<1>2. disabled' \subseteq People /\ DOMAIN since' \subseteq People /\ DOMAIN since' \cap disabled' = {}
  BY <1>1 DEF CeremonyInv, CeremonyTyped
<1>3. UNCHANGED <<passkey, entered, handler, ceremony>> /\ instant' \in Nat
  BY DEF Disable, CeremonyInv, CeremonyTyped
<1> QED BY <1>2, <1>3, SameCeremony, AsideHolds

LEMMA LaterHolds ==
  ASSUME CeremonyInv, Later \/ UNCHANGED passkeyVars
  PROVE  CeremonyInv'
<1>1. UNCHANGED <<passkey, entered, handler, ceremony, disabled, since>> /\ instant' \in Nat
  BY DEF Later, passkeyVars, CeremonyInv, CeremonyTyped
<1>2. disabled' \subseteq People /\ DOMAIN since' \subseteq People /\ DOMAIN since' \cap disabled' = {}
  BY <1>1 DEF CeremonyInv, CeremonyTyped
<1> QED BY <1>1, <1>2, SameCeremony, AsideHolds

(* The steps that change a row or add a login leave the ceremonies.        *)
LEMMA SameAnswers ==
  ASSUME ceremony' = ceremony
  PROVE  \A e : (AnsweredBefore(e)' <=> AnsweredBefore(e)) /\ (Enrolled(e)' <=> Enrolled(e))
BY DEF AnsweredBefore, Enrolled

(* A row is made: its ceremony was nobody else's, and the request is over.  *)
LEMMA InsertHolds ==
  ASSUME CeremonyInv, NEW r \in Responses, NEW k \in Keys, NEW n \in 0..MaxCount, InsertCredential(r, k, n)
  PROVE  CeremonyInv'
<1>1. /\ handler[r] \in HandlerRecords /\ handler[r].pc = "register" /\ Active(r) /\ HandlerHolds(r) /\ OwnsCeremony(r)
      /\ passkey[k] = NoKey /\ UNCHANGED <<disabled, since, ceremony, entered, instant>>
  BY DEF InsertCredential, CeremonyInv, CeremonyTyped, CeremoniesApart, Active
<1>2. PICK c \in Ceremonies : c = handler[r].via /\ AnsweredBefore(c) /\ c # "none"
  BY <1>1, PasskeysAssumption DEF HandlerHolds, AnsweredBefore
<1> DEFINE row == [of |-> handler[r].of, counter |-> n, via |-> c]
<1>3. row \in PasskeyRows /\ row.via = c /\ row.of \in People
  BY <1>1 DEF PasskeyRows, HandlerHolds, Enrolments
<1>4. passkey' = [passkey EXCEPT ![k] = row]
  BY <1>2 DEF InsertCredential
<1> HIDE DEF row
<1>5. /\ passkey' \in [Keys -> PasskeyRows] /\ passkey'[k] = row /\ \A l \in Keys : l # k => passkey'[l] = passkey[l]
      /\ handler' \in [Responses -> HandlerRecords] /\ handler'[r].pc = "idle" /\ \A q \in Responses : q # r => handler'[q] = handler[q]
  BY <1>3, <1>4, IdleTyped DEF InsertCredential, Done, CeremonyInv, CeremonyTyped
<1>6. CeremonyTyped'
  BY <1>1, <1>5 DEF CeremonyInv, CeremonyTyped
<1>7. ASSUME NEW q \in Responses PROVE HandlerHolds(q)' /\ (Active(q)' => OwnsCeremony(q)')
  <2>1. CASE q = r
    BY <1>5, <2>1 DEF HandlerHolds, Active, Won
  <2>2. CASE q # r
    <3>1. HandlerHolds(q) /\ (Active(q) => OwnsCeremony(q)) /\ handler'[q] = handler[q]
      BY <1>5, <2>2 DEF CeremonyInv, CeremoniesApart
    <3>2. HandlerHolds(q)'
      BY <1>1, <3>1, SameAnswers DEF HandlerHolds, Active, Won
    <3>3. ASSUME Active(q) PROVE OwnsCeremony(q)'
      <4>1. handler[q].via # c
        BY <1>1, <1>2, <2>2, <3>3 DEF OwnsCeremony
      <4>2. \A l \in Keys : passkey'[l].via # handler'[q].via
        BY <1>3, <1>5, <3>1, <3>3, <4>1 DEF OwnsCeremony
      <4> QED BY <1>1, <1>5, <3>1, <3>3, <4>2 DEF OwnsCeremony, Active, Won
    <3> QED BY <3>1, <3>2, <3>3 DEF Active
  <2> QED BY <2>1, <2>2
<1>8. ASSUME NEW l \in Keys PROVE RowHolds(l)'
  <2>1. RowHolds(l)
    BY DEF CeremonyInv, CeremoniesApart
  <2> QED BY <1>1, <1>2, <1>3, <1>5, <2>1, SameAnswers DEF RowHolds, Enrolled
<1>9. \A x \in entered : EntryHolds(x)'
  BY <1>1, SameAnswers DEF CeremonyInv, CeremoniesApart, EntryHolds
<1>10. RowsApart'
  <2>1. \A l \in Keys : passkey[l].via # c
    BY <1>1, <1>2 DEF OwnsCeremony
  <2> QED BY <1>3, <1>5, <2>1 DEF CeremonyInv, CeremoniesApart, RowsApart
<1>11. EntriesApart'
  BY <1>1, <1>2, <1>3, <1>5 DEF CeremonyInv, CeremoniesApart, EntriesApart, OwnsCeremony
<1>12. CountsKept'
  BY <1>1, <1>2, <1>3, <1>5 DEF CeremonyInv, CeremoniesApart, CountsKept, OwnsCeremony, Won
<1>13. CountsDiffer'
  BY <1>1, <1>5 DEF CeremonyInv, CeremoniesApart, CountsDiffer, Won
<1> QED BY <1>1, <1>6, <1>7, <1>8, <1>9, <1>10, <1>11, <1>12, <1>13 DEF CeremonyInv, CeremoniesApart

(* A row goes, and with it what new logins could be compared with.         *)
LEMMA DeleteHolds ==
  ASSUME CeremonyInv, NEW k \in Keys, DeleteCredential(k)
  PROVE  CeremonyInv'
<1>1. UNCHANGED <<disabled, since, ceremony, handler, entered, instant>>
  BY DEF DeleteCredential
<1>2. NoKey \in PasskeyRows /\ NoKey.via = "none"
  <2>1. 0 \in 0..MaxCount
    BY PasskeysAssumption
  <2> QED BY <2>1 DEF NoKey, PasskeyRows, Nobody, Enrolments
<1>3. passkey' \in [Keys -> PasskeyRows] /\ passkey'[k] = NoKey /\ \A l \in Keys : l # k => passkey'[l] = passkey[l]
  BY <1>2 DEF DeleteCredential, CeremonyInv, CeremonyTyped
<1>4. CeremonyTyped'
  BY <1>1, <1>3 DEF CeremonyInv, CeremonyTyped
<1>5. ~Enrolled("none") /\ ~AnsweredBefore("none")
  BY PasskeysAssumption DEF Enrolled, AnsweredBefore
<1>6. ASSUME NEW q \in Responses PROVE HandlerHolds(q)' /\ (Active(q)' => OwnsCeremony(q)')
  <2>1. HandlerHolds(q) /\ (Active(q) => OwnsCeremony(q))
    BY DEF CeremonyInv, CeremoniesApart
  <2>2. HandlerHolds(q)'
    BY <1>1, <2>1, SameAnswers DEF HandlerHolds, Active, Won
  <2>3. Active(q) => OwnsCeremony(q)'
    BY <1>1, <1>2, <1>3, <1>5, <2>1 DEF OwnsCeremony, HandlerHolds, Active, Won
  <2> QED BY <1>1, <2>2, <2>3 DEF Active
<1>7. ASSUME NEW l \in Keys PROVE RowHolds(l)'
  BY <1>1, <1>3, SameAnswers DEF CeremonyInv, CeremoniesApart, RowHolds
<1>8. \A x \in entered : EntryHolds(x)'
  BY <1>1, SameAnswers DEF CeremonyInv, CeremoniesApart, EntryHolds
<1>9. RowsApart'
  BY <1>2, <1>3, <1>5 DEF CeremonyInv, CeremoniesApart, RowsApart, RowHolds
<1>10. EntriesApart'
  BY <1>1, <1>2, <1>3, <1>5 DEF CeremonyInv, CeremoniesApart, EntriesApart, EntryHolds
<1>11. CountsKept'
  BY <1>1, <1>2, <1>3, <1>5 DEF CeremonyInv, CeremoniesApart, CountsKept, EntryHolds, HandlerHolds, Won
<1>12. CountsDiffer'
  BY <1>1 DEF CeremonyInv, CeremoniesApart, CountsDiffer, Won
<1> QED BY <1>1, <1>4, <1>6, <1>7, <1>8, <1>9, <1>10, <1>11, <1>12 DEF CeremonyInv, CeremoniesApart

(* A counter is advanced: every login on that row so far has a smaller one. *)
LEMMA AdvanceHolds ==
  ASSUME CeremonyInv, NEW r \in Responses, UpdateCounter(r), CounterAsRead(r)
  PROVE  CeremonyInv'
<1>1. /\ handler[r] \in HandlerRecords /\ handler[r].pc = "counter" /\ Active(r) /\ HandlerHolds(r) /\ OwnsCeremony(r)
      /\ UNCHANGED <<disabled, since, ceremony, entered, instant>>
  BY DEF UpdateCounter, CeremonyInv, CeremonyTyped, CeremoniesApart, Active
<1>2. PICK k \in Keys : k = handler[r].key /\ passkey[k] # NoKey /\ passkey[k].counter = handler[r].read
  BY <1>1 DEF CounterAsRead, HandlerHolds
<1>3. passkey[k] \in PasskeyRows /\ RowHolds(k) /\ handler[r].count \in 0..MaxCount /\ handler[r].read \in 0..MaxCount
  BY <1>1 DEF CeremonyInv, CeremonyTyped, CeremoniesApart, HandlerRecords
<1>4. /\ MaxCount \in Nat /\ Enrolled(passkey[k].via) /\ passkey[k].via \in Enrolments
      /\ handler[r].count > passkey[k].counter \/ (handler[r].count = 0 /\ passkey[k].counter = 0)
  <2>1. MaxCount \in Nat /\ Enrolled(passkey[k].via) /\ passkey[k].via \in Enrolments
    BY <1>2, <1>3, PasskeysAssumption DEF RowHolds, PasskeyRows
  <2>2. Advances(passkey[k].counter, handler[r].count)
    BY <1>1, <1>2 DEF HandlerHolds
  <2> QED BY <2>1, <2>2 DEF Advances
<1> DEFINE row == [passkey[k] EXCEPT !.counter = handler[r].count]
           h   == [handler[r] EXCEPT !.pc = "owner", !.enrolment = passkey[k].via]
<1>5. row \in PasskeyRows /\ row.via = passkey[k].via /\ row.of = passkey[k].of /\ row.counter = handler[r].count
  BY <1>3 DEF PasskeyRows
<1>6. h \in HandlerRecords /\ h.pc = "owner" /\ h.enrolment = passkey[k].via /\ h.via = handler[r].via /\ h.of = handler[r].of
      /\ h.count = handler[r].count
  BY <1>1, <1>4 DEF HandlerRecords
<1>7. passkey' = [passkey EXCEPT ![k] = row] /\ handler' = [handler EXCEPT ![r] = h]
  BY <1>2 DEF UpdateCounter
<1> HIDE DEF row, h
<1>8. /\ passkey' \in [Keys -> PasskeyRows] /\ passkey'[k] = row /\ \A l \in Keys : l # k => passkey'[l] = passkey[l]
      /\ handler' \in [Responses -> HandlerRecords] /\ handler'[r] = h /\ \A q \in Responses : q # r => handler'[q] = handler[q]
  BY <1>5, <1>6, <1>7 DEF CeremonyInv, CeremonyTyped
<1>9. CeremonyTyped'
  BY <1>1, <1>8 DEF CeremonyInv, CeremonyTyped
<1>10. \A l \in Keys : passkey'[l].via = passkey[l].via /\ passkey'[l].of = passkey[l].of
  BY <1>5, <1>8
<1>11. \A q \in Responses : handler'[q].via = handler[q].via /\ (Active(q)' <=> Active(q))
  BY <1>1, <1>6, <1>8 DEF Active
<1>12. ASSUME NEW q \in Responses PROVE HandlerHolds(q)' /\ (Active(q)' => OwnsCeremony(q)')
  <2>1. HandlerHolds(q) /\ (Active(q) => OwnsCeremony(q))
    BY DEF CeremonyInv, CeremoniesApart
  <2>2. HandlerHolds(q)'
    <3>1. CASE q = r
      BY <1>1, <1>4, <1>6, <1>8, <3>1, SameAnswers DEF HandlerHolds, Active, Won
    <3>2. CASE q # r
      BY <1>1, <1>8, <2>1, <3>2, SameAnswers DEF HandlerHolds, Active, Won
    <3> QED BY <3>1, <3>2
  <2>3. ASSUME Active(q) PROVE OwnsCeremony(q)'
    <3>1. \A p \in Responses : Won(p)' => handler'[p].enrolment # handler'[q].via
      <4> SUFFICES ASSUME NEW p \in Responses, Won(p)' PROVE handler'[p].enrolment # handler'[q].via
        OBVIOUS
      <4>1. CASE p = r
        BY <1>6, <1>8, <1>11, <2>1, <2>3, <4>1 DEF OwnsCeremony
      <4>2. CASE p # r
        BY <1>8, <1>11, <2>1, <2>3, <4>2 DEF OwnsCeremony, Won
      <4> QED BY <4>1, <4>2
    <3>2. \A p \in Responses : p # q /\ Active(p)' => handler'[p].via # handler'[q].via
      BY <1>11, <2>1, <2>3 DEF OwnsCeremony
    <3>3. \A l \in Keys : passkey'[l].via # handler'[q].via
      BY <1>10, <1>11, <2>1, <2>3 DEF OwnsCeremony
    <3>4. \A x \in entered : x.via # handler'[q].via /\ x.enrolment # handler'[q].via
      BY <1>11, <2>1, <2>3 DEF OwnsCeremony
    <3> QED BY <1>1, <3>1, <3>2, <3>3, <3>4 DEF OwnsCeremony
  <2> QED BY <1>11, <2>2, <2>3
<1>13. ASSUME NEW l \in Keys PROVE RowHolds(l)'
  <2>1. RowHolds(l)
    BY DEF CeremonyInv, CeremoniesApart
  <2>2. CASE l = k
    <3>1. passkey[k].of \in People /\ Enrolled(passkey[k].via) /\ passkey'[k].of = passkey[k].of /\ passkey'[k].via = passkey[k].via
      BY <1>2, <1>3, <1>10 DEF RowHolds
    <3> QED BY <1>1, <2>2, <3>1 DEF RowHolds, Enrolled, AnsweredBefore
  <2>3. CASE l # k
    BY <1>1, <1>8, <2>1, <2>3, SameAnswers DEF RowHolds
  <2> QED BY <2>2, <2>3
<1>14. \A x \in entered : EntryHolds(x)'
  BY <1>1, SameAnswers DEF CeremonyInv, CeremoniesApart, EntryHolds
<1>15. \A l \in Keys : l # k => passkey[l].via # passkey[k].via
  BY <1>2 DEF CeremonyInv, CeremoniesApart, RowsApart
<1>16. RowsApart' /\ EntriesApart'
  <2>1. ASSUME NEW l \in Keys, NEW m \in Keys, l # m, passkey'[l] # NoKey PROVE passkey'[l].via # passkey'[m].via
    <3>1. CASE l = k
      BY <1>10, <1>15, <2>1, <3>1
    <3>2. CASE l # k
      BY <1>8, <1>10, <2>1, <3>2 DEF CeremonyInv, CeremoniesApart, RowsApart
    <3> QED BY <3>1, <3>2
  <2>2. RowsApart'
    BY <2>1 DEF RowsApart
  <2>3. EntriesApart'
    BY <1>1, <1>10 DEF CeremonyInv, CeremoniesApart, EntriesApart
  <2> QED BY <2>2, <2>3
<1>17. /\ \A x \in entered : x.enrolment = passkey[k].via => x.count <= passkey[k].counter /\ x.count \in Nat
       /\ \A q \in Responses : Won(q) /\ handler[q].enrolment = passkey[k].via =>
            handler[q].count <= passkey[k].counter /\ handler[q].count \in Nat
  <2>1. (\A x \in entered : x.count \in 0..MaxCount) /\ (\A q \in Responses : handler[q].count \in 0..MaxCount)
    BY DEF CeremonyInv, CeremonyTyped, Entries, HandlerRecords
  <2> QED BY <1>4, <2>1 DEF CeremonyInv, CeremoniesApart, CountsKept
<1>18. passkey[k].counter \in Nat /\ handler[r].count \in Nat /\ passkey[k].counter <= handler[r].count
  BY <1>3, <1>4 DEF PasskeyRows
<1>19. CountsKept'
  <2> SUFFICES ASSUME NEW l \in Keys
      PROVE /\ \A x \in entered' : x.enrolment = passkey'[l].via => x.count <= passkey'[l].counter
            /\ \A q \in Responses : Won(q)' /\ handler'[q].enrolment = passkey'[l].via => handler'[q].count <= passkey'[l].counter
    BY DEF CountsKept
  <2>1. CASE l = k
    BY <1>1, <1>5, <1>6, <1>8, <1>17, <1>18, <2>1 DEF Won
  <2>2. CASE l # k
    BY <1>1, <1>6, <1>8, <1>15, <2>2 DEF CeremonyInv, CeremoniesApart, CountsKept, Won
  <2> QED BY <2>1, <2>2
<1>20. CountsDiffer'
  <2>1. ASSUME NEW x \in entered, NEW q \in Responses, Won(q)'
        PROVE  Differ(x.enrolment, x.count, handler'[q].enrolment, handler'[q].count)
    <3>1. CASE q = r
      BY <1>4, <1>6, <1>8, <1>17, <1>18, <3>1 DEF Differ
    <3>2. CASE q # r
      BY <1>8, <2>1, <3>2 DEF CeremonyInv, CeremoniesApart, CountsDiffer, Won
    <3> QED BY <3>1, <3>2
  <2>2. ASSUME NEW p \in Responses, NEW q \in Responses, p # q, Won(p)', Won(q)'
        PROVE  Differ(handler'[p].enrolment, handler'[p].count, handler'[q].enrolment, handler'[q].count)
    <3>1. CASE p = r
      BY <1>4, <1>6, <1>8, <1>17, <1>18, <2>2, <3>1 DEF Differ, Won
    <3>2. CASE q = r
      BY <1>4, <1>6, <1>8, <1>17, <1>18, <2>2, <3>2 DEF Differ, Won
    <3>3. CASE p # r /\ q # r
      BY <1>8, <2>2, <3>3 DEF CeremonyInv, CeremoniesApart, CountsDiffer, Won
    <3> QED BY <3>1, <3>2, <3>3
  <2> QED BY <1>1, <2>1, <2>2 DEF CeremonyInv, CeremoniesApart, CountsDiffer
<1> QED BY <1>1, <1>9, <1>12, <1>13, <1>14, <1>16, <1>19, <1>20 DEF CeremonyInv, CeremoniesApart

(* A login ends in a session and becomes one of those that entered.        *)
LEMMA EnterHolds ==
  ASSUME CeremonyInv, NEW r \in Responses, Enter(r), MayEnter(r)
  PROVE  CeremonyInv'
<1>1. /\ handler[r] \in HandlerRecords /\ handler[r].pc = "create" /\ Active(r) /\ Won(r) /\ HandlerHolds(r) /\ OwnsCeremony(r)
      /\ UNCHANGED <<disabled, passkey, ceremony, instant>>
  BY DEF Enter, CeremonyInv, CeremonyTyped, CeremoniesApart, Active, Won
<1> DEFINE e == [via |-> handler[r].via, enrolment |-> handler[r].enrolment, count |-> handler[r].count, by |-> r]
<1>2. e \in Entries /\ e.via = handler[r].via /\ e.enrolment = handler[r].enrolment /\ e.count = handler[r].count
  BY <1>1 DEF Entries, HandlerRecords, HandlerHolds, AnsweredBefore
<1>3. entered' = entered \cup {e}
  BY DEF Enter
<1> HIDE DEF e
<1>4. handler' \in [Responses -> HandlerRecords] /\ handler'[r].pc = "idle" /\ \A q \in Responses : q # r => handler'[q] = handler[q]
  BY IdleTyped DEF Enter, Done, CeremonyInv, CeremonyTyped
<1>5. DOMAIN since' = DOMAIN since \cup {handler[r].of}
  BY DEF Enter
<1>6. CeremonyTyped'
  BY <1>1, <1>2, <1>3, <1>4, <1>5 DEF CeremonyInv, CeremonyTyped, MayEnter, HandlerHolds
<1>7. ASSUME NEW q \in Responses PROVE HandlerHolds(q)' /\ (Active(q)' => OwnsCeremony(q)')
  <2>1. CASE q = r
    BY <1>4, <2>1 DEF HandlerHolds, Active, Won
  <2>2. CASE q # r
    <3>1. HandlerHolds(q) /\ (Active(q) => OwnsCeremony(q)) /\ handler'[q] = handler[q]
      BY <1>4, <2>2 DEF CeremonyInv, CeremoniesApart
    <3>2. HandlerHolds(q)'
      BY <1>1, <3>1, SameAnswers DEF HandlerHolds, Active, Won
    <3>3. ASSUME Active(q) PROVE OwnsCeremony(q)'
      <4>1. e.via # handler[q].via /\ e.enrolment # handler[q].via
        BY <1>1, <1>2, <2>2, <3>1, <3>3 DEF OwnsCeremony
      <4> QED BY <1>1, <1>3, <1>4, <3>1, <3>3, <4>1 DEF OwnsCeremony, Active, Won
    <3> QED BY <3>1, <3>2, <3>3 DEF Active
  <2> QED BY <2>1, <2>2
<1>8. \A l \in Keys : RowHolds(l)'
  BY <1>1, SameAnswers DEF CeremonyInv, CeremoniesApart, RowHolds
<1>9. \A x \in entered' : EntryHolds(x)'
  BY <1>1, <1>2, <1>3, SameAnswers DEF CeremonyInv, CeremoniesApart, EntryHolds, HandlerHolds
<1>10. RowsApart'
  BY <1>1 DEF CeremonyInv, CeremoniesApart, RowsApart
<1>11. EntriesApart'
  BY <1>1, <1>2, <1>3 DEF CeremonyInv, CeremoniesApart, EntriesApart, OwnsCeremony
<1>12. CountsKept'
  BY <1>1, <1>2, <1>3, <1>4 DEF CeremonyInv, CeremoniesApart, CountsKept, Won
<1>13. CountsDiffer'
  <2>1. \A x \in entered : Differ(x.enrolment, x.count, e.enrolment, e.count) /\ Differ(e.enrolment, e.count, x.enrolment, x.count)
    BY <1>1, <1>2 DEF CeremonyInv, CeremoniesApart, CountsDiffer, Differ
  <2>2. \A q \in Responses : Won(q)' => Differ(e.enrolment, e.count, handler'[q].enrolment, handler'[q].count)
    BY <1>1, <1>2, <1>4 DEF CeremonyInv, CeremoniesApart, CountsDiffer, Won
  <2>3. \A x, y \in entered' : x # y => Differ(x.enrolment, x.count, y.enrolment, y.count)
    BY <1>3, <2>1 DEF CeremonyInv, CeremoniesApart, CountsDiffer
  <2>4. \A x \in entered', q \in Responses : Won(q)' => Differ(x.enrolment, x.count, handler'[q].enrolment, handler'[q].count)
    BY <1>3, <1>4, <2>2 DEF CeremonyInv, CeremoniesApart, CountsDiffer, Won
  <2>5. \A p, q \in Responses : p # q /\ Won(p)' /\ Won(q)' =>
          Differ(handler'[p].enrolment, handler'[p].count, handler'[q].enrolment, handler'[q].count)
    BY <1>4 DEF CeremonyInv, CeremoniesApart, CountsDiffer, Won
  <2> QED BY <2>3, <2>4, <2>5 DEF CountsDiffer
<1> QED BY <1>6, <1>7, <1>8, <1>9, <1>10, <1>11, <1>12, <1>13 DEF CeremonyInv, CeremoniesApart

LEMMA CeremonyInvariant == PasskeysSpec => []CeremonyInv
<1>1. PasskeysInit => CeremonyInv
  <2> SUFFICES ASSUME PasskeysInit PROVE CeremonyInv
    OBVIOUS
  <2>1. PICK u \in People, enrolled \in SUBSET Keys :
          since = [v \in {u} |-> 0]
          /\ passkey = [k \in Keys |-> IF k \in enrolled THEN [of |-> u, counter |-> 0, via |-> k] ELSE NoKey]
    BY DEF PasskeysInit
  <2>2. 0 \in 0..MaxCount
    BY PasskeysAssumption
  <2>3. \A k \in Keys : passkey[k] \in PasskeyRows /\ (passkey[k] # NoKey => passkey[k].via = k /\ passkey[k].of = u)
                        /\ passkey[k].via \in {k, "none"}
    BY <2>1, <2>2 DEF PasskeyRows, NoKey, Nobody, Enrolments
  <2>4. passkey \in [Keys -> PasskeyRows]
    BY <2>1, <2>3
  <2>5. NoCeremony \in CeremonyRows
    BY DEF NoCeremony, CeremonyRows
  <2>6. CeremonyTyped
    BY <2>1, <2>4, <2>5, IdleTyped DEF PasskeysInit, CeremonyTyped
  <2>7. \A r \in Responses : handler[r].pc = "idle"
    BY IdleTyped DEF PasskeysInit
  <2>8. RowsApart
    BY <2>3, PasskeysAssumption DEF RowsApart
  <2>9. CeremoniesApart
    BY <2>3, <2>7, <2>8 DEF PasskeysInit, CeremoniesApart, HandlerHolds, Active, Won, RowHolds, Enrolled, EntriesApart, CountsKept, CountsDiffer
  <2> QED BY <2>6, <2>9 DEF CeremonyInv
<1>2. CeremonyInv /\ [PasskeysNext]_passkeyVars => CeremonyInv'
  <2> SUFFICES ASSUME CeremonyInv, [PasskeysNext]_passkeyVars PROVE CeremonyInv'
    OBVIOUS
  <2>1. ASSUME NEW r \in Responses, RegisterRefused(r) \/ AssertionRefused(r) PROVE CeremonyInv'
    BY <2>1, DoneHolds DEF RegisterRefused, AssertionRefused
  <2>2. ASSUME NEW r \in Responses, UpdateCounter(r) PROVE CeremonyInv'
    BY <2>2, AdvanceHolds, DoneHolds DEF UpdateCounter
  <2>3. ASSUME NEW r \in Responses, Enter(r) PROVE CeremonyInv'
    BY <2>3, EnterHolds, DoneHolds DEF Enter
  <2> QED BY <2>1, <2>2, <2>3, OptionsHold, LoginConsumeHolds, RegisterConsumeHolds, InsertHolds, ReadCredentialHolds,
             ReadOwnerHolds, DeleteHolds, DisableHolds, LaterHolds DEF PasskeysNext
<1> QED BY <1>1, <1>2, PTL DEF PasskeysSpec

(* The passkeys, ceremonies and requests keep their types.                 *)
THEOREM CeremoniesTyped == PasskeysSpec => []PasskeysTypeOK
<1>1. CeremonyInv => PasskeysTypeOK
  BY DEF CeremonyInv, CeremonyTyped, PasskeyRows, CeremonyRows, HandlerRecords, PasskeysTypeOK
<1> QED BY <1>1, CeremonyInvariant, PTL

(* A challenge is answered once, logins on one row never repeat a counter,  *)
(* and no disabled account is signed in, for any number of passkeys,        *)
(* ceremonies and concurrent requests.                                     *)
THEOREM ChallengesAnsweredOnce == PasskeysSpec => []CeremoniesHold
<1>1. CeremonyInv => CeremoniesHold
  BY DEF CeremonyInv, CeremonyTyped, CeremoniesApart, EntriesApart, CountsDiffer, Differ, CeremoniesHold
<1> QED BY <1>1, CeremonyInvariant, PTL
-----------------------------------------------------------------------------
(* Clients that describe themselves.                                       *)
(*                                                                         *)
(* Type correctness.  Once a request has a document it keeps one, until it  *)
(* is over; a row has one as long as it exists.                             *)

Stages == {"away", "fetch", "existing", "reread", "batch", "updated", "approval", "page",
           "decision", "code", "consume", "check", "issue", "use"}
VisitKinds == {"none", "page", "decision", "consume", "use"}
VisitRecords ==
  [pc : Stages, kind : VisitKinds, asks : SUBSET AllWishes, fp : Documents \cup {"none"}, until : Nat,
   differs : BOOLEAN]
Cards == [on : {"none", "enabled", "disabled"}, fp : Documents \cup {"none"}, until : Nat]
Consents == [fp : Documents \cup {"none"}, scopes : SUBSET AllWishes]

VisitHolds(x) ==
  /\ x.pc # "away" => x.asks \in Wishes
  /\ x.pc \notin {"away", "fetch"} => x.fp \in Documents
  /\ x.pc \in {"fetch", "existing", "reread", "batch", "updated", "approval"} =>
       x.kind \in {"page", "decision"}

TypeInv ==
  /\ served \in Documents /\ admission \in AdmissionPolicies /\ card \in Cards
  /\ approved \in BOOLEAN /\ blocked \in BOOLEAN /\ consent \in Consents
  /\ codes \subseteq CodeRecords /\ chains \subseteq Chains
  /\ visit \in [Visits -> VisitRecords]
  /\ decided \subseteq Documents \X AllWishes
  /\ day \in Nat /\ visits \in Nat

(* What the invocations have in hand.                                      *)
HandInv ==
  /\ card.on # "none" => card.fp \in Documents
  /\ \A v \in Visits : VisitHolds(visit[v])

LEMMA WishesAll == \A s \in Wishes : s \in SUBSET AllWishes
BY DEF AllWishes

LEMMA AwayType == Away \in VisitRecords /\ VisitHolds(Away) /\ Away.pc = "away"
BY DEF Away, VisitRecords, Stages, VisitKinds, VisitHolds

LEMMA FirstRecords == NoCard \in Cards /\ NoConsent \in Consents
BY DEF NoCard, Cards, NoConsent, Consents

(* One invocation moves to x.                                              *)
LEMMA OneMoves ==
  ASSUME TypeInv, HandInv, NEW v \in Visits, NEW x \in VisitRecords, VisitHolds(x),
         visit' = [visit EXCEPT ![v] = x]
  PROVE  visit' \in [Visits -> VisitRecords] /\ \A w \in Visits : VisitHolds(visit'[w])
BY DEF TypeInv, HandInv

LEMMA LeavesMoves ==
  ASSUME TypeInv, HandInv, NEW v \in Visits, Leaves(v)
  PROVE  visit' \in [Visits -> VisitRecords] /\ \A w \in Visits : VisitHolds(visit'[w])
BY AwayType, OneMoves DEF Leaves

LEMMA GoesFields ==
  ASSUME TypeInv, NEW v \in Visits, NEW pc \in Stages, Goes(v, pc)
  PROVE  \E x \in VisitRecords :
           /\ visit' = [visit EXCEPT ![v] = x]
           /\ x.pc = pc /\ x.kind = visit[v].kind /\ x.asks = visit[v].asks /\ x.fp = visit[v].fp
           /\ x.until = visit[v].until /\ x.differs = visit[v].differs
<1>1. visit[v] \in VisitRecords
  BY DEF TypeInv
<1> DEFINE x == [visit[v] EXCEPT !.pc = pc]
<1>2. /\ x \in VisitRecords
      /\ x.pc = pc /\ x.kind = visit[v].kind /\ x.asks = visit[v].asks /\ x.fp = visit[v].fp
      /\ x.until = visit[v].until /\ x.differs = visit[v].differs
  BY <1>1 DEF VisitRecords
<1>3. visit' = [visit EXCEPT ![v] = x]
  BY DEF Goes, TypeInv
<1> HIDE DEF x
<1> QED BY <1>2, <1>3

LEMMA GoesMoves ==
  ASSUME TypeInv, HandInv, NEW v \in Visits, NEW pc \in Stages, Goes(v, pc),
         visit[v].pc \notin {"away", "fetch"},
         pc \in {"fetch", "existing", "reread", "batch", "updated", "approval"} =>
           visit[v].pc \in {"existing", "reread", "batch", "updated", "approval"}
  PROVE  visit' \in [Visits -> VisitRecords] /\ \A w \in Visits : VisitHolds(visit'[w])
<1>1. PICK x \in VisitRecords :
           /\ visit' = [visit EXCEPT ![v] = x]
           /\ x.pc = pc /\ x.kind = visit[v].kind /\ x.asks = visit[v].asks /\ x.fp = visit[v].fp
           /\ x.until = visit[v].until /\ x.differs = visit[v].differs
  BY GoesFields
<1>2. VisitHolds(visit[v])
  BY DEF HandInv
<1>3. VisitHolds(x)
  BY <1>1, <1>2 DEF VisitHolds
<1> QED BY <1>1, <1>3, OneMoves

LEMMA AuthorizeMoves ==
  ASSUME TypeInv, HandInv, NEW v \in Visits, NEW s \in Wishes, NEW kind \in {"page", "decision"},
         Authorize(v, kind, s)
  PROVE  visit' \in [Visits -> VisitRecords] /\ \A w \in Visits : VisitHolds(visit'[w])
<1>1. s \in SUBSET AllWishes
  BY WishesAll
<1>2. CASE card.on # "none" /\ card.until > day
  <2>1. card.fp \in Documents /\ card.until \in Nat
    BY <1>2 DEF TypeInv, HandInv, Cards
  <2> DEFINE x == [Away EXCEPT !.pc = "existing", !.kind = kind, !.asks = s, !.fp = card.fp,
                               !.until = card.until]
  <2>2. visit' = [visit EXCEPT ![v] = x]
    BY <1>2 DEF Authorize, Enters
  <2>3. /\ x \in VisitRecords /\ x.pc = "existing" /\ x.kind = kind /\ x.asks = s
        /\ x.fp = card.fp
    BY <1>1, <2>1, AwayType DEF VisitRecords, Stages, VisitKinds
  <2> HIDE DEF x
  <2>4. VisitHolds(x)
    BY <2>1, <2>3 DEF VisitHolds
  <2> QED BY <2>2, <2>3, <2>4, OneMoves
<1>3. CASE ~(card.on # "none" /\ card.until > day)
  <2> DEFINE x == [Away EXCEPT !.pc = "fetch", !.kind = kind, !.asks = s]
  <2>1. visit' = [visit EXCEPT ![v] = x]
    BY <1>3 DEF Authorize, Enters
  <2>2. x \in VisitRecords /\ x.pc = "fetch" /\ x.kind = kind /\ x.asks = s
    BY <1>1, AwayType DEF VisitRecords, Stages, VisitKinds
  <2> HIDE DEF x
  <2>3. VisitHolds(x)
    BY <2>2 DEF VisitHolds
  <2> QED BY <2>1, <2>2, <2>3, OneMoves
<1> QED BY <1>2, <1>3

LEMMA ReturnsMoves ==
  ASSUME TypeInv, HandInv, NEW v \in Visits, NEW s \in Wishes, NEW kind \in {"consume", "use"},
         Returns(v, kind, s)
  PROVE  visit' \in [Visits -> VisitRecords] /\ \A w \in Visits : VisitHolds(visit'[w])
<1>1. card.fp \in Documents /\ s \in SUBSET AllWishes
  BY WishesAll DEF Returns, TypeInv, HandInv
<1> DEFINE x == [Away EXCEPT !.pc = kind, !.kind = kind, !.asks = s, !.fp = card.fp]
<1>2. visit' = [visit EXCEPT ![v] = x]
  BY DEF Returns, Enters
<1>3. x \in VisitRecords /\ x.pc = kind /\ x.kind = kind /\ x.asks = s /\ x.fp = card.fp
  BY <1>1, AwayType DEF VisitRecords, Stages, VisitKinds
<1> HIDE DEF x
<1>4. VisitHolds(x)
  BY <1>1, <1>3 DEF VisitHolds
<1> QED BY <1>2, <1>3, <1>4, OneMoves

LEMMA FetchMoves ==
  ASSUME TypeInv, HandInv, NEW v \in Visits, NEW ttl \in DocumentTtls, FetchDocument(v, ttl)
  PROVE  visit' \in [Visits -> VisitRecords] /\ \A w \in Visits : VisitHolds(visit'[w])
<1>1. visit[v] \in VisitRecords /\ served \in Documents /\ day + ttl \in Nat
      /\ VisitHolds(visit[v]) /\ visit[v].pc = "fetch"
  BY MetadataAssumption DEF TypeInv, HandInv, FetchDocument
<1> DEFINE x == [visit[v] EXCEPT !.pc = "existing", !.fp = served, !.until = day + ttl]
<1>2. /\ x \in VisitRecords /\ x.pc = "existing" /\ x.kind = visit[v].kind
      /\ x.asks = visit[v].asks /\ x.fp = served
  BY <1>1 DEF VisitRecords, Stages
<1>3. visit' = [visit EXCEPT ![v] = x]
  BY <1>1 DEF FetchDocument, TypeInv
<1> HIDE DEF x
<1>4. VisitHolds(x)
  BY <1>1, <1>2 DEF VisitHolds
<1> QED BY <1>2, <1>3, <1>4, OneMoves

LEMMA RereadMoves ==
  ASSUME TypeInv, HandInv, NEW v \in Visits, RereadCard(v)
  PROVE  visit' \in [Visits -> VisitRecords] /\ \A w \in Visits : VisitHolds(visit'[w])
<1>1. CASE card.on = "none"
  BY <1>1, LeavesMoves DEF RereadCard
<1>2. CASE card.on # "none"
  <2>1. visit[v] \in VisitRecords /\ VisitHolds(visit[v]) /\ visit[v].pc = "reread"
    BY DEF TypeInv, HandInv, RereadCard
  <2> DEFINE b == card.fp # visit[v].fp
             x == [visit[v] EXCEPT !.pc = "batch", !.differs = b]
  <2>2. b \in BOOLEAN
    OBVIOUS
  <2>3. visit' = [visit EXCEPT ![v] = x]
    BY <1>2, <2>1 DEF RereadCard, TypeInv
  <2> HIDE DEF b
  <2>4. /\ x \in VisitRecords /\ x.pc = "batch" /\ x.kind = visit[v].kind
        /\ x.asks = visit[v].asks /\ x.fp = visit[v].fp
    BY <2>1, <2>2 DEF VisitRecords, Stages
  <2> HIDE DEF x
  <2>5. VisitHolds(x)
    BY <2>1, <2>4 DEF VisitHolds
  <2> QED BY <2>3, <2>4, <2>5, OneMoves
<1> QED BY <1>1, <1>2

LEMMA ResolvedMoves ==
  ASSUME TypeInv, HandInv, NEW v \in Visits, ResolvedClient(v)
  PROVE  visit' \in [Visits -> VisitRecords] /\ \A w \in Visits : VisitHolds(visit'[w])
<1>1. CASE card.on = "none"
  BY <1>1, LeavesMoves DEF ResolvedClient
<1>2. CASE card.on # "none"
  <2>1. /\ visit[v] \in VisitRecords /\ VisitHolds(visit[v]) /\ visit[v].pc = "updated"
        /\ card.fp \in Documents
    BY <1>2 DEF TypeInv, HandInv, ResolvedClient
  <2> DEFINE b == card.on = "disabled"
             x == [visit[v] EXCEPT !.pc = "approval", !.fp = card.fp, !.until = 0, !.differs = b]
  <2>2. b \in BOOLEAN
    OBVIOUS
  <2>3. visit' = [visit EXCEPT ![v] = x]
    BY <1>2, <2>1 DEF ResolvedClient, TypeInv
  <2> HIDE DEF b
  <2>4. /\ x \in VisitRecords /\ x.pc = "approval" /\ x.kind = visit[v].kind
        /\ x.asks = visit[v].asks /\ x.fp = card.fp
    BY <2>1, <2>2 DEF VisitRecords, Stages
  <2> HIDE DEF x
  <2>5. VisitHolds(x)
    BY <2>1, <2>4 DEF VisitHolds
  <2> QED BY <2>3, <2>4, <2>5, OneMoves
<1> QED BY <1>1, <1>2

(* A step that does not touch cards, codes and families.                   *)
LEMMA VisitTypes ==
  ASSUME TypeInv, HandInv, visit' \in [Visits -> VisitRecords],
         \A w \in Visits : VisitHolds(visit'[w]),
         UNCHANGED <<served, admission, card, approved, blocked, consent, codes, chains, decided, day>>,
         visits' \in Nat
  PROVE  TypeInv' /\ HandInv'
<1>1. approved' \in BOOLEAN /\ blocked' \in BOOLEAN
  BY DEF TypeInv
<1>2. TypeInv'
  BY <1>1 DEF TypeInv
<1>3. HandInv'
  BY DEF HandInv
<1> QED BY <1>2, <1>3

(* Requests on their way, which only read.                                 *)
LEMMA ReadTypes ==
  ASSUME TypeInv, HandInv, NEW v \in Visits,
         \/ \E s \in Wishes : GetAuthorize(v, s) \/ PostDecision(v, s)
         \/ \E ttl \in DocumentTtls : FetchDocument(v, ttl)
         \/ \E c \in CodeRecords : ExchangeCode(v, c)
         \/ \E c \in Chains : RefreshChain(v, c)
         \/ FetchFails(v) \/ RereadCard(v) \/ ResolvedClient(v) \/ ApprovalChecked(v)
         \/ ConsentLooked(v) \/ CheckGrant(v)
  PROVE  TypeInv' /\ HandInv'
<1> DEFINE Moves == visit' \in [Visits -> VisitRecords] /\ \A w \in Visits : VisitHolds(visit'[w])
           Rest == UNCHANGED <<served, admission, card, approved, blocked, consent, codes, chains,
                               decided, day>>
<1>1. visits \in Nat /\ visit[v].kind \in VisitKinds /\ VisitHolds(visit[v])
  BY DEF TypeInv, HandInv, VisitRecords
<1>2. ASSUME NEW s \in Wishes, GetAuthorize(v, s) \/ PostDecision(v, s)
      PROVE  Moves /\ Rest /\ visits' \in Nat
  <2>1. PICK kind \in {"page", "decision"} : Authorize(v, kind, s)
    BY <1>2 DEF GetAuthorize, PostDecision
  <2>2. Moves
    BY <2>1, AuthorizeMoves
  <2> HIDE DEF Moves
  <2>3. Rest /\ visits' \in Nat
    BY <1>1, <2>1 DEF Authorize, Enters, Event
  <2> QED BY <2>2, <2>3
<1>3. ASSUME NEW ttl \in DocumentTtls, FetchDocument(v, ttl)
      PROVE  Moves /\ Rest /\ visits' \in Nat
  <2>1. Moves
    BY <1>3, FetchMoves
  <2> HIDE DEF Moves
  <2> QED BY <1>1, <1>3, <2>1 DEF FetchDocument
<1>4. ASSUME NEW s \in Wishes, Returns(v, "consume", s) \/ Returns(v, "use", s)
      PROVE  Moves /\ Rest /\ visits' \in Nat
  <2>1. Moves
    BY <1>4, ReturnsMoves
  <2> HIDE DEF Moves
  <2> QED BY <1>1, <1>4, <2>1 DEF Returns, Enters, Event
<1>5. ASSUME FetchFails(v) \/ RereadCard(v) \/ ResolvedClient(v) \/ ApprovalChecked(v)
             \/ ConsentLooked(v) \/ CheckGrant(v)
      PROVE  Moves /\ Rest /\ visits' \in Nat
  <2>1. CASE FetchFails(v) \/ RereadCard(v) \/ ResolvedClient(v)
    <3>1. Moves
      BY <2>1, LeavesMoves, RereadMoves, ResolvedMoves DEF FetchFails
    <3> HIDE DEF Moves
    <3> QED BY <1>1, <2>1, <3>1 DEF FetchFails, RereadCard, ResolvedClient
  <2>2. CASE ApprovalChecked(v) \/ ConsentLooked(v) \/ CheckGrant(v)
    <3>1. \/ Leaves(v)
          \/ \E pc \in {"page", "decision", "code", "issue"} : Goes(v, pc)
      BY <1>1, <2>2 DEF ApprovalChecked, ConsentLooked, CheckGrant, VisitHolds
    <3>2. visit[v].pc \notin {"away", "fetch"}
      BY <2>2 DEF ApprovalChecked, ConsentLooked, CheckGrant
    <3>3. Moves
      BY <3>1, <3>2, LeavesMoves, GoesMoves DEF Stages
    <3> HIDE DEF Moves
    <3> QED BY <1>1, <2>2, <3>3 DEF ApprovalChecked, ConsentLooked, CheckGrant
  <2> QED BY <1>5, <2>1, <2>2
<1>6. \A c \in CodeRecords \cup Chains : c.scopes \in Wishes
  BY DEF CodeRecords, Chains
<1> HIDE DEF Moves, Rest
<1>7. Moves /\ Rest /\ visits' \in Nat
  BY <1>2, <1>3, <1>4, <1>5, <1>6 DEF ExchangeCode, RefreshChain
<1> QED BY <1>7, VisitTypes DEF Moves, Rest

(* Requests that write.                                                    *)
LEMMA WriteTypes ==
  ASSUME TypeInv, HandInv, NEW v \in Visits,
         \/ InsertCard(v) \/ UpsertCard(v) \/ SaveConsent(v) \/ IssueCode(v)
         \/ ConsumeCode(v) \/ IssueTokens(v) \/ UseChain(v)
  PROVE  TypeInv' /\ HandInv'
<1> DEFINE Moves == visit' \in [Visits -> VisitRecords] /\ \A w \in Visits : VisitHolds(visit'[w])
<1>1. VisitHolds(visit[v]) /\ visit[v] \in VisitRecords
  BY DEF TypeInv, HandInv
<1>2. visit[v].pc \in {"existing", "batch", "decision", "code", "consume", "issue", "use"}
  BY DEF InsertCard, UpsertCard, SaveConsent, IssueCode, ConsumeCode, IssueTokens, UseChain
<1>3. /\ visit[v].fp \in Documents /\ visit[v].asks \in Wishes /\ visit[v].until \in Nat
      /\ visit[v].asks \in SUBSET AllWishes
  BY <1>1, <1>2, WishesAll DEF VisitHolds, VisitRecords
<1>4. Moves
  <2>1. \/ Leaves(v)
        \/ \E pc \in {"code", "check"} : Goes(v, pc)
        \/ Goes(v, "reread") /\ visit[v].pc = "existing"
        \/ Goes(v, "updated") /\ visit[v].pc = "batch"
    BY DEF InsertCard, UpsertCard, SaveConsent, IssueCode, ConsumeCode, IssueTokens, UseChain
  <2> QED BY <1>2, <2>1, LeavesMoves, GoesMoves DEF Stages
<1> HIDE DEF Moves
<1>5. UNCHANGED <<served, admission, approved, blocked, day, visits>>
  BY DEF InsertCard, UpsertCard, SaveConsent, IssueCode, ConsumeCode, IssueTokens, UseChain
<1>6. card' \in Cards /\ (card'.on # "none" => card'.fp \in Documents)
  <2>1. card \in Cards /\ (card.on # "none" => card.fp \in Documents)
    BY DEF TypeInv, HandInv
  <2>2. CASE InsertCard(v)
    BY <1>3, <2>1, <2>2 DEF InsertCard, Cards
  <2>3. CASE UpsertCard(v)
    <3>1. CASE card.on = "none"
      BY <2>1, <2>3, <3>1 DEF UpsertCard
    <3>2. CASE card.on # "none"
      <4>1. card' = [card EXCEPT !.fp = visit[v].fp, !.until = visit[v].until]
        BY <2>3, <3>2 DEF UpsertCard
      <4> QED BY <1>3, <2>1, <4>1 DEF Cards
    <3> QED BY <3>1, <3>2
  <2>4. CASE card' = card
    BY <2>1, <2>4
  <2> QED BY <2>2, <2>3, <2>4 DEF SaveConsent, IssueCode, ConsumeCode, IssueTokens, UseChain
<1>7. consent' \in Consents /\ decided' \subseteq Documents \X AllWishes
  <2>1. consent \in Consents /\ decided \subseteq Documents \X AllWishes
    BY DEF TypeInv
  <2>2. Merged(visit[v].fp, visit[v].asks) \in Consents
    BY <1>3, <2>1 DEF Merged, Consents
  <2>3. {visit[v].fp} \X visit[v].asks \subseteq Documents \X AllWishes
    BY <1>3
  <2>4. CASE SaveConsent(v)
    BY <2>1, <2>2, <2>3, <2>4 DEF SaveConsent
  <2>5. CASE ~SaveConsent(v)
    BY <2>1, <2>5 DEF InsertCard, UpsertCard, IssueCode, ConsumeCode, IssueTokens, UseChain
  <2> QED BY <2>4, <2>5
<1>8. codes' \subseteq CodeRecords
  <2>1. [fp |-> visit[v].fp, scopes |-> visit[v].asks] \in CodeRecords
    BY <1>3 DEF CodeRecords
  <2>2. \/ codes' \subseteq codes
        \/ codes' = codes \cup {[fp |-> visit[v].fp, scopes |-> visit[v].asks]}
    BY DEF InsertCard, UpsertCard, SaveConsent, IssueCode, ConsumeCode, IssueTokens, UseChain
  <2>3. codes \subseteq CodeRecords
    BY DEF TypeInv
  <2> QED BY <2>1, <2>2, <2>3
<1>9. chains' \subseteq Chains
  <2>1. [scopes |-> visit[v].asks, open |-> TRUE] \in Chains
    BY <1>3 DEF Chains
  <2>2. \A c \in Chains : [c EXCEPT !.open = FALSE] \in Chains
    BY DEF Chains
  <2>3. \/ chains' = chains
        \/ chains' = {[c EXCEPT !.open = FALSE] : c \in chains}
        \/ chains' = chains \cup {[scopes |-> visit[v].asks, open |-> TRUE]}
    BY DEF InsertCard, UpsertCard, SaveConsent, IssueCode, ConsumeCode, IssueTokens, UseChain
  <2>4. chains \subseteq Chains
    BY DEF TypeInv
  <2>5. {[c EXCEPT !.open = FALSE] : c \in chains} \subseteq Chains
    BY <2>2, <2>4
  <2> QED BY <2>1, <2>3, <2>4, <2>5
<1>10. approved' \in BOOLEAN /\ blocked' \in BOOLEAN
  BY <1>5 DEF TypeInv
<1>11. TypeInv'
  BY <1>4, <1>5, <1>6, <1>7, <1>8, <1>9, <1>10 DEF TypeInv, Moves
<1>12. HandInv'
  BY <1>4, <1>6 DEF HandInv, Moves
<1> QED BY <1>11, <1>12

(* The operator, the user, the client's site, maintenance and the clock.    *)
LEMMA OutsideTypes ==
  ASSUME TypeInv, HandInv,
         \/ Approve \/ WithdrawApproval \/ (\E on \in BOOLEAN : Block(on)) \/ DeleteCard
         \/ CleanupCard \/ RevokeMetadataApp \/ (\E d \in Documents : Publish(d)) \/ NextDay
         \/ UNCHANGED metadataVars
  PROVE  TypeInv' /\ HandInv'
<1>1. visits' \in Nat /\ day' \in Nat /\ served' \in Documents /\ UNCHANGED <<admission, visit>>
      /\ decided' = decided /\ codes' = codes
  BY DEF Approve, WithdrawApproval, Block, DeleteCard, CleanupCard, RevokeMetadataApp, Publish,
         NextDay, metadataVars, Event, TypeInv
<1>2. approved' \in BOOLEAN /\ blocked' \in BOOLEAN
  <2>1. approved' \in {approved, TRUE, FALSE} /\ blocked' \in {blocked, TRUE, FALSE}
    BY DEF Approve, WithdrawApproval, Block, DeleteCard, CleanupCard, RevokeMetadataApp, Publish,
           NextDay, metadataVars, CardGone
  <2> QED BY <2>1 DEF TypeInv
<1>3. card' \in Cards /\ (card'.on # "none" => card'.fp \in Documents)
  <2>1. card \in Cards /\ (card.on # "none" => card.fp \in Documents)
    BY DEF TypeInv, HandInv
  <2>2. ASSUME NEW on \in BOOLEAN, Block(on)
        PROVE  card' \in Cards /\ (card'.on # "none" => card'.fp \in Documents)
    <3>1. PICK o \in {"enabled", "disabled"} : card' = [card EXCEPT !.on = o] /\ card.on # "none"
      BY <2>2 DEF Block
    <3> QED BY <2>1, <3>1 DEF Cards
  <2>3. CASE card' = NoCard
    BY <2>3, FirstRecords DEF NoCard
  <2>4. CASE card' = card
    BY <2>1, <2>4
  <2> QED BY <2>2, <2>3, <2>4 DEF Approve, WithdrawApproval, DeleteCard, CleanupCard,
          RevokeMetadataApp, Publish, NextDay, metadataVars, CardGone
<1>4. consent' \in Consents
  <2>1. consent' \in {consent, NoConsent}
    BY DEF Approve, WithdrawApproval, Block, DeleteCard, CleanupCard, RevokeMetadataApp, Publish,
           NextDay, metadataVars, CardGone
  <2> QED BY <2>1, FirstRecords DEF TypeInv
<1>5. chains' \subseteq Chains
  <2>1. \A c \in Chains : [c EXCEPT !.open = FALSE] \in Chains
    BY DEF Chains
  <2>2. \/ chains' = chains \/ chains' = {}
        \/ chains' = {[c EXCEPT !.open = FALSE] : c \in chains}
    BY DEF Approve, WithdrawApproval, Block, DeleteCard, CleanupCard, RevokeMetadataApp, Publish,
           NextDay, metadataVars, CardGone
  <2>3. chains \subseteq Chains
    BY DEF TypeInv
  <2> QED BY <2>1, <2>2, <2>3
<1>6. TypeInv'
  BY <1>1, <1>2, <1>3, <1>4, <1>5 DEF TypeInv
<1>7. HandInv'
  BY <1>1, <1>3 DEF HandInv
<1> QED BY <1>6, <1>7

LEMMA StepTypes ==
  ASSUME TypeInv, HandInv, [MetadataNext]_metadataVars
  PROVE  TypeInv' /\ HandInv'
<1>1. ASSUME NEW v \in Visits,
         \/ \E s \in Wishes : GetAuthorize(v, s) \/ PostDecision(v, s)
         \/ \E ttl \in DocumentTtls : FetchDocument(v, ttl)
         \/ FetchFails(v) \/ InsertCard(v) \/ RereadCard(v) \/ UpsertCard(v)
         \/ ResolvedClient(v) \/ ApprovalChecked(v) \/ ConsentLooked(v) \/ SaveConsent(v)
         \/ IssueCode(v)
         \/ \E c \in CodeRecords : ExchangeCode(v, c)
         \/ \E c \in Chains : RefreshChain(v, c)
         \/ ConsumeCode(v) \/ CheckGrant(v) \/ IssueTokens(v) \/ UseChain(v)
      PROVE  TypeInv' /\ HandInv'
  BY <1>1, ReadTypes, WriteTypes
<1> QED BY <1>1, OutsideTypes DEF MetadataNext

LEMMA InitTypes ==
  ASSUME MetadataInit
  PROVE  TypeInv /\ HandInv
<1>1. TypeInv
  BY AwayType, FirstRecords DEF MetadataInit, TypeInv
<1>2. HandInv
  BY AwayType DEF MetadataInit, HandInv, NoCard
<1> QED BY <1>1, <1>2

LEMMA TypesInvariant == MetadataSpec => [](TypeInv /\ HandInv)
<1>1. MetadataInit => TypeInv /\ HandInv
  BY InitTypes
<1>2. TypeInv /\ HandInv /\ [MetadataNext]_metadataVars => (TypeInv /\ HandInv)'
  BY StepTypes
<1> QED BY <1>1, <1>2, PTL DEF MetadataSpec

(* The row, the consent, the codes and the families of a client that        *)
(* describes itself keep their types; in particular no code is issued       *)
(* without a document (completeAuthorization).                              *)
THEOREM MetadataTyped == MetadataSpec => []MetadataTypeOK
<1>1. TypeInv /\ HandInv => MetadataTypeOK
  BY DEF TypeInv, MetadataTypeOK, Cards, Consents
<1> QED BY <1>1, TypesInvariant, PTL

-----------------------------------------------------------------------------
(* Consent to a document.                                                  *)

(* A request that was checked against the consent and has yet to issue its  *)
(* tokens goes by what the user has decided, even if the consent is gone.   *)
CheckedInv ==
  \A v \in Visits : visit[v].pc = "issue" => {visit[v].fp} \X visit[v].asks \subseteq decided

LEMMA CoveredDecided ==
  ASSUME AgreedToDocument, NEW fp, NEW scopes, ConsentCovers(fp, scopes)
  PROVE  {fp} \X scopes \subseteq decided
BY DEF AgreedToDocument, ConsentCovers

(* Where one invocation goes.                                              *)
LEMMA MovesTo ==
  ASSUME TypeInv, NEW v \in Visits
  PROVE  /\ Leaves(v) => visit'[v].pc = "away" /\ \A w \in Visits \ {v} : visit'[w] = visit[w]
         /\ \A pc : Goes(v, pc) => /\ visit'[v].pc = pc /\ visit'[v].fp = visit[v].fp
                                   /\ visit'[v].asks = visit[v].asks
                                   /\ \A w \in Visits \ {v} : visit'[w] = visit[w]
<1>1. visit[v] \in VisitRecords /\ visit \in [Visits -> VisitRecords]
  BY DEF TypeInv
<1>2. ASSUME Leaves(v)
      PROVE  visit'[v].pc = "away" /\ \A w \in Visits \ {v} : visit'[w] = visit[w]
  BY <1>1, <1>2, AwayType DEF Leaves
<1>3. ASSUME NEW pc, Goes(v, pc)
      PROVE  /\ visit'[v].pc = pc /\ visit'[v].fp = visit[v].fp /\ visit'[v].asks = visit[v].asks
             /\ \A w \in Visits \ {v} : visit'[w] = visit[w]
  BY <1>1, <1>3 DEF Goes, VisitRecords
<1> QED BY <1>2, <1>3

LEMMA CheckedMoves ==
  ASSUME CheckedInv, NEW v \in Visits, \A w \in Visits \ {v} : visit'[w] = visit[w],
         visit'[v].pc = "issue" => {visit'[v].fp} \X visit'[v].asks \subseteq decided',
         decided \subseteq decided'
  PROVE  CheckedInv'
<1>1. ASSUME NEW w \in Visits, visit'[w].pc = "issue"
      PROVE  {visit'[w].fp} \X visit'[w].asks \subseteq decided'
  <2>1. CASE w = v
    BY <1>1, <2>1
  <2>2. CASE w # v
    BY <1>1, <2>2 DEF CheckedInv
  <2> QED BY <2>1, <2>2
<1> QED BY <1>1 DEF CheckedInv

(* Requests that leave decisions and tokens alone.                         *)
LEMMA QuietAgreed ==
  ASSUME TypeInv, AgreedToDocument, CheckedInv, NEW v \in Visits,
         UNCHANGED <<consent, decided, honoured>>, \A w \in Visits \ {v} : visit'[w] = visit[w],
         visit'[v].pc # "issue"
  PROVE  AgreedToDocument' /\ CheckedInv'
<1>1. CheckedInv'
  BY CheckedMoves
<1>2. AgreedToDocument'
  BY DEF AgreedToDocument
<1> QED BY <1>1, <1>2

LEMMA EnterAgreed ==
  ASSUME TypeInv, AgreedToDocument, CheckedInv, NEW v \in Visits,
         \/ \E s \in Wishes : GetAuthorize(v, s) \/ PostDecision(v, s)
         \/ \E ttl \in DocumentTtls : FetchDocument(v, ttl)
         \/ \E c \in CodeRecords : ExchangeCode(v, c)
         \/ \E c \in Chains : RefreshChain(v, c)
         \/ RereadCard(v) \/ ResolvedClient(v)
  PROVE  AgreedToDocument' /\ CheckedInv'
<1>1. visit[v] \in VisitRecords /\ visit \in [Visits -> VisitRecords]
  BY DEF TypeInv
<1>2. UNCHANGED <<consent, decided, honoured>>
  BY DEF GetAuthorize, PostDecision, Authorize, FetchDocument, ExchangeCode, RefreshChain, Returns,
         RereadCard, ResolvedClient
<1>3. visit'[v].pc \in {"away", "existing", "fetch", "consume", "use", "batch", "approval"}
      /\ \A w \in Visits \ {v} : visit'[w] = visit[w]
  <2>1. ASSUME NEW s, NEW kind, Authorize(v, kind, s)
        PROVE  /\ visit'[v].pc \in {"existing", "fetch"}
               /\ \A w \in Visits \ {v} : visit'[w] = visit[w]
    <3>1. [Away EXCEPT !.pc = "existing", !.kind = kind, !.asks = s, !.fp = card.fp,
                       !.until = card.until].pc = "existing"
          /\ [Away EXCEPT !.pc = "fetch", !.kind = kind, !.asks = s].pc = "fetch"
      BY AwayType DEF VisitRecords
    <3>2. CASE card.on # "none" /\ card.until > day
      BY <1>1, <2>1, <3>1, <3>2 DEF Authorize, Enters
    <3>3. CASE ~(card.on # "none" /\ card.until > day)
      BY <1>1, <2>1, <3>1, <3>3 DEF Authorize, Enters
    <3> QED BY <3>2, <3>3
  <2>2. ASSUME NEW s, NEW kind \in {"consume", "use"}, Returns(v, kind, s)
        PROVE  visit'[v].pc = kind /\ \A w \in Visits \ {v} : visit'[w] = visit[w]
    <3>1. [Away EXCEPT !.pc = kind, !.kind = kind, !.asks = s, !.fp = card.fp].pc = kind
      BY AwayType DEF VisitRecords
    <3> QED BY <1>1, <2>2, <3>1 DEF Returns, Enters
  <2>3. ASSUME NEW ttl, FetchDocument(v, ttl)
        PROVE  visit'[v].pc = "existing" /\ \A w \in Visits \ {v} : visit'[w] = visit[w]
    BY <1>1, <2>3 DEF FetchDocument, VisitRecords
  <2>4. ASSUME RereadCard(v)
        PROVE  /\ visit'[v].pc \in {"away", "batch"}
               /\ \A w \in Visits \ {v} : visit'[w] = visit[w]
    <3>1. CASE card.on = "none"
      BY <2>4, <3>1, MovesTo DEF RereadCard
    <3>2. CASE card.on # "none"
      BY <1>1, <2>4, <3>2 DEF RereadCard, VisitRecords
    <3> QED BY <3>1, <3>2
  <2>5. ASSUME ResolvedClient(v)
        PROVE  /\ visit'[v].pc \in {"away", "approval"}
               /\ \A w \in Visits \ {v} : visit'[w] = visit[w]
    <3>1. CASE card.on = "none"
      BY <2>5, <3>1, MovesTo DEF ResolvedClient
    <3>2. CASE card.on # "none"
      BY <1>1, <2>5, <3>2 DEF ResolvedClient, VisitRecords
    <3> QED BY <3>1, <3>2
  <2> QED BY <2>1, <2>2, <2>3, <2>4, <2>5 DEF GetAuthorize, PostDecision, ExchangeCode, RefreshChain
<1> QED BY <1>2, <1>3, QuietAgreed

LEMMA GoAgreed ==
  ASSUME TypeInv, HandInv, AgreedToDocument, CheckedInv, NEW v \in Visits,
         \/ FetchFails(v) \/ InsertCard(v) \/ UpsertCard(v) \/ ApprovalChecked(v)
         \/ ConsentLooked(v) \/ IssueCode(v) \/ ConsumeCode(v)
  PROVE  AgreedToDocument' /\ CheckedInv'
<1>1. UNCHANGED <<consent, decided, honoured>>
  BY DEF FetchFails, InsertCard, UpsertCard, ApprovalChecked, ConsentLooked, IssueCode, ConsumeCode
<1>2. visit[v].pc = "approval" => visit[v].kind \in {"page", "decision"}
  BY DEF HandInv, VisitHolds
<1>3. \/ Leaves(v)
      \/ \E pc \in {"reread", "updated", "page", "decision", "code", "check"} : Goes(v, pc)
  BY <1>2
     DEF FetchFails, InsertCard, UpsertCard, ApprovalChecked, ConsentLooked, IssueCode, ConsumeCode
<1>4. visit'[v].pc # "issue" /\ \A w \in Visits \ {v} : visit'[w] = visit[w]
  BY <1>3, MovesTo
<1> QED BY <1>1, <1>4, QuietAgreed

LEMMA CheckAgreed ==
  ASSUME TypeInv, AgreedToDocument, CheckedInv, NEW v \in Visits, CheckGrant(v)
  PROVE  AgreedToDocument' /\ CheckedInv'
<1>1. UNCHANGED <<consent, decided, honoured>>
  BY DEF CheckGrant
<1>2. CASE ConsentCovers(visit[v].fp, visit[v].asks) /\ Admitted
  <2>1. {visit[v].fp} \X visit[v].asks \subseteq decided
    BY <1>2, CoveredDecided
  <2>2. /\ visit'[v].fp = visit[v].fp /\ visit'[v].asks = visit[v].asks
        /\ \A w \in Visits \ {v} : visit'[w] = visit[w]
    BY <1>2, MovesTo DEF CheckGrant
  <2>3. CheckedInv'
    BY <1>1, <2>1, <2>2, CheckedMoves
  <2> QED BY <1>1, <2>3 DEF AgreedToDocument
<1>3. CASE ~(ConsentCovers(visit[v].fp, visit[v].asks) /\ Admitted)
  BY <1>1, <1>3, MovesTo, QuietAgreed DEF CheckGrant
<1> QED BY <1>2, <1>3

LEMMA SaveAgreed ==
  ASSUME TypeInv, AgreedToDocument, CheckedInv, NEW v \in Visits, SaveConsent(v)
  PROVE  AgreedToDocument' /\ CheckedInv'
<1>1. CASE card.on = "none"
  BY <1>1, MovesTo, QuietAgreed DEF SaveConsent
<1>2. CASE card.on # "none"
  <2> DEFINE fp == visit[v].fp
             asks == visit[v].asks
  <2>1. /\ consent' = Merged(fp, asks) /\ decided' = decided \cup ({fp} \X asks)
        /\ honoured' = honoured /\ Goes(v, "code")
    BY <1>2 DEF SaveConsent
  <2>2. CheckedInv'
    <3>1. visit'[v].pc # "issue" /\ \A w \in Visits \ {v} : visit'[w] = visit[w]
      BY <2>1, MovesTo
    <3> QED BY <2>1, <3>1, CheckedMoves
  <2>3. {consent.fp} \X consent.scopes \subseteq decided /\ honoured \subseteq decided
    BY DEF AgreedToDocument
  <2> HIDE DEF fp, asks
  <2>4. consent'.fp = fp /\ consent'.scopes \subseteq IF consent.fp = fp
                                                       THEN consent.scopes \cup asks ELSE asks
    BY <2>1 DEF Merged
  <2>5. {consent'.fp} \X consent'.scopes \subseteq decided'
    <3>1. CASE consent.fp = fp
      BY <2>1, <2>3, <2>4, <3>1
    <3>2. CASE consent.fp # fp
      BY <2>1, <2>4, <3>2
    <3> QED BY <3>1, <3>2
  <2>6. AgreedToDocument'
    BY <2>1, <2>3, <2>5 DEF AgreedToDocument
  <2> QED BY <2>2, <2>6
<1> QED BY <1>1, <1>2

LEMMA HonourAgreed ==
  ASSUME TypeInv, AgreedToDocument, CheckedInv, NEW v \in Visits, IssueTokens(v) \/ UseChain(v)
  PROVE  AgreedToDocument' /\ CheckedInv'
<1>1. UNCHANGED <<consent, decided>> /\ Leaves(v)
  BY DEF IssueTokens, UseChain
<1>2. CheckedInv'
  BY <1>1, MovesTo, CheckedMoves
<1>3. honoured \subseteq decided /\ {consent.fp} \X consent.scopes \subseteq decided
  BY DEF AgreedToDocument
<1>4. honoured' \subseteq decided
  <2>1. CASE IssueTokens(v)
    BY <1>3, <2>1 DEF IssueTokens, CheckedInv
  <2>2. CASE UseChain(v)
    <3>1. CASE ConsentCovers(visit[v].fp, visit[v].asks)
      <4>1. {visit[v].fp} \X visit[v].asks \subseteq decided
        BY <3>1, CoveredDecided
      <4> QED BY <1>3, <2>2, <4>1 DEF UseChain
    <3>2. CASE ~ConsentCovers(visit[v].fp, visit[v].asks)
      BY <1>3, <2>2, <3>2 DEF UseChain
    <3> QED BY <3>1, <3>2
  <2> QED BY <2>1, <2>2
<1>5. AgreedToDocument'
  BY <1>1, <1>3, <1>4 DEF AgreedToDocument
<1> QED BY <1>2, <1>5

LEMMA OutsideAgreed ==
  ASSUME AgreedToDocument, CheckedInv,
         \/ Approve \/ WithdrawApproval \/ (\E on \in BOOLEAN : Block(on)) \/ DeleteCard
         \/ CleanupCard \/ RevokeMetadataApp \/ (\E d \in Documents : Publish(d)) \/ NextDay
         \/ UNCHANGED metadataVars
  PROVE  AgreedToDocument' /\ CheckedInv'
<1>1. /\ consent' \in {consent, NoConsent} /\ UNCHANGED <<visit, decided, honoured>>
  BY DEF Approve, WithdrawApproval, Block, DeleteCard, CleanupCard, RevokeMetadataApp, Publish,
         NextDay, metadataVars, CardGone
<1>2. {NoConsent.fp} \X NoConsent.scopes \subseteq decided
  BY DEF NoConsent
<1>3. AgreedToDocument'
  BY <1>1, <1>2 DEF AgreedToDocument
<1> QED BY <1>1, <1>3 DEF CheckedInv

LEMMA StepAgreed ==
  ASSUME TypeInv, HandInv, AgreedToDocument, CheckedInv, [MetadataNext]_metadataVars
  PROVE  AgreedToDocument' /\ CheckedInv'
<1>1. ASSUME NEW v \in Visits,
         \/ \E s \in Wishes : GetAuthorize(v, s) \/ PostDecision(v, s)
         \/ \E ttl \in DocumentTtls : FetchDocument(v, ttl)
         \/ FetchFails(v) \/ InsertCard(v) \/ RereadCard(v) \/ UpsertCard(v)
         \/ ResolvedClient(v) \/ ApprovalChecked(v) \/ ConsentLooked(v) \/ SaveConsent(v)
         \/ IssueCode(v)
         \/ \E c \in CodeRecords : ExchangeCode(v, c)
         \/ \E c \in Chains : RefreshChain(v, c)
         \/ ConsumeCode(v) \/ CheckGrant(v) \/ IssueTokens(v) \/ UseChain(v)
      PROVE  AgreedToDocument' /\ CheckedInv'
  BY <1>1, EnterAgreed, GoAgreed, CheckAgreed, SaveAgreed, HonourAgreed
<1> QED BY <1>1, OutsideAgreed DEF MetadataNext

(* Consent is to one fingerprint (docs/mcp.md): every scope a consent       *)
(* records, and every scope a token is issued or accepted for, was approved *)
(* for the document the request went by, as the POST of some decision found *)
(* it, however documents, decisions, revocations and clean-ups interleave   *)
(* with the awaits of a request (saveConsent, consentCoversScopes).         *)
THEOREM ConsentIsToDocument == MetadataSpec => []AgreedToDocument
<1>1. MetadataInit => AgreedToDocument /\ CheckedInv
  <2> SUFFICES ASSUME MetadataInit PROVE AgreedToDocument /\ CheckedInv
    OBVIOUS
  <2>1. AgreedToDocument
    BY DEF MetadataInit, AgreedToDocument, NoConsent
  <2>2. CheckedInv
    BY AwayType DEF MetadataInit, CheckedInv
  <2> QED BY <2>1, <2>2
<1>2. TypeInv /\ HandInv /\ AgreedToDocument /\ CheckedInv /\ [MetadataNext]_metadataVars
        => (AgreedToDocument /\ CheckedInv)'
  BY StepAgreed
<1> QED BY <1>1, <1>2, TypesInvariant, PTL DEF MetadataSpec

-----------------------------------------------------------------------------
(* The operator's block.                                                   *)

LEMMA StepBlock ==
  ASSUME TypeInv, BlockStands, [MetadataNext]_metadataVars
  PROVE  BlockStands'
<1>1. ASSUME NEW v \in Visits, InsertCard(v) \/ UpsertCard(v) PROVE BlockStands'
  <2>1. card \in Cards
    BY DEF TypeInv
  <2>2. blocked' = blocked /\ (card.on # "none" => card'.on = card.on)
    BY <1>1, <2>1 DEF InsertCard, UpsertCard, Cards
  <2> QED BY <2>2 DEF BlockStands
<1>2. ASSUME NEW on \in BOOLEAN, Block(on) PROVE BlockStands'
  <2>1. card \in Cards
    BY DEF TypeInv
  <2>2. CASE on
    BY <1>2, <2>1, <2>2 DEF Block, BlockStands, Cards
  <2>3. CASE ~on
    BY <1>2, <2>3 DEF Block, BlockStands
  <2> QED BY <2>2, <2>3
<1>3. CASE DeleteCard
  BY <1>3 DEF DeleteCard, CardGone, BlockStands
<1>4. CASE CleanupCard
  BY <1>4 DEF CleanupCard, Stale, BlockStands
<1>5. CASE UNCHANGED <<card, blocked>>
  BY <1>5 DEF BlockStands
<1>6. ASSUME NEW v \in Visits,
         \/ \E s \in Wishes : GetAuthorize(v, s) \/ PostDecision(v, s)
         \/ \E ttl \in DocumentTtls : FetchDocument(v, ttl)
         \/ FetchFails(v) \/ RereadCard(v) \/ ResolvedClient(v) \/ ApprovalChecked(v)
         \/ ConsentLooked(v) \/ SaveConsent(v) \/ IssueCode(v)
         \/ \E c \in CodeRecords : ExchangeCode(v, c)
         \/ \E c \in Chains : RefreshChain(v, c)
         \/ ConsumeCode(v) \/ CheckGrant(v) \/ IssueTokens(v) \/ UseChain(v)
      PROVE  UNCHANGED <<card, blocked>>
  BY <1>6 DEF GetAuthorize, PostDecision, Authorize, FetchDocument, FetchFails, RereadCard,
              ResolvedClient, ApprovalChecked, ConsentLooked, SaveConsent, IssueCode, ExchangeCode,
              RefreshChain, Returns, ConsumeCode, CheckGrant, IssueTokens, UseChain
<1>7. ASSUME Approve \/ WithdrawApproval \/ RevokeMetadataApp \/ (\E d \in Documents : Publish(d))
             \/ NextDay \/ UNCHANGED metadataVars
      PROVE  UNCHANGED <<card, blocked>>
  BY <1>7 DEF Approve, WithdrawApproval, RevokeMetadataApp, Publish, NextDay, metadataVars
<1> QED BY <1>1, <1>2, <1>3, <1>4, <1>5, <1>6, <1>7 DEF MetadataNext

(* A disabled row is a durable block (docs/operations.md): no onboarding,   *)
(* refresh of the document or clean-up lifts it (upsertMetadataClient,      *)
(* the maintenance of expired metadata clients).                            *)
THEOREM BlockIsDurable == MetadataSpec => []BlockStands
<1>1. MetadataInit => BlockStands
  BY DEF MetadataInit, BlockStands
<1>2. TypeInv /\ BlockStands /\ [MetadataNext]_metadataVars => BlockStands'
  BY StepBlock
<1> QED BY <1>1, <1>2, TypesInvariant, PTL DEF MetadataSpec
==============================================================================
