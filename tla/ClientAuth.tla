----------------------------- MODULE ClientAuth -----------------------------
(***************************************************************************)
(* Client authentication at the token endpoints (authenticateClient): no    *)
(* secret, a shared secret that operators rotate, or an assertion signed    *)
(* with a key that is fetched from the client's own site, hop by hop, and   *)
(* whose jti may be used once.  Shapes of credentials that are refused      *)
(* before anything is read, signatures and hashes are left out: a secret is *)
(* its number, an assertion its expiry and its place among the assertions.  *)
(*                                                                         *)
(* The fetch of a hop resolves the host again, so nothing is said of the    *)
(* address it goes to, only of the URLs that are let through to it.         *)
(***************************************************************************)
EXTENDS Naturals, FiniteSets

CONSTANTS
  Sites, PublicSites,   \* URLs, and those on public addresses
  JwksUri,              \* metadata_jwks_uri of the client with keys
  Assertions,           \* [jti, exp]
  Logins,               \* concurrent Worker invocations
  MaxRedirects, MaxLifetime, ClockTolerance,   \* CLIENT_METADATA_..., CLIENT_ASSERTION_...
  MaxLogins, MaxSeconds, MaxSecrets            \* bounds on events, the clock and rotations

ASSUME ClientAuthAssumption ==
  /\ PublicSites \subseteq Sites /\ JwksUri \in Sites /\ MaxRedirects \in Nat
  /\ \A a \in Assertions : a.exp \in Nat
  /\ MaxLifetime \in Nat /\ ClockTolerance \in Nat /\ MaxLogins \in Nat /\ MaxSeconds \in Nat /\ MaxSecrets \in Nat

(* A public client, one with a secret and one with keys.                   *)
Registered == {"public", "secret", "keys"}

VARIABLES
  registry,    \* oauth_clients.enabled, or none
  secret,      \* client_secret_hash of the client with a secret
  jtis,        \* oauth_client_assertion_jtis: jti and expires_at
  login,       \* locals of the invocations
  accepted,    \* history: acceptances of each assertion no later than its expiry
  lost,        \* history: how often its row in jtis went with the client
  issued,      \* secrets handed out by rotations
  second, logins

clientAuthVars == <<registry, secret, jtis, login, accepted, lost, issued, second, logins>>

NoAssertion == [jti |-> "none", exp |-> 0]
Out == [pc |-> "out", client |-> "none", proof |-> 0, hash |-> 0, arrived |-> 0, assertion |-> NoAssertion,
        url |-> "none", seen |-> {}]

ClientAuthInit ==
  /\ registry = [c \in Registered |-> "enabled"] /\ secret = 1 /\ jtis = {}
  /\ login = [q \in Logins |-> Out] /\ issued = {1}
  /\ accepted = [a \in Assertions |-> 0] /\ lost = accepted /\ second = 0 /\ logins = 0

-----------------------------------------------------------------------------
Refused(q) == login' = [login EXCEPT ![q] = Out]
Authenticated(q) == login' = [login EXCEPT ![q].pc = "in"]
Counted == logins < MaxLogins /\ logins' = logins + 1

(* extractCredentials; a secret is one that was ever handed out.            *)
Presents(q, c, proof, assertion) ==
  /\ login[q].pc = "out" /\ Counted
  /\ login' = [login EXCEPT ![q] = [Out EXCEPT !.pc = "client", !.client = c, !.proof = proof,
                                               !.arrived = secret, !.assertion = assertion]]
  /\ UNCHANGED <<registry, secret, jtis, accepted, lost, issued, second>>

PresentSecret(q, c, n) == c # "keys" /\ n \in issued \cup {0} /\ Presents(q, c, n, NoAssertion)
PresentAssertion(q, a) == Presents(q, "keys", 0, a)

(* The row, with the hash the secret is compared with later, and the        *)
(* methods of the client.                                                  *)
ReadClient(q) ==
  LET at == login[q] IN
  /\ at.pc = "client"
  /\ IF registry[at.client] # "enabled" THEN Refused(q)
     ELSE CASE at.client = "public" -> IF at.proof = 0 THEN Authenticated(q) ELSE Refused(q)
            [] at.client = "secret" ->
                 IF at.proof = 0 THEN Refused(q)
                 ELSE login' = [login EXCEPT ![q].pc = "compare", ![q].hash = secret]
            [] OTHER -> login' = [login EXCEPT ![q].pc = "hop", ![q].url = JwksUri]
  /\ UNCHANGED <<registry, secret, jtis, accepted, lost, issued, second, logins>>

(* Slip: a secret stays good until all of its rotations are known.          *)
AnySecret(at) == at.proof <= at.hash

(* verifyClientSecret. *)
SecretMatches(at) == at.proof = at.hash

CompareSecret(q) ==
  /\ login[q].pc = "compare"
  /\ IF SecretMatches(login[q]) THEN Authenticated(q) ELSE Refused(q)
  /\ UNCHANGED <<registry, secret, jtis, accepted, lost, issued, second, logins>>

(* The endpoint goes on with the client.                                   *)
GoesOn(q) ==
  /\ login[q].pc = "in" /\ Refused(q)
  /\ UNCHANGED <<registry, secret, jtis, accepted, lost, issued, second, logins>>

-----------------------------------------------------------------------------
(* fetchPublicJson: every hop is checked before it is fetched.             *)

(* isSafePublicFetchUrl, visited, resolvePublicHost, isPublicInternetAddress. *)
HopSafe(url, seen) == url \notin seen /\ url \in PublicSites

(* What comes before the fetch of a hop; its answer is one of the next three. *)
Hop(q) ==
  LET at == login[q] IN
  /\ at.pc = "hop"
  /\ IF HopSafe(at.url, at.seen)
     THEN login' = [login EXCEPT ![q].pc = "fetch", ![q].seen = @ \cup {at.url}] ELSE Refused(q)
  /\ UNCHANGED <<registry, secret, jtis, accepted, lost, issued, second, logins>>

Redirected(q, url) ==
  LET at == login[q] IN
  /\ at.pc = "fetch"
  /\ IF Cardinality(at.seen) > MaxRedirects THEN Refused(q)
     ELSE login' = [login EXCEPT ![q].pc = "hop", ![q].url = url]
  /\ UNCHANGED <<registry, secret, jtis, accepted, lost, issued, second, logins>>

(* Not JSON, too large, not 200, too slow, or no keys.                     *)
FetchFailed(q) ==
  /\ login[q].pc = "fetch" /\ Refused(q)
  /\ UNCHANGED <<registry, secret, jtis, accepted, lost, issued, second, logins>>

(* jwtVerify and the lifetime, by the clock read once the keys are there.   *)
InLifetime(a) == a.exp + ClockTolerance > second /\ a.exp <= second + MaxLifetime

Verified(q) ==
  /\ login[q].pc = "fetch"
  /\ IF InLifetime(login[q].assertion)
     THEN login' = [login EXCEPT ![q].pc = "jti", ![q].seen = {}, ![q].url = "none"] ELSE Refused(q)
  /\ UNCHANGED <<registry, secret, jtis, accepted, lost, issued, second, logins>>

-----------------------------------------------------------------------------
(* Slip: the number of rows inserted is not looked at.                     *)
AnyJti(a) == registry["keys"] # "none"

(* INSERT OR IGNORE: one row per jti, whatever its expiry, which refers to   *)
(* the client.                                                             *)
FreshJti(a) == registry["keys"] # "none" /\ \A b \in jtis : b.jti # a.jti

InsertJti(q) ==
  LET a == login[q].assertion IN
  /\ login[q].pc = "jti" /\ IF FreshJti(a) THEN Authenticated(q) ELSE Refused(q)
  /\ jtis' = IF FreshJti(a) THEN jtis \cup {a} ELSE jtis
  /\ accepted' = IF FreshJti(a) /\ second <= a.exp THEN [accepted EXCEPT ![a] = accepted[a] + 1] ELSE accepted
  /\ UNCHANGED <<registry, secret, lost, issued, second, logins>>

(* Maintenance drops the rows of assertions that have expired.             *)
CleanupJtis ==
  /\ \E a \in jtis : a.exp < second
  /\ jtis' = {a \in jtis : a.exp >= second}
  /\ UNCHANGED <<registry, secret, login, accepted, lost, issued, second, logins>>

-----------------------------------------------------------------------------
(* Rotation: the answer shows the secret whether or not the row is left.    *)
RotateSecret ==
  /\ registry["secret"] # "none" /\ Cardinality(issued) < MaxSecrets /\ Counted
  /\ LET n == Cardinality(issued) + 1 IN issued' = issued \cup {n} /\ secret' = n
  /\ UNCHANGED <<registry, jtis, login, accepted, lost, second>>

SetRegistered(c, on) ==
  /\ registry[c] \notin {"none", on} /\ Counted /\ registry' = [registry EXCEPT ![c] = on]
  /\ UNCHANGED <<secret, jtis, login, accepted, lost, issued, second>>

(* Slip: the rows of the jtis stay.                                        *)
RemoveKeyClientOnly ==
  /\ registry["keys"] # "none" /\ Counted /\ registry' = [registry EXCEPT !["keys"] = "none"]
  /\ UNCHANGED <<secret, jtis, login, accepted, lost, issued, second>>

(* The rows of the jtis go with the client; it can be onboarded again.      *)
RemoveKeyClient ==
  /\ registry["keys"] # "none" /\ Counted /\ registry' = [registry EXCEPT !["keys"] = "none"]
  /\ jtis' = {} /\ lost' = [a \in Assertions |-> IF a \in jtis THEN lost[a] + 1 ELSE lost[a]]
  /\ UNCHANGED <<secret, login, accepted, issued, second>>

OnboardAgain ==
  /\ registry["keys"] = "none" /\ Counted /\ registry' = [registry EXCEPT !["keys"] = "enabled"]
  /\ UNCHANGED <<secret, jtis, login, accepted, lost, issued, second>>

Tick ==
  /\ second < MaxSeconds /\ second' = second + 1
  /\ UNCHANGED <<registry, secret, jtis, login, accepted, lost, issued, logins>>

-----------------------------------------------------------------------------
ClientAuthNext ==
  \/ \E q \in Logins :
       \/ \E c \in {"public", "secret"}, n \in 0..MaxSecrets : PresentSecret(q, c, n)
       \/ \E a \in Assertions : PresentAssertion(q, a)
       \/ ReadClient(q) \/ CompareSecret(q) \/ GoesOn(q) \/ Hop(q)
       \/ \E url \in Sites : Redirected(q, url)
       \/ FetchFailed(q) \/ Verified(q) \/ InsertJti(q)
  \/ CleanupJtis \/ RotateSecret \/ RemoveKeyClient \/ OnboardAgain \/ Tick
  \/ \E c \in Registered, on \in {"enabled", "disabled"} : SetRegistered(c, on)

ClientAuthSpec == ClientAuthInit /\ [][ClientAuthNext]_clientAuthVars

-----------------------------------------------------------------------------
(* The variables have their types.                                         *)
ClientAuthTypeOK ==
  /\ registry \in [Registered -> {"none", "enabled", "disabled"}] /\ secret \in issued
  /\ issued = 1..Cardinality(issued) /\ jtis \subseteq Assertions
  /\ accepted \in [Assertions -> Nat] /\ lost \in [Assertions -> Nat]
  /\ registry["keys"] = "none" => jtis = {}

(* docs/mcp.md: assertions are replay-checked.  However requests with the   *)
(* same assertion race with each other and with the clean-up of jtis, until *)
(* it expires it is accepted a second time only after the client was        *)
(* deleted and, with it, the row that remembers the first; and a secret     *)
(* that was replaced before a request arrived does not authenticate it.     *)
AuthenticationHolds ==
  /\ \A a \in Assertions : accepted[a] <= 1 + lost[a]
  /\ \A q \in Logins : login[q].pc = "in" /\ login[q].client = "secret" => login[q].proof >= login[q].arrived
=============================================================================
