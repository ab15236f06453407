------------------------------ MODULE Passkeys ------------------------------
(***************************************************************************)
(* Passkey ceremonies.  A ceremony is a one-time object that holds a        *)
(* challenge; a passkey is a row with a signature counter.  Signatures and  *)
(* authenticators are external: a response to a challenge carries any       *)
(* counter, since an authenticator may have been cloned.  The session a     *)
(* login ends in is in Reauthentication.                                    *)
(***************************************************************************)
EXTENDS Naturals, FiniteSets

CONSTANTS
  People, Keys, Ceremonies,
  Responses,             \* requests that may be in progress at once
  CeremonyTtl,          \* TOKEN_TTL.webauthnChallenge
  RecentAuth,           \* RECENT_AUTH_SECONDS
  MaxCount,             \* bound on signature counters
  MaxInstant, MaxArrivals

ASSUME PasskeysAssumption ==
  /\ Keys \cap Ceremonies = {} /\ "none" \notin Keys \cup Ceremonies
  /\ CeremonyTtl \in Nat /\ RecentAuth \in Nat /\ MaxCount \in Nat /\ MaxInstant \in Nat /\ MaxArrivals \in Nat

VARIABLES
  disabled,   \* the disabled accounts
  since,      \* who is signed in, and since when
  passkey,    \* webauthn_credentials by credential id
  ceremony,   \* WebAuthnChallengeDO
  handler,    \* the requests in progress
  entered,    \* the logins that ended in a session, by ceremony
  instant, arrived

passkeyVars == <<disabled, since, passkey, ceremony, handler, entered, instant, arrived>>

Nobody == "nobody"
NoKey == [of |-> Nobody, counter |-> 0, via |-> "none"]
NoCeremony == [st |-> "none", kind |-> "authentication", of |-> Nobody, until |-> 0]
Idle == [pc |-> "idle", of |-> Nobody, via |-> "none", key |-> "none", enrolment |-> "none", read |-> 0, count |-> 0]

(* One user is signed in and may have passkeys; via tells the rows that a   *)
(* credential id has had apart, and enrolment is the row a login advanced.  *)
PasskeysInit ==
  /\ disabled = {} /\ ceremony = [c \in Ceremonies |-> NoCeremony] /\ handler = [r \in Responses |-> Idle]
  /\ \E u \in People, enrolled \in SUBSET Keys :
       /\ since = [v \in {u} |-> 0]
       /\ passkey = [k \in Keys |-> IF k \in enrolled THEN [of |-> u, counter |-> 0, via |-> k] ELSE NoKey]
  /\ entered = {} /\ instant = 0 /\ arrived = 0

(* A live session with hasRecentAuthentication.                            *)
Recent(u) == u \in DOMAIN since \ disabled /\ instant - since[u] <= RecentAuth

(* A request comes in; so many in all.                                     *)
Arrives == arrived < MaxArrivals /\ arrived' = arrived + 1
Begin(r, request) == handler[r].pc = "idle" /\ Arrives /\ handler' = [handler EXCEPT ![r] = request]
Done(r) == handler' = [handler EXCEPT ![r] = Idle]

-----------------------------------------------------------------------------
(* OneTimeConsumeDO: store, consume and alarm.                             *)

Store(c, kind, u) ==
  /\ ceremony[c].st = "none"
  /\ ceremony' = [ceremony EXCEPT ![c] = [st |-> "stored", kind |-> kind, of |-> u, until |-> instant + CeremonyTtl]]

(* Slip: the value is read and not marked.                                 *)
Peeked(c) == ceremony

Spent(c) ==
  [ceremony EXCEPT ![c].st =
     IF ceremony[c].st # "stored" THEN ceremony[c].st ELSE IF instant > ceremony[c].until THEN "gone" ELSE "consumed"]

Found(c, kind) == ceremony[c].st = "stored" /\ instant <= ceremony[c].until /\ ceremony[c].kind = kind

Forget(c) ==
  /\ ceremony[c].st \in {"stored", "consumed"} /\ instant > ceremony[c].until
  /\ ceremony' = [ceremony EXCEPT ![c].st = "gone"]
  /\ UNCHANGED <<disabled, since, passkey, handler, entered, instant, arrived>>

-----------------------------------------------------------------------------
(* Registration.                                                           *)

RegisterOptions(u, c) ==
  /\ Arrives /\ Recent(u) /\ Store(c, "registration", u)
  /\ UNCHANGED <<disabled, since, passkey, handler, entered, instant>>

(* A challenge of another kind, or of another user, is used up and refused. *)
RegisterConsume(r, u, c) ==
  /\ Recent(u) /\ ceremony[c].st # "none" /\ ceremony' = Spent(c)
  /\ Begin(r, IF Found(c, "registration") /\ ceremony[c].of = u
                THEN [Idle EXCEPT !.pc = "register", !.of = u, !.via = c] ELSE Idle)
  /\ UNCHANGED <<disabled, since, passkey, entered, instant>>

(* verifyAndStoreRegistration; credential_id is UNIQUE.                    *)
InsertCredential(r, k, n) ==
  /\ handler[r].pc = "register" /\ Done(r) /\ passkey[k] = NoKey
  /\ passkey' = [passkey EXCEPT ![k] = [of |-> handler[r].of, counter |-> n, via |-> handler[r].via]]
  /\ UNCHANGED <<disabled, since, ceremony, entered, instant, arrived>>

(* The response does not verify, or the credential is known.               *)
RegisterRefused(r) ==
  /\ handler[r].pc = "register" /\ Done(r)
  /\ UNCHANGED <<disabled, since, passkey, ceremony, entered, instant, arrived>>

(* Removed by its owner or by an administrator.                            *)
DeleteCredential(k) ==
  /\ Arrives /\ passkey[k] # NoKey /\ passkey' = [passkey EXCEPT ![k] = NoKey]
  /\ UNCHANGED <<disabled, since, ceremony, handler, entered, instant>>

-----------------------------------------------------------------------------
(* Signing in.                                                             *)

LoginOptions(c) ==
  /\ Arrives /\ Store(c, "authentication", Nobody)
  /\ UNCHANGED <<disabled, since, passkey, handler, entered, instant>>

LoginConsume(r, c) ==
  /\ ceremony[c].st # "none" /\ ceremony' = Spent(c)
  /\ Begin(r, IF Found(c, "authentication") THEN [Idle EXCEPT !.pc = "assert", !.via = c] ELSE Idle)
  /\ UNCHANGED <<disabled, since, passkey, entered, instant>>

(* verifyAuthenticationResponse, external: a counter that does not advance  *)
(* is refused, unless the authenticator does not count.                    *)
Advances(stored, n) == n > stored \/ (n = 0 /\ stored = 0)

ReadCredential(r, k, n) ==
  /\ handler[r].pc = "assert" /\ passkey[k] # NoKey /\ Advances(passkey[k].counter, n)
  /\ handler' = [handler EXCEPT ![r] = [handler[r] EXCEPT !.pc = "counter", !.key = k, !.of = passkey[k].of,
                                                          !.read = passkey[k].counter, !.count = n]]
  /\ UNCHANGED <<disabled, since, passkey, ceremony, entered, instant, arrived>>

(* Unknown credential, or the response does not verify.                    *)
AssertionRefused(r) ==
  /\ handler[r].pc = "assert" /\ Done(r)
  /\ UNCHANGED <<disabled, since, passkey, ceremony, entered, instant, arrived>>

(* Slip: the row is updated whatever its counter is by now.                *)
KeyExists(r) == passkey[handler[r].key] # NoKey

(* WHERE credential_id = ? AND counter = ?                                 *)
CounterAsRead(r) == passkey[handler[r].key] # NoKey /\ passkey[handler[r].key].counter = handler[r].read

UpdateCounter(r) ==
  /\ handler[r].pc = "counter"
  /\ IF CounterAsRead(r)
       THEN /\ passkey' = [passkey EXCEPT ![handler[r].key].counter = handler[r].count]
            /\ handler' = [handler EXCEPT ![r].pc = "owner", ![r].enrolment = passkey[handler[r].key].via]
       ELSE Done(r) /\ UNCHANGED passkey
  /\ UNCHANGED <<disabled, since, ceremony, entered, instant, arrived>>

ReadOwner(r) ==
  /\ handler[r].pc = "owner"
  /\ IF handler[r].of \in disabled THEN Done(r) ELSE handler' = [handler EXCEPT ![r].pc = "create"]
  /\ UNCHANGED <<disabled, since, passkey, ceremony, entered, instant, arrived>>

(* Slip: the account is not looked at again.                               *)
CreatedAnyway(r) == TRUE

(* createSession inserts nothing for an account that is disabled by then.   *)
MayEnter(r) == handler[r].of \notin disabled

Enter(r) ==
  /\ handler[r].pc = "create" /\ Done(r)
  /\ IF MayEnter(r)
       THEN /\ entered' = entered \cup {[via |-> handler[r].via, enrolment |-> handler[r].enrolment,
                                         count |-> handler[r].count, by |-> r]}
            /\ since' = [u \in DOMAIN since \cup {handler[r].of} |-> IF u = handler[r].of THEN instant ELSE since[u]]
       ELSE UNCHANGED <<entered, since>>
  /\ UNCHANGED <<disabled, passkey, ceremony, instant, arrived>>

-----------------------------------------------------------------------------
(* updateUser with disabled: the account's sessions go too.                *)
Disable(u) ==
  /\ Arrives /\ u \notin disabled /\ disabled' = disabled \cup {u}
  /\ since' = [v \in DOMAIN since \ {u} |-> since[v]]
  /\ UNCHANGED <<passkey, ceremony, handler, entered, instant>>

Later ==
  /\ instant < MaxInstant /\ instant' = instant + 1
  /\ UNCHANGED <<disabled, since, passkey, ceremony, handler, entered, arrived>>

PasskeysNext ==
  \/ \E c \in Ceremonies :
       \/ LoginOptions(c) \/ Forget(c)
       \/ \E u \in People : RegisterOptions(u, c)
       \/ \E r \in Responses : LoginConsume(r, c) \/ \E u \in People : RegisterConsume(r, u, c)
  \/ \E r \in Responses :
       \/ \E k \in Keys, n \in 0..MaxCount : InsertCredential(r, k, n) \/ ReadCredential(r, k, n)
       \/ RegisterRefused(r) \/ AssertionRefused(r) \/ UpdateCounter(r) \/ ReadOwner(r) \/ Enter(r)
  \/ \E k \in Keys : DeleteCredential(k)
  \/ \E u \in People : Disable(u)
  \/ Later

PasskeysSpec == PasskeysInit /\ [][PasskeysNext]_passkeyVars

-----------------------------------------------------------------------------
(* The variables have their types.                                         *)
PasskeysTypeOK ==
  /\ disabled \subseteq People /\ DOMAIN since \subseteq People /\ \A k \in Keys : passkey[k].counter \in 0..MaxCount
  /\ \A c \in Ceremonies : ceremony[c].st \in {"none", "stored", "consumed", "gone"}
  /\ \A r \in Responses : handler[r].pc \in {"idle", "register", "assert", "counter", "owner", "create"}

(* One ceremony is answered once: neither two logins, nor a login and a     *)
(* passkey, stem from the same challenge.  auth/passkey.ts, "Failing closed *)
(* prevents an older assertion from decreasing the counter": of the logins  *)
(* that advanced one row no two repeat a counter, however their reads and   *)
(* updates interleave, unless the authenticator does not count.  And no     *)
(* disabled account is signed in.                                          *)
CeremoniesHold ==
  /\ \A x, y \in entered : x # y => x.via # y.via /\ (x.enrolment # y.enrolment \/ x.count # y.count \/ x.count = 0)
  /\ \A x \in entered, k \in Keys : passkey[k].via # x.via
  /\ DOMAIN since \cap disabled = {}
=============================================================================
