---------------------------- MODULE SigningKeys ----------------------------
(***************************************************************************)
(* The signing keyring: one versioned D1 row, a D1 lease that is meant to  *)
(* serialise its writers, a cache of the row in every isolate, the scheduled *)
(* maintenance that stages and activates keys, the first request that      *)
(* creates or migrates the keyring, and a relying party that caches the     *)
(* published JWKS.                                                         *)
(*                                                                         *)
(* Time is counted in steps of the clock.  A key is a number, in the order *)
(* in which keys are stored.                                               *)
(***************************************************************************)
EXTENDS Integers, FiniteSets

CONSTANTS
  Isolates,
  Jobs,               \* concurrent invocations that load or write the keyring
  CronPeriod,         \* the cron trigger fires at multiples of this
  RotationInterval,   \* keyRotationIntervalSeconds
  Propagation,        \* JWKS_PROPAGATION_SECONDS
  CacheTtl,           \* KEYRING_CACHE_TTL_MS
  JwksAge,            \* max-age plus stale-while-revalidate of jwks.json
  Grace,              \* RETIRED_GRACE_SECONDS
  TokenTtl,           \* the longest life of a token that must stay verifiable
  KeyLease, JobLease, \* ROTATION_LEASE_SECONDS, maintenanceLeaseSeconds
  CronDelay,          \* a cron event is over this long after its scheduled time
  LoadLatency,        \* a load of the keyring is over this long after it began
  LegacyBoot,         \* whether a keyring may be found in the old KV store
  MaxClock, MaxFaults \* bounds: the clock stops, and so do the faults

ASSUME ConstantsAssumption ==
  /\ Isolates # {} /\ LegacyBoot \in BOOLEAN
  /\ CronPeriod \in Nat \ {0} /\ RotationInterval \in Nat \ {0}
  /\ Propagation \in Nat /\ CacheTtl \in Nat /\ JwksAge \in Nat
  /\ Grace \in Nat /\ TokenTtl \in Nat
  /\ KeyLease \in Nat \ {0} /\ JobLease \in Nat \ {0}
  /\ CronDelay \in Nat /\ LoadLatency \in Nat
  /\ MaxClock \in Nat /\ MaxFaults \in Nat

(* 91 days against minutes. *)
ASSUME GraceAssumption == CronDelay < Grace /\ LoadLatency < Grace

(* What the lifetimes owe each other: a document built from the oldest     *)
(* cached keyring is out of use before a key it lacks is old enough to      *)
(* sign, and before the cron event after the one that staged the key; a     *)
(* late event is over before a key it staged could be activated; and a      *)
(* retired key outlives the tokens of an isolate that has not noticed.      *)
(* The code has 30 + 90 seconds against 120, an hourly trigger, and 91 days *)
(* against the longest session.                                             *)
Timely ==
  /\ 0 < CacheTtl /\ 0 < JwksAge /\ 0 < TokenTtl
  /\ CacheTtl + JwksAge + 2 * LoadLatency <= Propagation + 1
  /\ CronDelay + LoadLatency < Propagation
  /\ CronDelay + LoadLatency + CacheTtl + JwksAge <= CronPeriod + 1
  /\ CronDelay + LoadLatency + CacheTtl + TokenTtl <= Grace + 1

VARIABLES
  clock,
  ring,      \* signing_key_state; version 0 is the missing row
  nextKid,   \* the next key that will be stored
  lease,     \* maintenance_leases, one row per job name
  kv,        \* which of the two pre-D1 copies exist in KV
  marker,    \* maintenance_state has signing_key_legacy_kv_cleanup_pending
  cache,     \* keyringCache of each isolate
  job,       \* what each invocation is doing
  signed,    \* signed[k]: when key k was last used to sign
  jwks,      \* the JWKS document a relying party holds
  faults

vars == <<clock, ring, nextKid, lease, kv, marker, cache, job, signed, jwks, faults>>

Never == -1             \* the null of retiredAt and pendingSince
NoKid == -1             \* the null of pendingKid
LegacyKid == 0
Nobody == "nobody"      \* no row in maintenance_leases
Lost == "lost"          \* an owner that died without giving the lease back
AnyIsolate == CHOOSE i \in Isolates : TRUE

NoRing == [version |-> 0, active |-> NoKid, pending |-> NoKid, since |-> Never,
           keys |-> [k \in {} |-> 0]]

NoCache == [ring |-> NoRing, until |-> 0]

(* A stored key: when it was created and retired, and whether the private  *)
(* half is still there.                                                    *)
FreshKey(at) == [created |-> at, retiredAt |-> Never, priv |-> TRUE]

(* The keyring of the KV store, which an older Worker may have copied into *)
(* D1 without removing it, as keyringSchema completes it.                    *)
LegacyRing == [version |-> 0, active |-> LegacyKid, pending |-> NoKid, since |-> Never,
               keys |-> [k \in {LegacyKid} |-> FreshKey(0)]]

Copies == {"signingKeys", "activeKid"}

NoJob == [pc |-> "idle", kind |-> "load", iso |-> AnyIsolate, at |-> 0, seen |-> NoRing,
          legacy |-> FALSE, back |-> "idle", releasing |-> FALSE, deadline |-> 0]

Init ==
  /\ clock = 0
  /\ nextKid = 1
  /\ lease = [n \in {"key", "job"} |-> [owner |-> Nobody, until |-> 0]]
  /\ \/ ring = NoRing /\ kv \in IF LegacyBoot THEN {{}, Copies} ELSE {{}}
     \/ LegacyBoot /\ ring = [LegacyRing EXCEPT !.version = 1] /\ kv = Copies
  /\ marker = FALSE
  /\ cache = [i \in Isolates |-> NoCache]
  /\ job = [p \in Jobs |-> NoJob]
  /\ signed = [k \in {} |-> 0]
  /\ jwks = [kids |-> {}, until |-> 0]
  /\ faults = 0

-----------------------------------------------------------------------------
(* Pieces shared by the handlers.                                          *)

Remembered(i, r) == [cache EXCEPT ![i] = [ring |-> r, until |-> clock + CacheTtl]]
Cached(i) == cache[i].ring # NoRing /\ clock < cache[i].until

Retired(key) == key.retiredAt # Never

(* publishedKeys: the active key, the staged one, and retired ones for a   *)
(* while.                                                                  *)
Published(r, now) ==
  {k \in DOMAIN r.keys : \/ k \in {r.active, r.pending}
                         \/ Retired(r.keys[k]) /\ now - r.keys[k].retiredAt < Grace}

(* hasUsableActiveKey. *)
Usable(r) ==
  r.active \in DOMAIN r.keys /\ ~Retired(r.keys[r.active]) /\ r.keys[r.active].priv

(* The INSERT ... ON CONFLICT ... WHERE lease_until <= now of both leases. *)
LeaseFree(n) == lease[n].until <= clock
(* Slip: the row is written without the owner's token.                     *)
TakeAnonymously(n, p, duration) ==
  lease' = [lease EXCEPT ![n] = [owner |-> "", until |-> clock + duration]]

Take(n, p, duration) == lease' = [lease EXCEPT ![n] = [owner |-> p, until |-> clock + duration]]
(* DELETE ... WHERE job_name = ? AND owner_token = ?. *)
Release(n, p) ==
  lease' = IF lease[n].owner = p THEN [lease EXCEPT ![n] = [owner |-> Nobody, until |-> 0]] ELSE lease

Goto(p, pc) == job' = [job EXCEPT ![p].pc = pc]

(* loadPersistedKeyring: the row as it is now; while the marker is set the *)
(* legacy copies are removed before the caller goes on.                    *)
Loaded(p, pc) ==
  job' = [job EXCEPT ![p].seen = ring, ![p].pc = IF ring # NoRing /\ marker THEN "kvDelete" ELSE pc,
                     ![p].back = pc]

Fault == faults < MaxFaults /\ faults' = faults + 1

-----------------------------------------------------------------------------
(* runScheduledMaintenance, up to the end of rotateSigningKeyWhenDue.      *)

(* The trigger may fire late and more than once.                           *)
CronStart(p, i) ==
  LET at == (clock \div CronPeriod) * CronPeriod
  IN  /\ job[p].pc = "idle" /\ clock <= at + CronDelay
      /\ LeaseFree("job")
      /\ Take("job", p, JobLease)
      /\ job' = [job EXCEPT ![p] = [NoJob EXCEPT !.pc = "status", !.kind = "cron", !.iso = i,
                                                 !.at = at, !.deadline = at + CronDelay]]
      /\ UNCHANGED <<clock, ring, nextKid, kv, marker, cache, signed, jwks, faults>>

(* getSigningKeyStatus refreshes or clears the cache of the isolate.       *)
CronStatus(p) ==
  /\ job[p].pc = "status"
  /\ Loaded(p, "due")
  /\ UNCHANGED <<clock, ring, nextKid, lease, kv, marker, cache, signed, jwks, faults>>

Due(r, at) ==
  IF r.pending # NoKid THEN at - r.since >= Propagation
  ELSE r = NoRing \/ at - r.keys[r.active].created >= RotationInterval

CronDue(p) ==
  /\ job[p].pc = "due"
  /\ cache' = IF job[p].seen = NoRing
              THEN [cache EXCEPT ![job[p].iso] = NoCache]
              ELSE Remembered(job[p].iso, job[p].seen)
  /\ Goto(p, IF Due(job[p].seen, job[p].at) THEN "lease" ELSE "end")
  /\ UNCHANGED <<clock, ring, nextKid, lease, kv, marker, signed, jwks, faults>>

(* rotateSigningKey takes the key lease or throws.                         *)
CronLease(p) ==
  /\ job[p].pc = "lease" /\ job[p].kind = "cron"
  /\ IF LeaseFree("key")
     THEN Take("key", p, KeyLease) /\ Goto(p, "rotate")
     ELSE Goto(p, "end") /\ UNCHANGED lease
  /\ UNCHANGED <<clock, ring, nextKid, kv, marker, cache, signed, jwks, faults>>

(* The rest of the maintenance does not touch the keyring (RefreshTokens   *)
(* has its clean-up); then the lease of the job is given back.             *)
CronEnd(p) ==
  /\ job[p].pc = "end" /\ job[p].kind = "cron" /\ lease["key"].owner # p
  /\ Release("job", p)
  /\ job' = [job EXCEPT ![p] = NoJob]
  /\ UNCHANGED <<clock, ring, nextKid, kv, marker, cache, signed, jwks, faults>>

-----------------------------------------------------------------------------
(* rotatePersistedKeyring.                                                 *)

RotateLoad(p) ==
  /\ job[p].pc = "rotate"
  /\ Loaded(p, IF ring = NoRing THEN "legacy" ELSE "write")
  /\ UNCHANGED <<clock, ring, nextKid, lease, kv, marker, cache, signed, jwks, faults>>

(* loadLegacyKeyring needs both copies.                                    *)
RotateLegacy(p) ==
  /\ job[p].pc = "legacy"
  /\ IF kv = Copies
     THEN job' = [job EXCEPT ![p].seen = LegacyRing, ![p].legacy = TRUE, ![p].pc = "mark"]
     ELSE Goto(p, "write")
  /\ UNCHANGED <<clock, ring, nextKid, lease, kv, marker, cache, signed, jwks, faults>>

(* Slip: the marker is left to a later readiness probe.                    *)
MarkSkipped(p) ==
  /\ job[p].pc = "mark"
  /\ Goto(p, "write")
  /\ UNCHANGED <<clock, ring, nextKid, lease, kv, marker, cache, signed, jwks, faults>>

(* markLegacyKvCleanupPending comes before the write that makes the KV     *)
(* copies redundant.                                                       *)
Mark(p) ==
  /\ job[p].pc = "mark"
  /\ marker' = TRUE
  /\ Goto(p, "write")
  /\ UNCHANGED <<clock, ring, nextKid, lease, kv, cache, signed, jwks, faults>>

(* Retired keys lose their private half, and go when their grace is over.  *)
Stripped(keys) ==
  [k \in DOMAIN keys |-> IF Retired(keys[k]) THEN [keys[k] EXCEPT !.priv = FALSE] ELSE keys[k]]
Retained(keys, at) ==
  LET D == {k \in DOMAIN keys : Retired(keys[k]) => at - keys[k].retiredAt < Grace}
  IN  [k \in D |-> keys[k]]

(* First boot: the first key is active at once.                            *)
Boot(at) ==
  [NoRing EXCEPT !.active = nextKid, !.keys = [k \in {nextKid} |-> FreshKey(at)]]

(* Slip: the new key signs at once.                                        *)
StagedActive(r, at) ==
  LET old == [r.keys EXCEPT ![r.active].priv = FALSE, ![r.active].retiredAt = at]
  IN  [r EXCEPT !.active = nextKid,
                !.keys = [k \in {nextKid} \cup DOMAIN old |->
                            IF k = nextKid THEN FreshKey(at) ELSE old[k]]]

(* Phase 1: publish the next key, go on signing with the current one.      *)
Staged(r, at) ==
  LET old == Retained(Stripped(r.keys), at)
  IN  [r EXCEPT !.pending = nextKid, !.since = at,
                !.keys = [k \in {nextKid} \cup DOMAIN old |->
                            IF k = nextKid THEN FreshKey(at) ELSE old[k]]]

(* Slip: the key that stops signing keeps its private half.                *)
ActivatedKeepingPrivate(r, at) ==
  [r EXCEPT !.active = r.pending, !.pending = NoKid, !.since = Never,
            !.keys = Retained([r.keys EXCEPT ![r.active].retiredAt = at], at)]

(* Phase 2: the staged key signs, the old one keeps its public half.       *)
Activated(r, at) ==
  [r EXCEPT !.active = r.pending, !.pending = NoKid, !.since = Never,
            !.keys = Retained(Stripped([r.keys EXCEPT ![r.active].retiredAt = at]), at)]

TooEarly(r, at) == r.pending # NoKid /\ at - r.since < Propagation

(* What a job wants to store: the migrated keyring when it initialises, a  *)
(* rotated one otherwise.                                                  *)
Rotated(p) ==
  LET r == job[p].seen  at == job[p].at
  IN  IF job[p].kind = "load" /\ job[p].legacy THEN r
      ELSE IF r = NoRing THEN Boot(at)
      ELSE IF r.pending = NoKid THEN Staged(r, at)
      ELSE Activated(r, at)

(* Slip: the UPDATE does not compare the version.                          *)
VersionIgnored(p) == TRUE

(* persistKeyring: INSERT ... ON CONFLICT DO NOTHING, or an UPDATE that    *)
(* compares the version.                                                   *)
VersionMatches(p) == ring.version = job[p].seen.version

Stored(p) ==
  /\ VersionMatches(p)
  /\ ring' = [Rotated(p) EXCEPT !.version = ring.version + 1]
  /\ nextKid' = IF nextKid \in DOMAIN ring'.keys THEN nextKid + 1 ELSE nextKid

Persist(p) ==
  /\ job[p].pc = "write" /\ ~TooEarly(job[p].seen, job[p].at)
  /\ \/ /\ Stored(p)
        /\ cache' = Remembered(job[p].iso, ring')
        /\ job' = [job EXCEPT ![p].seen = ring', ![p].back = "return",
                              ![p].pc = IF job[p].legacy THEN "kvDelete" ELSE "return"]
     \/ /\ ~VersionMatches(p)
        /\ Goto(p, "end")
        /\ UNCHANGED <<ring, nextKid, cache>>
  /\ UNCHANGED <<clock, lease, kv, marker, signed, jwks, faults>>

(* A staged key that is too young to sign is returned as it is.            *)
PersistNothing(p) ==
  /\ job[p].pc = "write" /\ TooEarly(job[p].seen, job[p].at)
  /\ Goto(p, "return")
  /\ UNCHANGED <<clock, ring, nextKid, lease, kv, marker, cache, signed, jwks, faults>>

(* D1 reports an error although it has committed.                          *)
PersistError(p) ==
  /\ job[p].pc = "write" /\ ~TooEarly(job[p].seen, job[p].at)
  /\ Fault
  /\ Stored(p)
  /\ Goto(p, "end")
  /\ UNCHANGED <<clock, lease, kv, marker, cache, signed, jwks>>

(* The caller remembers what it was returned; a failure goes to the end.   *)
Return(p) ==
  /\ job[p].pc = "return"
  /\ cache' = Remembered(job[p].iso, job[p].seen)
  /\ Goto(p, "end")
  /\ UNCHANGED <<clock, ring, nextKid, lease, kv, marker, signed, jwks, faults>>

(* `finally` gives the key lease back, to whoever still owns it.           *)
ReleaseKey(p) ==
  /\ lease["key"].owner = p /\ (job[p].pc = "end" \/ job[p].releasing)
  /\ Release("key", p)
  /\ UNCHANGED <<clock, ring, nextKid, kv, marker, cache, job, signed, jwks, faults>>

-----------------------------------------------------------------------------
(* removeLegacyKvKeyring, retried by every load while the marker is set.   *)

(* One of the two deletes may fail: the error is logged, the marker stays. *)
KvDelete(p) ==
  /\ job[p].pc = "kvDelete"
  /\ \/ /\ kv' = {}
        /\ Goto(p, "kvClear")
        /\ UNCHANGED faults
     \/ /\ Fault
        /\ \E left \in SUBSET kv \ {{}} : kv' = left
        /\ Goto(p, job[p].back)
  /\ UNCHANGED <<clock, ring, nextKid, lease, marker, cache, signed, jwks>>

(* Both copies were read back and are gone.                                *)
KvClear(p) ==
  /\ job[p].pc = "kvClear"
  /\ marker' = FALSE
  /\ Goto(p, job[p].back)
  /\ UNCHANGED <<clock, ring, nextKid, lease, kv, cache, signed, jwks, faults>>

-----------------------------------------------------------------------------
(* ensureKeyring and loadOrInitializeKeyring.                              *)

(* keyringLoad: one load at a time in an isolate.                          *)
Loading(i) == \E p \in Jobs : job[p].pc # "idle" /\ job[p].kind = "load" /\ job[p].iso = i

EnsureStart(p, i) ==
  /\ job[p].pc = "idle" /\ ~Cached(i) /\ ~Loading(i)
  /\ job' = [job EXCEPT ![p] =
       [NoJob EXCEPT !.iso = i, !.deadline = clock + LoadLatency, !.seen = ring,
                     !.pc = IF ring = NoRing THEN "lease" ELSE IF marker THEN "kvDelete" ELSE "return",
                     !.back = "return"]]
  /\ UNCHANGED <<clock, ring, nextKid, lease, kv, marker, cache, signed, jwks, faults>>

InitLease(p) ==
  /\ job[p].pc = "lease" /\ job[p].kind = "load"
  /\ IF LeaseFree("key")
     THEN Take("key", p, KeyLease) /\ Goto(p, "recheck")
     ELSE Goto(p, "poll") /\ UNCHANGED lease
  /\ UNCHANGED <<clock, ring, nextKid, kv, marker, cache, signed, jwks, faults>>

InitRecheck(p) ==
  /\ job[p].pc = "recheck"
  /\ Loaded(p, IF ring = NoRing THEN "initLegacy" ELSE "return")
  /\ UNCHANGED <<clock, ring, nextKid, lease, kv, marker, cache, signed, jwks, faults>>

(* Migrate the KV keyring, or make the first key.  The promise of          *)
(* rotatePersistedKeyring is returned without being awaited, so `finally`  *)
(* starts to give the lease back while the rotation runs.                  *)
InitLegacy(p) ==
  /\ job[p].pc = "initLegacy"
  /\ job' = IF kv = Copies
            THEN [job EXCEPT ![p].seen = LegacyRing, ![p].legacy = TRUE, ![p].pc = "mark"]
            ELSE [job EXCEPT ![p].pc = "rotate", ![p].at = clock, ![p].releasing = TRUE]
  /\ UNCHANGED <<clock, ring, nextKid, lease, kv, marker, cache, signed, jwks, faults>>

(* Forty polls, then 503.                                                  *)
InitPoll(p) ==
  /\ job[p].pc = "poll"
  /\ \/ ring # NoRing /\ Loaded(p, "return")
     \/ ring = NoRing /\ Goto(p, "end")
  /\ UNCHANGED <<clock, ring, nextKid, lease, kv, marker, cache, signed, jwks, faults>>

LoadEnd(p) ==
  /\ job[p].pc = "end" /\ job[p].kind # "cron" /\ lease["key"].owner # p
  /\ job' = [job EXCEPT ![p] = NoJob]
  /\ UNCHANGED <<clock, ring, nextKid, lease, kv, marker, cache, signed, jwks, faults>>

(* assertLegacySigningKeyCleanupComplete, for the readiness probe: finds   *)
(* copies nobody has marked, too.                                          *)
ReadyStart(p) ==
  /\ job[p].pc = "idle" /\ ring # NoRing /\ (kv # {} \/ marker)
  /\ job' = [job EXCEPT ![p] = [NoJob EXCEPT !.pc = "readyMark", !.kind = "ready",
                                             !.deadline = clock + LoadLatency]]
  /\ UNCHANGED <<clock, ring, nextKid, lease, kv, marker, cache, signed, jwks, faults>>

ReadyMark(p) ==
  /\ job[p].pc = "readyMark"
  /\ marker' = TRUE
  /\ job' = [job EXCEPT ![p].pc = "kvDelete", ![p].back = "end"]
  /\ UNCHANGED <<clock, ring, nextKid, lease, kv, cache, signed, jwks, faults>>

-----------------------------------------------------------------------------
(* signJwt and the JWKS document, both from the cache of the isolate.      *)

Sign(i) ==
  /\ Cached(i)
  /\ signed' = [k \in DOMAIN signed \cup {cache[i].ring.active} |->
                  IF k = cache[i].ring.active THEN clock ELSE signed[k]]
  /\ UNCHANGED <<clock, ring, nextKid, lease, kv, marker, cache, job, jwks, faults>>

FetchJwks(i) ==
  /\ Cached(i)
  /\ jwks' = [kids |-> Published(cache[i].ring, clock), until |-> clock + JwksAge]
  /\ UNCHANGED <<clock, ring, nextKid, lease, kv, marker, cache, job, signed, faults>>

(* The Worker dies: its leases stay until they run out.                    *)
Crash(p) ==
  /\ job[p].pc # "idle"
  /\ Fault
  /\ job' = [job EXCEPT ![p] = NoJob]
  /\ lease' = [n \in DOMAIN lease |-> IF lease[n].owner = p THEN [lease[n] EXCEPT !.owner = Lost]
                                                         ELSE lease[n]]
  /\ UNCHANGED <<clock, ring, nextKid, kv, marker, cache, signed, jwks>>

(* Jobs are over by their deadlines.  What has expired is forgotten at     *)
(* once: cachedKeyring would drop it on the next look.                     *)
Tick ==
  /\ clock < MaxClock
  /\ \A p \in Jobs : job[p].pc # "idle" => clock < job[p].deadline
  /\ clock' = clock + 1
  /\ cache' = [i \in Isolates |-> IF clock' < cache[i].until THEN cache[i] ELSE NoCache]
  /\ jwks' = IF clock' < jwks.until THEN jwks ELSE [kids |-> {}, until |-> 0]
  /\ signed' = [k \in {j \in DOMAIN signed : clock' < signed[j] + TokenTtl} |-> signed[k]]
  /\ UNCHANGED <<ring, nextKid, lease, kv, marker, job, faults>>

Step(p) ==
  \/ CronStatus(p) \/ CronDue(p) \/ CronLease(p) \/ CronEnd(p)
  \/ RotateLoad(p) \/ RotateLegacy(p) \/ Mark(p) \/ Persist(p) \/ PersistNothing(p)
  \/ Return(p) \/ ReleaseKey(p) \/ KvDelete(p) \/ KvClear(p)
  \/ InitLease(p) \/ InitRecheck(p) \/ InitLegacy(p) \/ InitPoll(p) \/ LoadEnd(p)
  \/ ReadyMark(p)

Next ==
  \/ \E p \in Jobs : Step(p) \/ PersistError(p) \/ Crash(p) \/ ReadyStart(p)
  \/ \E p \in Jobs, i \in Isolates : CronStart(p, i) \/ EnsureStart(p, i)
  \/ \E i \in Isolates : Sign(i) \/ FetchJwks(i)
  \/ Tick

Spec == Init /\ [][Next]_vars

-----------------------------------------------------------------------------
(* Properties.                                                             *)

KeyRecords == [created : Int, retiredAt : Int, priv : BOOLEAN]
RingOK(r) ==
  /\ DOMAIN r = {"version", "active", "pending", "since", "keys"}
  /\ r.version \in Nat /\ {r.active, r.pending, r.since} \subseteq Int
  /\ r.keys \in [DOMAIN r.keys -> KeyRecords]
  /\ DOMAIN r.keys \subseteq 0 .. nextKid

TypeOK ==
  /\ clock \in Nat /\ nextKid \in Nat /\ faults \in Nat /\ marker \in BOOLEAN
  /\ RingOK(ring)
  /\ lease \in [{"key", "job"} -> [owner : Jobs \cup {Nobody, Lost}, until : Nat]]
  /\ kv \subseteq Copies
  /\ \A i \in Isolates : RingOK(cache[i].ring) /\ cache[i].until \in Nat
  /\ \A p \in Jobs : RingOK(job[p].seen) /\ job[p].iso \in Isolates /\ job[p].at <= clock

(* The stored keyring can always sign, the staged key will be able to, and *)
(* no other key keeps its private half, whoever wrote the row and however  *)
(* far the other writers got.                                              *)
PrivateHalves ==
  ring # NoRing =>
    /\ Usable(ring)
    /\ {k \in DOMAIN ring.keys : ring.keys[k].priv} =
         {ring.active, ring.pending} \ {NoKid}

(* A token in use is verifiable by every relying party that holds a JWKS   *)
(* document it may still use and by every isolate with a cached keyring:   *)
(* staging must outlast both caches, and retirement the tokens.            *)
TokensVerifiable ==
  \A k \in DOMAIN signed :
    clock < signed[k] + TokenTtl =>
      /\ clock < jwks.until => k \in jwks.kids
      /\ \A i \in Isolates : Cached(i) => k \in Published(cache[i].ring, clock)

(* A published key stays published until its grace period is over: two     *)
(* writers never undo each other's staging.                                *)
PublishedStays ==
  [][Published(ring, clock) \subseteq Published(ring', clock)]_vars

(* No step loses track of the private keys left in KV: with a keyring in   *)
(* D1 and a copy in KV, the marker that makes every load retry is set,     *)
(* unless an older Worker left it unset.                                   *)
Untracked == ring # NoRing /\ kv # {} /\ ~marker
CopiesStayTracked == [][Untracked' => Untracked]_vars
=============================================================================
