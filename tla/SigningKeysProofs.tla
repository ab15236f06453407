------------------------- MODULE SigningKeysProofs -------------------------
(***************************************************************************)
(* Proofs about SigningKeys for every number of isolates and concurrent     *)
(* jobs, every lifetime, lease, period and latency, and every bound.        *)
(***************************************************************************)
EXTENDS SigningKeys, TLAPS

-----------------------------------------------------------------------------
(* Type correctness.  Every keyring in the system is a record whose keys    *)
(* were numbered below nextKid.                                             *)

Pcs == {"idle", "status", "due", "lease", "rotate", "legacy", "mark", "write", "return", "end",
        "kvDelete", "kvClear", "recheck", "initLegacy", "poll", "readyMark"}
KeyMaps(n) == UNION {[S -> KeyRecords] : S \in SUBSET (0 .. n - 1)}
Keyrings(n) == [version : Nat, active : Int, pending : Int, since : Int, keys : KeyMaps(n)]
JobRecords(n) ==
  [pc : Pcs, kind : {"load", "cron", "ready"}, iso : Isolates, at : Nat,
   seen : Keyrings(n), legacy : BOOLEAN, back : Pcs, releasing : BOOLEAN, deadline : Nat]
CacheRecords(n) == [ring : Keyrings(n), until : Nat]
Leases == [owner : Jobs \cup {Nobody, Lost}, until : Nat]

TypeInv ==
  /\ clock \in Nat /\ nextKid \in Nat \ {0} /\ faults \in Nat /\ marker \in BOOLEAN
  /\ ring \in Keyrings(nextKid)
  /\ lease \in [{"key", "job"} -> Leases]
  /\ kv \subseteq Copies
  /\ cache \in [Isolates -> CacheRecords(nextKid)]
  /\ job \in [Jobs -> JobRecords(nextKid)]
  /\ \A p \in Jobs : job[p].at <= clock

LEMMA KeyMapDomain ==
  ASSUME NEW n \in Nat, NEW f \in KeyMaps(n)
  PROVE  DOMAIN f \subseteq 0 .. n - 1 /\ f \in [DOMAIN f -> KeyRecords]
<1>1. PICK S \in SUBSET (0 .. n - 1) : f \in [S -> KeyRecords]
  BY DEF KeyMaps
<1>2. DOMAIN f = S
  BY <1>1
<1> QED BY <1>1, <1>2

LEMMA KeyMapOf ==
  ASSUME NEW n \in Nat, NEW S \in SUBSET (0 .. n - 1), NEW f \in [S -> KeyRecords]
  PROVE  f \in KeyMaps(n)
BY DEF KeyMaps

LEMMA KeyMapsGrow ==
  ASSUME NEW n \in Nat, NEW m \in Nat, n <= m
  PROVE  KeyMaps(n) \subseteq KeyMaps(m)
<1> SUFFICES ASSUME NEW f \in KeyMaps(n) PROVE f \in KeyMaps(m)
  OBVIOUS
<1>1. DOMAIN f \subseteq 0 .. n - 1 /\ f \in [DOMAIN f -> KeyRecords]
  BY KeyMapDomain
<1>2. DOMAIN f \in SUBSET (0 .. m - 1)
  BY <1>1
<1> QED BY <1>1, <1>2, KeyMapOf

LEMMA RecordsGrow ==
  ASSUME NEW n \in Nat, NEW m \in Nat, n <= m
  PROVE  /\ Keyrings(n) \subseteq Keyrings(m) /\ CacheRecords(n) \subseteq CacheRecords(m)
         /\ JobRecords(n) \subseteq JobRecords(m)
<1>1. Keyrings(n) \subseteq Keyrings(m)
  BY KeyMapsGrow DEF Keyrings
<1> QED BY <1>1 DEF CacheRecords, JobRecords

LEMMA FirstRings ==
  ASSUME NEW n \in Nat \ {0}
  PROVE  /\ NoRing \in Keyrings(n) /\ LegacyRing \in Keyrings(n)
         /\ NoCache \in CacheRecords(n) /\ NoJob \in JobRecords(n)
<1>1. [k \in {} |-> 0] \in KeyMaps(n)
  <2>1. {} \in SUBSET (0 .. n - 1) /\ [k \in {} |-> 0] \in [{} -> KeyRecords]
    OBVIOUS
  <2> QED BY <2>1, KeyMapOf
<1>2. FreshKey(0) \in KeyRecords
  BY DEF FreshKey, KeyRecords, Never
<1>3. [k \in {LegacyKid} |-> FreshKey(0)] \in KeyMaps(n)
  <2>1. {LegacyKid} \in SUBSET (0 .. n - 1)
    BY DEF LegacyKid
  <2>2. [k \in {LegacyKid} |-> FreshKey(0)] \in [{LegacyKid} -> KeyRecords]
    BY <1>2
  <2> QED BY <2>1, <2>2, KeyMapOf
<1>4. NoRing \in Keyrings(n)
  BY <1>1 DEF NoRing, Keyrings, NoKid, Never
<1>5. LegacyRing \in Keyrings(n)
  BY <1>3 DEF LegacyRing, Keyrings, NoKid, Never, LegacyKid
<1>6. AnyIsolate \in Isolates
  BY ConstantsAssumption DEF AnyIsolate
<1>7. NoCache \in CacheRecords(n)
  BY <1>4 DEF NoCache, CacheRecords
<1>8. NoJob \in JobRecords(n)
  BY <1>4, <1>6 DEF NoJob, JobRecords, Pcs
<1> QED BY <1>4, <1>5, <1>7, <1>8

LEMMA TypesImply == TypeInv => TypeOK
<1> SUFFICES ASSUME TypeInv PROVE TypeOK
  OBVIOUS
<1>1. ASSUME NEW r \in Keyrings(nextKid) PROVE RingOK(r)
  <2>1. nextKid \in Nat /\ r.keys \in KeyMaps(nextKid)
    BY DEF TypeInv, Keyrings
  <2>2. DOMAIN r.keys \subseteq 0 .. nextKid - 1 /\ r.keys \in [DOMAIN r.keys -> KeyRecords]
    BY <2>1, KeyMapDomain
  <2>3. DOMAIN r.keys \subseteq 0 .. nextKid
    BY <2>1, <2>2
  <2>4. DOMAIN r = {"version", "active", "pending", "since", "keys"}
    BY DEF Keyrings
  <2> QED BY <2>2, <2>3, <2>4 DEF RingOK, Keyrings
<1>2. \A i \in Isolates : cache[i].ring \in Keyrings(nextKid) /\ cache[i].until \in Nat
  BY DEF TypeInv, CacheRecords
<1>3. \A p \in Jobs : /\ job[p].seen \in Keyrings(nextKid) /\ job[p].iso \in Isolates
                      /\ job[p].at <= clock
  BY DEF TypeInv, JobRecords
<1> QED BY <1>1, <1>2, <1>3 DEF TypeInv, TypeOK, Leases

LEMMA InitTypes == Init => TypeInv
<1> SUFFICES ASSUME Init PROVE TypeInv
  OBVIOUS
<1>1. /\ clock = 0 /\ nextKid = 1 /\ faults = 0 /\ marker = FALSE
      /\ lease = [n \in {"key", "job"} |-> [owner |-> Nobody, until |-> 0]]
      /\ cache = [i \in Isolates |-> NoCache] /\ job = [p \in Jobs |-> NoJob]
  BY DEF Init
<1>2. /\ NoRing \in Keyrings(1) /\ LegacyRing \in Keyrings(1)
      /\ NoCache \in CacheRecords(1) /\ NoJob \in JobRecords(1)
  BY FirstRings
<1>3. [LegacyRing EXCEPT !.version = 1] \in Keyrings(1)
  BY <1>2 DEF Keyrings
<1>4. ring \in Keyrings(1) /\ kv \subseteq Copies
  BY <1>2, <1>3 DEF Init
<1>5. NoJob.at = 0
  BY DEF NoJob
<1>6. lease \in [{"key", "job"} -> Leases]
  BY <1>1 DEF Leases
<1>7. /\ cache \in [Isolates -> CacheRecords(1)] /\ job \in [Jobs -> JobRecords(1)]
      /\ \A p \in Jobs : job[p].at <= 0
  BY <1>1, <1>2, <1>5
<1>8. clock \in Nat /\ nextKid \in Nat \ {0} /\ faults \in Nat
  BY <1>1
<1>9. marker \in BOOLEAN
  BY DEF Init
<1> QED BY <1>1, <1>4, <1>6, <1>7, <1>8, <1>9 DEF TypeInv

-----------------------------------------------------------------------------
(* The records of jobs.                                                    *)

LEMMA GotoType ==
  ASSUME TypeInv, NEW p \in Jobs, NEW pc \in Pcs, Goto(p, pc)
  PROVE  /\ job' \in [Jobs -> JobRecords(nextKid)] /\ \A q \in Jobs : job'[q].at = job[q].at
<1>1. job[p] \in JobRecords(nextKid)
  BY DEF TypeInv
<1>2. [job[p] EXCEPT !.pc = pc] \in JobRecords(nextKid)
      /\ [job[p] EXCEPT !.pc = pc].at = job[p].at
  BY <1>1 DEF JobRecords
<1>3. job' = [job EXCEPT ![p] = [job[p] EXCEPT !.pc = pc]]
  BY DEF Goto, TypeInv
<1> QED BY <1>2, <1>3 DEF TypeInv

LEMMA LoadedType ==
  ASSUME TypeInv, NEW p \in Jobs, NEW pc \in Pcs, Loaded(p, pc)
  PROVE  /\ job' \in [Jobs -> JobRecords(nextKid)] /\ \A q \in Jobs : job'[q].at = job[q].at
<1>1. job[p] \in JobRecords(nextKid) /\ ring \in Keyrings(nextKid)
  BY DEF TypeInv
<1>2. PICK now \in Pcs :
        job' = [job EXCEPT ![p].seen = ring, ![p].pc = now, ![p].back = pc]
  <2>1. CASE ring # NoRing /\ marker
    BY <2>1 DEF Loaded, Pcs
  <2>2. CASE ~(ring # NoRing /\ marker)
    <3>1. job' = [job EXCEPT ![p].seen = ring, ![p].pc = pc, ![p].back = pc]
      BY <2>2 DEF Loaded
    <3> QED BY <3>1
  <2> QED BY <2>1, <2>2
<1> DEFINE x == [job[p] EXCEPT !.seen = ring, !.pc = now, !.back = pc]
<1>3. x \in JobRecords(nextKid) /\ x.at = job[p].at
  BY <1>1 DEF JobRecords
<1>4. job' = [job EXCEPT ![p] = x]
  BY <1>2 DEF TypeInv
<1> HIDE DEF x
<1> QED BY <1>3, <1>4 DEF TypeInv

LEMMA OneJobType ==
  ASSUME TypeInv, NEW p \in Jobs, NEW x \in JobRecords(nextKid), x.at <= clock,
         job' = [job EXCEPT ![p] = x]
  PROVE  job' \in [Jobs -> JobRecords(nextKid)] /\ \A q \in Jobs : job'[q].at <= clock
BY DEF TypeInv

LEMMA RememberedType ==
  ASSUME TypeInv, NEW i \in Isolates, NEW n \in Nat, NEW r \in Keyrings(n), nextKid <= n
  PROVE  Remembered(i, r) \in [Isolates -> CacheRecords(n)]
<1>1. cache \in [Isolates -> CacheRecords(n)]
  BY RecordsGrow DEF TypeInv
<1>2. clock + CacheTtl \in Nat
  BY ConstantsAssumption DEF TypeInv
<1>3. [ring |-> r, until |-> clock + CacheTtl] \in CacheRecords(n)
  BY <1>2 DEF CacheRecords
<1> QED BY <1>1, <1>3 DEF Remembered

LEMMA TakeType ==
  ASSUME TypeInv, NEW n \in {"key", "job"}, NEW p \in Jobs, NEW d \in Nat, Take(n, p, d)
  PROVE  lease' \in [{"key", "job"} -> Leases]
<1>1. [owner |-> p, until |-> clock + d] \in Leases
  BY DEF TypeInv, Leases
<1> QED BY <1>1 DEF Take, TypeInv

LEMMA ReleaseType ==
  ASSUME TypeInv, NEW n \in {"key", "job"}, NEW p \in Jobs, Release(n, p)
  PROVE  lease' \in [{"key", "job"} -> Leases]
<1>1. [owner |-> Nobody, until |-> 0] \in Leases
  BY DEF Leases
<1> QED BY <1>1 DEF Release, TypeInv

-----------------------------------------------------------------------------
(* What is stored.                                                         *)

LEMMA StrippedType ==
  ASSUME NEW n \in Nat, NEW f \in KeyMaps(n)
  PROVE  /\ Stripped(f) \in KeyMaps(n) /\ DOMAIN Stripped(f) = DOMAIN f
         /\ \A k \in DOMAIN f : /\ Stripped(f)[k].retiredAt = f[k].retiredAt
                                /\ Stripped(f)[k].priv <=> f[k].priv /\ ~Retired(f[k])
<1>1. DOMAIN f \subseteq 0 .. n - 1 /\ f \in [DOMAIN f -> KeyRecords]
  BY KeyMapDomain
<1>2. ASSUME NEW k \in DOMAIN f
      PROVE  /\ Stripped(f)[k] \in KeyRecords /\ Stripped(f)[k].retiredAt = f[k].retiredAt
             /\ Stripped(f)[k].priv <=> f[k].priv /\ ~Retired(f[k])
  <2>1. f[k] \in KeyRecords /\ [f[k] EXCEPT !.priv = FALSE] \in KeyRecords
    BY <1>1 DEF KeyRecords
  <2>2. CASE Retired(f[k])
    <3>1. Stripped(f)[k] = [f[k] EXCEPT !.priv = FALSE]
      BY <2>2 DEF Stripped
    <3> QED BY <2>1, <2>2, <3>1 DEF KeyRecords
  <2>3. CASE ~Retired(f[k])
    <3>1. Stripped(f)[k] = f[k]
      BY <2>3 DEF Stripped
    <3> QED BY <2>1, <2>3, <3>1
  <2> QED BY <2>2, <2>3
<1>3. DOMAIN Stripped(f) = DOMAIN f /\ Stripped(f) \in [DOMAIN f -> KeyRecords]
  BY <1>2 DEF Stripped
<1> QED BY <1>1, <1>2, <1>3, KeyMapOf

LEMMA RetainedType ==
  ASSUME NEW n \in Nat, NEW f \in KeyMaps(n), NEW at
  PROVE  /\ Retained(f, at) \in KeyMaps(n)
         /\ DOMAIN Retained(f, at) =
              {k \in DOMAIN f : Retired(f[k]) => at - f[k].retiredAt < Grace}
         /\ \A k \in DOMAIN Retained(f, at) : Retained(f, at)[k] = f[k]
<1>1. DOMAIN f \subseteq 0 .. n - 1 /\ f \in [DOMAIN f -> KeyRecords]
  BY KeyMapDomain
<1> DEFINE D == {k \in DOMAIN f : Retired(f[k]) => at - f[k].retiredAt < Grace}
<1>2. Retained(f, at) = [k \in D |-> f[k]]
  BY DEF Retained
<1>3. D \in SUBSET (0 .. n - 1) /\ [k \in D |-> f[k]] \in [D -> KeyRecords]
  BY <1>1
<1> QED BY <1>2, <1>3, KeyMapOf

(* A new key beside the old ones.                                          *)
LEMMA WithFreshType ==
  ASSUME NEW n \in Nat, NEW f \in KeyMaps(n), NEW at \in Nat
  PROVE  [k \in {n} \cup DOMAIN f |-> IF k = n THEN FreshKey(at) ELSE f[k]] \in KeyMaps(n + 1)
<1>1. DOMAIN f \subseteq 0 .. n - 1 /\ f \in [DOMAIN f -> KeyRecords]
  BY KeyMapDomain
<1>2. FreshKey(at) \in KeyRecords
  BY DEF FreshKey, KeyRecords, Never
<1>3. {n} \cup DOMAIN f \in SUBSET (0 .. (n + 1) - 1)
  BY <1>1
<1>4. [k \in {n} \cup DOMAIN f |-> IF k = n THEN FreshKey(at) ELSE f[k]]
        \in [{n} \cup DOMAIN f -> KeyRecords]
  BY <1>1, <1>2
<1> QED BY <1>3, <1>4, KeyMapOf

LEMMA BootType ==
  ASSUME TypeInv, NEW at \in Nat
  PROVE  /\ Boot(at) \in Keyrings(nextKid + 1) /\ DOMAIN Boot(at).keys = {nextKid}
         /\ Boot(at).keys = [k \in {nextKid} |-> FreshKey(at)]
         /\ Boot(at).active = nextKid /\ Boot(at).pending = NoKid
<1>1. nextKid \in Nat /\ nextKid + 1 \in Nat \ {0}
  BY DEF TypeInv
<1>2. FreshKey(at) \in KeyRecords
  BY DEF FreshKey, KeyRecords, Never
<1>3. [k \in {nextKid} |-> FreshKey(at)] \in KeyMaps(nextKid + 1)
  <2>1. {nextKid} \in SUBSET (0 .. (nextKid + 1) - 1)
    BY <1>1
  <2>2. [k \in {nextKid} |-> FreshKey(at)] \in [{nextKid} -> KeyRecords]
    BY <1>2
  <2> QED BY <1>1, <2>1, <2>2, KeyMapOf
<1>4. NoRing \in Keyrings(nextKid + 1) /\ NoRing.pending = NoKid
  BY <1>1, FirstRings DEF NoRing
<1> DEFINE g == [k \in {nextKid} |-> FreshKey(at)]
<1>5. Boot(at) = [NoRing EXCEPT !.active = nextKid, !.keys = g] /\ DOMAIN g = {nextKid}
  BY DEF Boot
<1>6. g \in KeyMaps(nextKid + 1) /\ nextKid \in Int
  BY <1>1, <1>3
<1> HIDE DEF g
<1>7. /\ Boot(at) \in Keyrings(nextKid + 1) /\ Boot(at).active = nextKid
      /\ Boot(at).pending = NoKid /\ Boot(at).keys = g
  BY <1>4, <1>5, <1>6 DEF Keyrings
<1> QED BY <1>5, <1>7 DEF g

LEMMA StagedType ==
  ASSUME TypeInv, NEW r \in Keyrings(nextKid), NEW at \in Nat
  PROVE  /\ Staged(r, at) \in Keyrings(nextKid + 1)
         /\ Staged(r, at).active = r.active /\ Staged(r, at).pending = nextKid
         /\ LET f == Retained(Stripped(r.keys), at) IN
            Staged(r, at).keys =
              [k \in {nextKid} \cup DOMAIN f |-> IF k = nextKid THEN FreshKey(at) ELSE f[k]]
<1>1. nextKid \in Nat /\ nextKid \in Int /\ at \in Int /\ r.keys \in KeyMaps(nextKid)
  BY DEF TypeInv, Keyrings
<1>2. Retained(Stripped(r.keys), at) \in KeyMaps(nextKid)
  BY <1>1, StrippedType, RetainedType
<1> DEFINE f == Retained(Stripped(r.keys), at)
<1> DEFINE g == [k \in {nextKid} \cup DOMAIN f |-> IF k = nextKid THEN FreshKey(at) ELSE f[k]]
<1>3. g \in KeyMaps(nextKid + 1)
  BY <1>1, <1>2, WithFreshType
<1>4. Staged(r, at) = [r EXCEPT !.pending = nextKid, !.since = at, !.keys = g]
  BY DEF Staged
<1>5. nextKid + 1 \in Nat /\ nextKid <= nextKid + 1
  BY <1>1
<1>6. r \in Keyrings(nextKid + 1)
  BY <1>1, <1>5, RecordsGrow
<1> HIDE DEF g
<1>7. /\ [r EXCEPT !.pending = nextKid, !.since = at, !.keys = g] \in Keyrings(nextKid + 1)
      /\ [r EXCEPT !.pending = nextKid, !.since = at, !.keys = g].active = r.active
      /\ [r EXCEPT !.pending = nextKid, !.since = at, !.keys = g].pending = nextKid
      /\ [r EXCEPT !.pending = nextKid, !.since = at, !.keys = g].keys = g
  BY <1>1, <1>3, <1>6 DEF Keyrings
<1> QED BY <1>4, <1>7 DEF g

(* The active key retired.                                                 *)
LEMMA RetiringType ==
  ASSUME NEW n \in Nat, NEW f \in KeyMaps(n), NEW a, NEW at \in Nat
  PROVE  /\ [f EXCEPT ![a].retiredAt = at] \in KeyMaps(n)
         /\ DOMAIN [f EXCEPT ![a].retiredAt = at] = DOMAIN f
         /\ \A k \in DOMAIN f \ {a} : [f EXCEPT ![a].retiredAt = at][k] = f[k]
         /\ a \in DOMAIN f => [f EXCEPT ![a].retiredAt = at][a].retiredAt = at
<1>1. DOMAIN f \subseteq 0 .. n - 1 /\ f \in [DOMAIN f -> KeyRecords]
  BY KeyMapDomain
<1>2. [f EXCEPT ![a].retiredAt = at] \in [DOMAIN f -> KeyRecords]
  <2>1. CASE a \in DOMAIN f
    <3>1. f[a] \in KeyRecords
      BY <1>1, <2>1
    <3>2. [f[a] EXCEPT !.retiredAt = at] \in KeyRecords
      BY <3>1 DEF KeyRecords
    <3> QED BY <1>1, <3>2
  <2>2. CASE a \notin DOMAIN f
    BY <1>1, <2>2
  <2> QED BY <2>1, <2>2
<1>3. a \in DOMAIN f => [f EXCEPT ![a].retiredAt = at][a].retiredAt = at
  BY <1>1 DEF KeyRecords
<1> QED BY <1>1, <1>2, <1>3, KeyMapOf

LEMMA ActivatedType ==
  ASSUME TypeInv, NEW r \in Keyrings(nextKid), NEW at \in Nat
  PROVE  /\ Activated(r, at) \in Keyrings(nextKid)
         /\ Activated(r, at).active = r.pending /\ Activated(r, at).pending = NoKid
         /\ Activated(r, at).keys =
              Retained(Stripped([r.keys EXCEPT ![r.active].retiredAt = at]), at)
         /\ nextKid \notin DOMAIN Activated(r, at).keys
<1>1. nextKid \in Nat /\ r.keys \in KeyMaps(nextKid)
  BY DEF TypeInv, Keyrings
<1> DEFINE f == [r.keys EXCEPT ![r.active].retiredAt = at]
           g == Retained(Stripped(f), at)
<1>2. f \in KeyMaps(nextKid)
  BY <1>1, RetiringType
<1> HIDE DEF f
<1>3. g \in KeyMaps(nextKid)
  BY <1>1, <1>2, StrippedType, RetainedType
<1>4. nextKid \notin DOMAIN g
  <2>1. DOMAIN g \subseteq 0 .. nextKid - 1
    BY <1>1, <1>3, KeyMapDomain
  <2> QED BY <1>1, <2>1
<1>5. Activated(r, at) =
        [r EXCEPT !.active = r.pending, !.pending = NoKid, !.since = Never, !.keys = g]
  BY DEF Activated, f
<1> HIDE DEF g
<1>6. NoKid \in Int /\ Never \in Int
  BY DEF NoKid, Never
<1>7. /\ Activated(r, at) \in Keyrings(nextKid) /\ Activated(r, at).active = r.pending
      /\ Activated(r, at).pending = NoKid /\ Activated(r, at).keys = g
  BY <1>3, <1>5, <1>6 DEF Keyrings
<1> QED BY <1>4, <1>7 DEF f, g

LEMMA RotatedType ==
  ASSUME TypeInv, NEW p \in Jobs
  PROVE  /\ Rotated(p) \in Keyrings(nextKid + 1)
         /\ nextKid \notin DOMAIN Rotated(p).keys => Rotated(p) \in Keyrings(nextKid)
<1>1. /\ job[p].seen \in Keyrings(nextKid) /\ job[p].at \in Nat /\ nextKid \in Nat
      /\ nextKid + 1 \in Nat /\ nextKid <= nextKid + 1
  BY DEF TypeInv, JobRecords
<1>2. Keyrings(nextKid) \subseteq Keyrings(nextKid + 1)
  BY <1>1, RecordsGrow
<1>3. Rotated(p) = job[p].seen \/ Rotated(p) = Boot(job[p].at)
      \/ Rotated(p) = Staged(job[p].seen, job[p].at)
      \/ Rotated(p) = Activated(job[p].seen, job[p].at)
  BY DEF Rotated
<1>4. nextKid \in DOMAIN Boot(job[p].at).keys
  BY <1>1, BootType
<1>5. nextKid \in DOMAIN Staged(job[p].seen, job[p].at).keys
  <2> DEFINE f == Retained(Stripped(job[p].seen.keys), job[p].at)
  <2>1. Staged(job[p].seen, job[p].at).keys =
          [k \in {nextKid} \cup DOMAIN f |-> IF k = nextKid THEN FreshKey(job[p].at) ELSE f[k]]
    BY <1>1, StagedType
  <2> HIDE DEF f
  <2> QED BY <2>1
<1>6. /\ Boot(job[p].at) \in Keyrings(nextKid + 1)
      /\ Staged(job[p].seen, job[p].at) \in Keyrings(nextKid + 1)
      /\ Activated(job[p].seen, job[p].at) \in Keyrings(nextKid)
  BY <1>1, BootType, StagedType, ActivatedType
<1> QED BY <1>1, <1>2, <1>3, <1>4, <1>5, <1>6

LEMMA StoredType ==
  ASSUME TypeInv, NEW p \in Jobs, Stored(p)
  PROVE  /\ nextKid' \in Nat \ {0} /\ nextKid <= nextKid' /\ ring' \in Keyrings(nextKid')
         /\ ring'.version = ring.version + 1 /\ ring'.active = Rotated(p).active
         /\ ring'.pending = Rotated(p).pending /\ ring'.keys = Rotated(p).keys
<1>1. nextKid \in Nat /\ ring.version + 1 \in Nat
  BY DEF TypeInv, Keyrings
<1>2. /\ Rotated(p) \in Keyrings(nextKid + 1)
      /\ nextKid \notin DOMAIN Rotated(p).keys => Rotated(p) \in Keyrings(nextKid)
  BY RotatedType
<1>3. ring' = [Rotated(p) EXCEPT !.version = ring.version + 1]
  BY DEF Stored
<1>4. /\ ring'.version = ring.version + 1 /\ ring'.active = Rotated(p).active
      /\ ring'.pending = Rotated(p).pending /\ ring'.keys = Rotated(p).keys
  BY <1>2, <1>3 DEF Keyrings
<1>5. CASE nextKid \in DOMAIN Rotated(p).keys
  <2>1. nextKid' = nextKid + 1
    BY <1>4, <1>5 DEF Stored
  <2>2. ring' \in Keyrings(nextKid + 1)
    BY <1>1, <1>2, <1>3 DEF Keyrings
  <2> QED BY <1>1, <1>4, <2>1, <2>2
<1>6. CASE nextKid \notin DOMAIN Rotated(p).keys
  <2>1. nextKid' = nextKid
    BY <1>4, <1>6 DEF Stored
  <2>2. ring' \in Keyrings(nextKid)
    BY <1>1, <1>2, <1>3, <1>6 DEF Keyrings
  <2>3. nextKid \in Nat \ {0}
    BY DEF TypeInv
  <2> QED BY <1>1, <1>4, <2>1, <2>2, <2>3
<1> QED BY <1>5, <1>6

-----------------------------------------------------------------------------
(* Every step keeps the types.                                             *)

LEMMA StoredTypes ==
  ASSUME TypeInv, NEW p \in Jobs, Stored(p),
         UNCHANGED <<clock, lease, kv, marker>>, faults' \in Nat,
         cache' \in [Isolates -> CacheRecords(nextKid')],
         job' \in [Jobs -> JobRecords(nextKid')], \A q \in Jobs : job'[q].at = job[q].at
  PROVE  TypeInv'
<1>1. nextKid' \in Nat \ {0} /\ ring' \in Keyrings(nextKid')
  BY StoredType
<1>2. clock' \in Nat /\ lease' \in [{"key", "job"} -> Leases] /\ kv' \subseteq Copies
      /\ \A q \in Jobs : job'[q].at <= clock'
  BY DEF TypeInv
<1>3. marker' \in BOOLEAN
  BY DEF TypeInv
<1> QED BY <1>1, <1>2, <1>3 DEF TypeInv

LEMMA PersistTypes ==
  ASSUME TypeInv, NEW p \in Jobs, Persist(p) \/ PersistError(p)
  PROVE  TypeInv'
<1>1. job[p] \in JobRecords(nextKid) /\ job[p].iso \in Isolates /\ nextKid \in Nat
  BY DEF TypeInv, JobRecords
<1>2. ASSUME Stored(p), cache' = Remembered(job[p].iso, ring'),
             NEW pc \in Pcs, UNCHANGED <<clock, lease, kv, marker, faults>>,
             job' = [job EXCEPT ![p].seen = ring', ![p].back = "return", ![p].pc = pc]
      PROVE  TypeInv'
  <2>1. nextKid' \in Nat /\ nextKid <= nextKid' /\ ring' \in Keyrings(nextKid')
    BY <1>2, StoredType
  <2>2. cache' \in [Isolates -> CacheRecords(nextKid')]
    BY <1>1, <1>2, <2>1, RememberedType
  <2>3. JobRecords(nextKid) \subseteq JobRecords(nextKid')
    BY <1>1, <2>1, RecordsGrow
  <2>4. job \in [Jobs -> JobRecords(nextKid')] /\ job[p] \in JobRecords(nextKid')
    BY <2>3 DEF TypeInv
  <2> DEFINE x == [job[p] EXCEPT !.seen = ring', !.back = "return", !.pc = pc]
  <2>5. x \in JobRecords(nextKid') /\ x.at = job[p].at
    BY <1>2, <2>1, <2>4 DEF JobRecords, Pcs
  <2>6. job' = [job EXCEPT ![p] = x]
    BY <1>2, <2>4
  <2> HIDE DEF x
  <2>7. job' \in [Jobs -> JobRecords(nextKid')] /\ \A q \in Jobs : job'[q].at = job[q].at
    BY <2>4, <2>5, <2>6
  <2>8. faults' \in Nat
    BY <1>2 DEF TypeInv
  <2> QED BY <1>2, <2>2, <2>7, <2>8, StoredTypes
<1>3. ASSUME Stored(p), Goto(p, "end"), faults' \in Nat,
             UNCHANGED <<clock, lease, kv, marker, cache>>
      PROVE  TypeInv'
  <2>1. nextKid' \in Nat /\ nextKid <= nextKid'
    BY <1>3, StoredType
  <2>2. /\ JobRecords(nextKid) \subseteq JobRecords(nextKid')
        /\ CacheRecords(nextKid) \subseteq CacheRecords(nextKid')
    BY <1>1, <2>1, RecordsGrow
  <2>3. job' \in [Jobs -> JobRecords(nextKid)] /\ \A q \in Jobs : job'[q].at = job[q].at
    BY <1>3, GotoType DEF Pcs
  <2>4. cache' \in [Isolates -> CacheRecords(nextKid')]
    BY <1>3, <2>2 DEF TypeInv
  <2>5. job' \in [Jobs -> JobRecords(nextKid')]
    BY <2>2, <2>3
  <2> QED BY <1>3, <2>3, <2>4, <2>5, StoredTypes
<1>4. ASSUME Goto(p, "end"), UNCHANGED <<clock, ring, nextKid, lease, kv, marker, cache, faults>>
      PROVE  TypeInv'
  BY <1>4, GotoType DEF TypeInv, Pcs
<1>5. CASE PersistError(p)
  <2>1. faults' \in Nat
    BY <1>5 DEF PersistError, Fault, TypeInv
  <2> QED BY <1>3, <1>5, <2>1 DEF PersistError
<1>6. CASE Persist(p)
  <2>1. CASE Stored(p)
    <3>1. \/ \E pc \in Pcs : /\ cache' = Remembered(job[p].iso, ring')
                             /\ job' = [job EXCEPT ![p].seen = ring', ![p].back = "return",
                                                   ![p].pc = pc]
          \/ ~VersionMatches(p)
      <4>1. CASE job[p].legacy
        BY <1>6, <4>1 DEF Persist, Pcs
      <4>2. CASE ~job[p].legacy
        BY <1>6, <4>2 DEF Persist, Pcs
      <4> QED BY <4>1, <4>2
    <3>2. UNCHANGED <<clock, lease, kv, marker, faults>>
      BY <1>6 DEF Persist
    <3> QED BY <1>2, <2>1, <3>1, <3>2 DEF Stored
  <2>2. CASE ~Stored(p)
    BY <1>4, <1>6, <2>2 DEF Persist
  <2> QED BY <2>1, <2>2
<1> QED BY <1>5, <1>6

(* Steps that leave the keyring alone.                                     *)
LEMMA JobTypes ==
  ASSUME TypeInv, NEW p \in Jobs, Step(p) \/ ReadyStart(p) \/ Crash(p), ~Persist(p)
  PROVE  TypeInv'
<1>q. /\ job[p] \in JobRecords(nextKid) /\ job[p].iso \in Isolates /\ job[p].at <= clock
      /\ job[p].at \in Nat /\ clock \in Nat /\ job[p].seen \in Keyrings(nextKid)
      /\ nextKid \in Nat \ {0} /\ job[p].back \in Pcs /\ nextKid <= nextKid
  BY DEF TypeInv, JobRecords
<1>r. NoRing \in Keyrings(nextKid) /\ LegacyRing \in Keyrings(nextKid)
      /\ NoCache \in CacheRecords(nextKid) /\ NoJob \in JobRecords(nextKid)
  BY <1>q, FirstRings
<1>g. \A pc \in Pcs : Goto(p, pc) \/ Loaded(p, pc) =>
        job' \in [Jobs -> JobRecords(nextKid)] /\ \A q \in Jobs : job'[q].at <= clock
  BY GotoType, LoadedType DEF TypeInv
<1>n. job' = [job EXCEPT ![p] = NoJob] =>
        job' \in [Jobs -> JobRecords(nextKid)] /\ \A q \in Jobs : job'[q].at <= clock
  <2>1. NoJob.at <= clock
    BY <1>q DEF NoJob
  <2> QED BY <1>r, <2>1, OneJobType
<1>m. ASSUME NEW r \in Keyrings(nextKid), cache' = Remembered(job[p].iso, r)
      PROVE  cache' \in [Isolates -> CacheRecords(nextKid)]
  BY <1>q, <1>m, RememberedType
<1>1. CASE CronStatus(p)
  BY <1>1, <1>g DEF CronStatus, TypeInv, Pcs
<1>2. CASE CronDue(p)
  <2>1. cache' \in [Isolates -> CacheRecords(nextKid)]
    BY <1>2, <1>q, <1>r, <1>m DEF CronDue, TypeInv
  <2>2. Goto(p, "lease") \/ Goto(p, "end")
    BY <1>2 DEF CronDue
  <2> QED BY <1>2, <1>g, <2>1, <2>2 DEF CronDue, TypeInv, Pcs
<1>3. CASE CronLease(p) \/ InitLease(p)
  <2>1. lease' \in [{"key", "job"} -> Leases]
    BY <1>3, TakeType, ConstantsAssumption DEF CronLease, InitLease, TypeInv
  <2> QED BY <1>3, <1>g, <2>1 DEF CronLease, InitLease, TypeInv, Pcs
<1>4. CASE CronEnd(p)
  BY <1>4, <1>n, ReleaseType DEF CronEnd, TypeInv
<1>5. CASE RotateLoad(p) \/ InitRecheck(p)
  <2>1. \E pc \in Pcs : Loaded(p, pc)
    BY <1>5 DEF RotateLoad, InitRecheck, Pcs
  <2> QED BY <1>5, <1>g, <2>1 DEF RotateLoad, InitRecheck, TypeInv
<1>6. CASE RotateLegacy(p) \/ InitLegacy(p)
  <2>1. \/ job' = [job EXCEPT ![p].seen = LegacyRing, ![p].legacy = TRUE, ![p].pc = "mark"]
        \/ Goto(p, "write")
        \/ job' = [job EXCEPT ![p].pc = "rotate", ![p].at = clock, ![p].releasing = TRUE]
    BY <1>6 DEF RotateLegacy, InitLegacy
  <2> DEFINE x == [job[p] EXCEPT !.seen = LegacyRing, !.legacy = TRUE, !.pc = "mark"]
             y == [job[p] EXCEPT !.pc = "rotate", !.at = clock, !.releasing = TRUE]
  <2>2. /\ x \in JobRecords(nextKid) /\ x.at = job[p].at
        /\ y \in JobRecords(nextKid) /\ y.at = clock
    BY <1>q, <1>r DEF JobRecords, Pcs
  <2>3. \/ job' = [job EXCEPT ![p] = x] \/ Goto(p, "write") \/ job' = [job EXCEPT ![p] = y]
    BY <2>1 DEF TypeInv
  <2> HIDE DEF x, y
  <2>4. x.at <= clock /\ y.at <= clock
    BY <1>q, <2>2
  <2>5. job' \in [Jobs -> JobRecords(nextKid)] /\ \A q \in Jobs : job'[q].at <= clock
    BY <1>g, <2>2, <2>3, <2>4, OneJobType DEF Pcs
  <2> QED BY <1>6, <2>5 DEF RotateLegacy, InitLegacy, TypeInv
<1>7. CASE Mark(p)
  BY <1>7, <1>g DEF Mark, TypeInv, Pcs
<1>8. CASE PersistNothing(p)
  BY <1>8, <1>g DEF PersistNothing, TypeInv, Pcs
<1>9. CASE Return(p)
  BY <1>9, <1>g, <1>q, <1>m DEF Return, TypeInv, Pcs
<1>10. CASE ReleaseKey(p)
  BY <1>10, ReleaseType DEF ReleaseKey, TypeInv
<1>11. CASE KvDelete(p)
  <2>1. kv' \subseteq Copies /\ faults' \in Nat
    BY <1>11 DEF KvDelete, TypeInv, Fault
  <2> QED BY <1>11, <1>g, <1>q, <2>1 DEF KvDelete, TypeInv, Pcs
<1>12. CASE KvClear(p)
  BY <1>12, <1>g, <1>q DEF KvClear, TypeInv
<1>13. CASE InitPoll(p)
  BY <1>13, <1>g DEF InitPoll, TypeInv, Pcs
<1>14. CASE LoadEnd(p)
  BY <1>14, <1>n DEF LoadEnd, TypeInv
<1>15. CASE ReadyMark(p)
  <2> DEFINE x == [job[p] EXCEPT !.pc = "kvDelete", !.back = "end"]
  <2>1. x \in JobRecords(nextKid) /\ x.at = job[p].at
    BY <1>q DEF JobRecords, Pcs
  <2>2. job' = [job EXCEPT ![p] = x]
    BY <1>15 DEF ReadyMark, TypeInv
  <2> HIDE DEF x
  <2>3. job' \in [Jobs -> JobRecords(nextKid)] /\ \A q \in Jobs : job'[q].at <= clock
    BY <1>q, <2>1, <2>2, OneJobType
  <2> QED BY <1>15, <2>3 DEF ReadyMark, TypeInv
<1>16. CASE ReadyStart(p)
  <2> DEFINE x == [NoJob EXCEPT !.pc = "readyMark", !.kind = "ready",
                                !.deadline = clock + LoadLatency]
  <2>1. clock + LoadLatency \in Nat /\ NoJob.at = 0
    BY <1>q, ConstantsAssumption DEF NoJob
  <2>2. x \in JobRecords(nextKid) /\ x.at = 0
    BY <1>r, <2>1 DEF JobRecords, Pcs
  <2>3. job' = [job EXCEPT ![p] = x]
    BY <1>16 DEF ReadyStart
  <2> HIDE DEF x
  <2>4. x.at <= clock
    BY <1>q, <2>2
  <2>5. job' \in [Jobs -> JobRecords(nextKid)] /\ \A q \in Jobs : job'[q].at <= clock
    BY <2>2, <2>3, <2>4, OneJobType
  <2> QED BY <1>16, <2>5 DEF ReadyStart, TypeInv
<1>17. CASE Crash(p)
  <2>1. faults' \in Nat
    BY <1>17 DEF Crash, Fault, TypeInv
  <2>2. \A n \in {"key", "job"} : [lease[n] EXCEPT !.owner = Lost] \in Leases
    BY DEF TypeInv, Leases
  <2>3. lease' \in [{"key", "job"} -> Leases]
    BY <1>17, <2>2 DEF Crash, TypeInv
  <2> QED BY <1>17, <1>n, <2>1, <2>3 DEF Crash, TypeInv
<1> QED BY <1>1, <1>2, <1>3, <1>4, <1>5, <1>6, <1>7, <1>8, <1>9, <1>10, <1>11, <1>12, <1>13,
           <1>14, <1>15, <1>16, <1>17 DEF Step

LEMMA CronStartTypes ==
  ASSUME TypeInv, NEW p \in Jobs, NEW i \in Isolates, CronStart(p, i)
  PROVE  TypeInv'
<1>1. clock \in Nat /\ NoJob \in JobRecords(nextKid)
  BY FirstRings DEF TypeInv
<1>2. PICK at \in Nat : at = (clock \div CronPeriod) * CronPeriod /\ at <= clock
  <2>1. /\ CronPeriod \in Nat \ {0} /\ clock \div CronPeriod \in Nat
        /\ clock = CronPeriod * (clock \div CronPeriod) + (clock % CronPeriod)
        /\ clock % CronPeriod \in 0 .. CronPeriod - 1
    BY <1>1, ConstantsAssumption
  <2>2. CronPeriod * (clock \div CronPeriod) \in Nat
        /\ CronPeriod * (clock \div CronPeriod) = (clock \div CronPeriod) * CronPeriod
    BY <2>1
  <2> DEFINE a == (clock \div CronPeriod) * CronPeriod
  <2>3. a \in Nat /\ clock = a + (clock % CronPeriod) /\ clock % CronPeriod \in Nat
    BY <2>1, <2>2
  <2> HIDE DEF a
  <2>4. a \in Nat /\ a <= clock
    BY <1>1, <2>3
  <2> QED BY <2>4 DEF a
<1> DEFINE x == [NoJob EXCEPT !.pc = "status", !.kind = "cron", !.iso = i, !.at = at,
                              !.deadline = at + CronDelay]
<1>3. job' = [job EXCEPT ![p] = x]
  BY <1>2 DEF CronStart
<1>4. at + CronDelay \in Nat
  BY ConstantsAssumption
<1>5. x \in JobRecords(nextKid) /\ x.at = at
  BY <1>1, <1>4 DEF JobRecords, Pcs
<1> HIDE DEF x
<1>6. job' \in [Jobs -> JobRecords(nextKid)] /\ \A q \in Jobs : job'[q].at <= clock
  BY <1>2, <1>3, <1>5, OneJobType
<1>7. lease' \in [{"key", "job"} -> Leases]
  BY TakeType, ConstantsAssumption DEF CronStart
<1> QED BY <1>6, <1>7 DEF CronStart, TypeInv

LEMMA EnsureStartTypes ==
  ASSUME TypeInv, NEW p \in Jobs, NEW i \in Isolates, EnsureStart(p, i)
  PROVE  TypeInv'
<1>1. clock \in Nat /\ NoJob \in JobRecords(nextKid) /\ ring \in Keyrings(nextKid)
  BY FirstRings DEF TypeInv
<1>2. PICK pc \in Pcs :
        job' = [job EXCEPT ![p] =
          [NoJob EXCEPT !.iso = i, !.deadline = clock + LoadLatency, !.seen = ring, !.pc = pc,
                        !.back = "return"]]
  <2>1. CASE ring = NoRing
    BY <2>1 DEF EnsureStart, Pcs
  <2>2. CASE ring # NoRing /\ marker
    BY <2>2 DEF EnsureStart, Pcs
  <2>3. CASE ring # NoRing /\ ~marker
    BY <2>3 DEF EnsureStart, Pcs
  <2> QED BY <2>1, <2>2, <2>3
<1> DEFINE x == [NoJob EXCEPT !.iso = i, !.deadline = clock + LoadLatency, !.seen = ring,
                              !.pc = pc, !.back = "return"]
<1>4. clock + LoadLatency \in Nat /\ NoJob.at = 0
  BY <1>1, ConstantsAssumption DEF NoJob
<1>5. x \in JobRecords(nextKid) /\ x.at = 0
  BY <1>1, <1>4 DEF JobRecords, Pcs
<1>6. job' = [job EXCEPT ![p] = x]
  BY <1>2
<1> HIDE DEF x
<1>7. x.at <= clock
  BY <1>1, <1>5
<1>8. job' \in [Jobs -> JobRecords(nextKid)] /\ \A q \in Jobs : job'[q].at <= clock
  BY <1>5, <1>6, <1>7, OneJobType
<1> QED BY <1>8 DEF EnsureStart, TypeInv

LEMMA StepTypes ==
  ASSUME TypeInv, [Next]_vars
  PROVE  TypeInv'
<1>1. ASSUME NEW i \in Isolates, Sign(i) \/ FetchJwks(i) PROVE TypeInv'
  BY <1>1 DEF Sign, FetchJwks, TypeInv
<1>2. CASE Tick
  <2>1. clock' \in Nat /\ clock' = clock + 1 /\ clock \in Nat /\ nextKid \in Nat \ {0}
    BY <1>2 DEF Tick, TypeInv
  <2>2. cache' \in [Isolates -> CacheRecords(nextKid)]
    BY <1>2, <2>1, FirstRings DEF Tick, TypeInv
  <2>3. \A p \in Jobs : job[p].at \in Nat /\ job[p].at <= clock
    BY DEF TypeInv, JobRecords
  <2>4. \A p \in Jobs : job[p].at <= clock'
    BY <2>1, <2>3
  <2> QED BY <1>2, <2>1, <2>2, <2>4 DEF Tick, TypeInv
<1>3. CASE UNCHANGED vars
  BY <1>3 DEF vars, TypeInv
<1>4. ASSUME NEW p \in Jobs, Step(p) \/ PersistError(p) \/ Crash(p) \/ ReadyStart(p)
      PROVE  TypeInv'
  BY <1>4, PersistTypes, JobTypes
<1> QED BY <1>1, <1>2, <1>3, <1>4, CronStartTypes, EnsureStartTypes DEF Next

LEMMA TypesInvariant == Spec => []TypeInv
BY InitTypes, StepTypes, PTL DEF Spec

(* Whatever jobs, isolates and faults do, the row, the caches, the leases   *)
(* and the jobs' copies of the keyring keep their types, and no job works   *)
(* with a time that has not come.                                           *)
THEOREM KeysTyped == Spec => []TypeOK
BY TypesInvariant, TypesImply, PTL

-----------------------------------------------------------------------------
(* The keyring and its writers.                                            *)

(* Where a job goes on once the legacy copies are dealt with.              *)
Ahead(x) == IF x.pc \in {"kvDelete", "kvClear"} THEN x.back ELSE x.pc

(* A keyring that was stored: the active key and the staged one have their  *)
(* private halves, are different and not retired; no other key has one.     *)
Sound(r) ==
  /\ r.active \in DOMAIN r.keys /\ ~Retired(r.keys[r.active]) /\ r.keys[r.active].priv
  /\ r.pending # NoKid =>
       /\ r.pending \in DOMAIN r.keys /\ r.pending # r.active
       /\ ~Retired(r.keys[r.pending]) /\ r.keys[r.pending].priv
  /\ \A k \in DOMAIN r.keys \ {r.active, r.pending} : ~r.keys[k].priv

(* What a job read is nothing, the legacy keyring, or a row of some version *)
(* so far, and the row itself if the version is the present one.            *)
SeenHolds(r) ==
  \/ r = NoRing \/ r = LegacyRing
  \/ /\ 0 < r.version /\ r.version <= ring.version /\ Sound(r)
     /\ r.version = ring.version => r = ring

MigrationHolds(x) ==
  /\ x.legacy => Ahead(x) \in {"mark", "write", "return", "end"}
  /\ x.legacy /\ Ahead(x) \in {"mark", "write"} => x.seen = LegacyRing
  /\ Ahead(x) = "mark" => x.legacy
  /\ x.back \notin {"kvDelete", "kvClear"}
  /\ x.pc \in {"kvDelete", "kvClear", "readyMark"} => ring # NoRing
  /\ x.pc = "kvClear" => kv = {}
  /\ Ahead(x) = "write" /\ x.legacy => marker \/ kv = {}
  /\ Ahead(x) = "write" /\ ~x.legacy /\ ring = NoRing => kv = {}

Rotates(x) == Ahead(x) \in {"rotate", "legacy"} \/ (Ahead(x) = "write" /\ ~x.legacy)

TimeHolds(x) ==
  /\ x.pc # "idle" => clock <= x.deadline
  /\ x.kind = "cron" => x.deadline <= x.at + CronDelay
  /\ x.kind = "load" /\ x.pc # "idle" => x.deadline <= clock + LoadLatency
  /\ x.kind = "load" /\ Rotates(x) => x.deadline <= x.at + LoadLatency
  /\ x.kind = "ready" => Ahead(x) \in {"readyMark", "end"}

JobHolds(x) == SeenHolds(x.seen) /\ MigrationHolds(x) /\ TimeHolds(x)

RingHolds ==
  /\ ring = NoRing \/ (0 < ring.version /\ Sound(ring))
  /\ ring = NoRing => kv \in {{}, Copies}

RingInv == RingHolds /\ \A p \in Jobs : JobHolds(job[p])

(* What a step may do to the rest of the world while a job waits.          *)
WorldMoves ==
  /\ ring' = ring \/ (ring.version < ring'.version /\ ring' # NoRing)
  /\ kv' \subseteq kv
  /\ marker => marker' \/ kv' = {}
  /\ clock' = clock

LEMMA JobStays ==
  ASSUME TypeInv, TypeInv', WorldMoves, NEW x \in JobRecords(nextKid), JobHolds(x)
  PROVE  JobHolds(x)'
<1>1. /\ x.seen.version \in Nat /\ ring.version \in Nat /\ ring'.version \in Nat
  BY DEF TypeInv, JobRecords, Keyrings
<1>2. SeenHolds(x.seen)'
  <2>1. CASE ring' = ring
    BY <2>1 DEF JobHolds, SeenHolds
  <2>2. CASE ring.version < ring'.version
    BY <1>1, <2>2 DEF JobHolds, SeenHolds
  <2> QED BY <2>1, <2>2 DEF WorldMoves
<1>3. MigrationHolds(x)'
  BY DEF JobHolds, MigrationHolds, WorldMoves, Ahead
<1>4. TimeHolds(x)'
  BY DEF JobHolds, TimeHolds, WorldMoves, Ahead, Rotates
<1> QED BY <1>2, <1>3, <1>4 DEF JobHolds

LEMMA JobStep ==
  ASSUME TypeInv, TypeInv', RingInv, WorldMoves, RingHolds',
         NEW p \in Jobs, NEW y, job' = [job EXCEPT ![p] = y], JobHolds(y)'
  PROVE  RingInv'
<1>1. job'[p] = y /\ \A q \in Jobs \ {p} : job'[q] = job[q]
  BY DEF TypeInv
<1>2. ASSUME NEW q \in Jobs \ {p} PROVE JobHolds(job[q])'
  <2>1. PICK x \in JobRecords(nextKid) : x = job[q]
    BY DEF TypeInv
  <2>2. JobHolds(x)'
    BY <2>1, JobStays DEF RingInv
  <2>3. job'[q] = x
    BY <1>1, <2>1
  <2> QED BY <2>2, <2>3
<1>3. JobHolds(job[p])'
  BY <1>1
<1> QED BY <1>2, <1>3 DEF RingInv

(* Only the job's own locals change.                                       *)
LEMMA LocalStep ==
  ASSUME TypeInv, TypeInv', RingInv, UNCHANGED <<ring, kv, marker, clock>>,
         NEW p \in Jobs, NEW y \in JobRecords(nextKid), job' = [job EXCEPT ![p] = y], JobHolds(y)
  PROVE  RingInv'
<1>1. WorldMoves
  BY DEF WorldMoves
<1>2. RingHolds'
  BY DEF RingInv, RingHolds
<1>3. JobHolds(y)'
  BY <1>1, JobStays
<1> QED BY <1>1, <1>2, <1>3, JobStep

LEMMA NoJobHolds ==
  ASSUME TypeInv
  PROVE  JobHolds(NoJob)
<1>1. /\ NoJob.pc = "idle" /\ NoJob.back = "idle" /\ NoJob.kind = "load"
      /\ NoJob.legacy = FALSE /\ NoJob.seen = NoRing
  BY DEF NoJob
<1>2. Ahead(NoJob) = "idle"
  BY <1>1 DEF Ahead
<1> QED BY <1>1, <1>2 DEF JobHolds, SeenHolds, MigrationHolds, TimeHolds, Rotates

(* The world stays and no job moves.                                       *)
LEMMA QuietStep ==
  ASSUME TypeInv, RingInv, UNCHANGED <<ring, kv, marker, clock, job>>
  PROVE  RingInv'
BY DEF RingInv, RingHolds, JobHolds, SeenHolds, MigrationHolds, TimeHolds

LEMMA EndStep ==
  ASSUME TypeInv, TypeInv', RingInv, UNCHANGED <<ring, kv, marker, clock>>,
         NEW p \in Jobs, job' = [job EXCEPT ![p] = NoJob]
  PROVE  RingInv'
<1>1. NoJob \in JobRecords(nextKid)
  BY FirstRings DEF TypeInv
<1> QED BY <1>1, NoJobHolds, LocalStep

-----------------------------------------------------------------------------
(* Every keyring that is stored is sound.                                  *)

LEMMA LegacySound == Sound(LegacyRing) /\ LegacyRing.pending = NoKid /\ LegacyRing # NoRing
BY DEF Sound, LegacyRing, LegacyKid, NoKid, FreshKey, Retired, NoRing, Never

LEMMA BootSound ==
  ASSUME TypeInv, NEW at \in Nat
  PROVE  Sound(Boot(at))
BY BootType DEF Sound, FreshKey, Retired

LEMMA RetainedKeys ==
  ASSUME NEW f, NEW at
  PROVE  /\ \A k \in DOMAIN Retained(f, at) : k \in DOMAIN f /\ Retained(f, at)[k] = f[k]
         /\ \A k \in DOMAIN f : ~Retired(f[k]) => k \in DOMAIN Retained(f, at)
         /\ \A k \in DOMAIN f : at - f[k].retiredAt < Grace => k \in DOMAIN Retained(f, at)
BY DEF Retained

LEMMA StagedSound ==
  ASSUME TypeInv, NEW r \in Keyrings(nextKid), Sound(r), r.pending = NoKid, NEW at \in Nat
  PROVE  Sound(Staged(r, at))
<1>1. nextKid \in Nat \ {0} /\ r.keys \in KeyMaps(nextKid)
  BY DEF TypeInv, Keyrings
<1> DEFINE f == r.keys
           s == Stripped(f)
           g == Retained(s, at)
           h == [k \in {nextKid} \cup DOMAIN g |-> IF k = nextKid THEN FreshKey(at) ELSE g[k]]
<1>2. DOMAIN f \subseteq 0 .. nextKid - 1
  BY <1>1, KeyMapDomain
<1>3. /\ s \in KeyMaps(nextKid) /\ DOMAIN s = DOMAIN f
      /\ \A k \in DOMAIN f : /\ s[k].retiredAt = f[k].retiredAt
                             /\ s[k].priv <=> f[k].priv /\ ~Retired(f[k])
  BY <1>1, StrippedType
<1> HIDE DEF s
<1>4. /\ \A k \in DOMAIN g : k \in DOMAIN s /\ g[k] = s[k]
      /\ \A k \in DOMAIN s : ~Retired(s[k]) => k \in DOMAIN g
  BY RetainedKeys
<1>5. /\ Staged(r, at).active = r.active /\ Staged(r, at).pending = nextKid
      /\ Staged(r, at).keys = h
  BY StagedType DEF s
<1>6. /\ r.active \in DOMAIN f /\ ~Retired(f[r.active]) /\ f[r.active].priv
      /\ \A k \in DOMAIN f \ {r.active, NoKid} : ~f[k].priv
  BY DEF Sound
<1>7. NoKid \notin DOMAIN f /\ nextKid \notin DOMAIN f
  BY <1>1, <1>2 DEF NoKid
<1> HIDE DEF f, g
<1>8. r.active \in DOMAIN g /\ ~Retired(g[r.active]) /\ g[r.active].priv /\ r.active # nextKid
  <2>1. r.active \in DOMAIN s /\ ~Retired(s[r.active]) /\ s[r.active].priv
    BY <1>3, <1>6 DEF Retired
  <2> QED BY <1>4, <1>6, <1>7, <2>1
<1>9. ASSUME NEW k \in DOMAIN g \ {r.active} PROVE ~g[k].priv
  <2>1. k \in DOMAIN s /\ k \in DOMAIN f /\ g[k] = s[k]
    BY <1>3, <1>4
  <2>2. ~f[k].priv
    BY <1>6, <1>7, <2>1
  <2>3. ~s[k].priv
    BY <1>3, <2>1, <2>2
  <2> QED BY <2>1, <2>3
<1>10. DOMAIN h = {nextKid} \cup DOMAIN g /\ h[nextKid] = FreshKey(at)
       /\ \A k \in DOMAIN g \ {nextKid} : h[k] = g[k]
  OBVIOUS
<1>11. ~Retired(FreshKey(at)) /\ FreshKey(at).priv
  BY DEF FreshKey, Retired
<1> HIDE DEF h
<1> QED BY <1>5, <1>8, <1>9, <1>10, <1>11 DEF Sound

LEMMA ActivatedSound ==
  ASSUME TypeInv, NEW r \in Keyrings(nextKid), Sound(r), r.pending # NoKid, NEW at \in Nat
  PROVE  Sound(Activated(r, at))
<1>1. nextKid \in Nat \ {0} /\ r.keys \in KeyMaps(nextKid)
  BY DEF TypeInv, Keyrings
<1> DEFINE f == r.keys
           t == [f EXCEPT ![r.active].retiredAt = at]
           s == Stripped(t)
           g == Retained(s, at)
<1>2. DOMAIN f \subseteq 0 .. nextKid - 1
  BY <1>1, KeyMapDomain
<1>3. /\ t \in KeyMaps(nextKid) /\ DOMAIN t = DOMAIN f
      /\ \A k \in DOMAIN f \ {r.active} : t[k] = f[k]
      /\ r.active \in DOMAIN f => t[r.active].retiredAt = at
  BY <1>1, RetiringType
<1> HIDE DEF t
<1>4. /\ s \in KeyMaps(nextKid) /\ DOMAIN s = DOMAIN t
      /\ \A k \in DOMAIN t : /\ s[k].retiredAt = t[k].retiredAt
                             /\ s[k].priv <=> t[k].priv /\ ~Retired(t[k])
  BY <1>1, <1>3, StrippedType
<1> HIDE DEF s
<1>5. /\ \A k \in DOMAIN g : k \in DOMAIN s /\ g[k] = s[k]
      /\ \A k \in DOMAIN s : ~Retired(s[k]) => k \in DOMAIN g
  BY RetainedKeys
<1>6. /\ Activated(r, at).active = r.pending /\ Activated(r, at).pending = NoKid
      /\ Activated(r, at).keys = g
  BY ActivatedType DEF s, t
<1>7. /\ r.active \in DOMAIN f /\ r.pending \in DOMAIN f /\ r.pending # r.active
      /\ ~Retired(f[r.pending]) /\ f[r.pending].priv
      /\ \A k \in DOMAIN f \ {r.active, r.pending} : ~f[k].priv
  BY DEF Sound
<1> HIDE DEF f, g
<1>8. r.pending \in DOMAIN g /\ ~Retired(g[r.pending]) /\ g[r.pending].priv
  <2>1. r.pending \in DOMAIN t /\ t[r.pending] = f[r.pending]
    BY <1>3, <1>7
  <2>2. r.pending \in DOMAIN s /\ ~Retired(s[r.pending]) /\ s[r.pending].priv
    BY <1>4, <1>7, <2>1 DEF Retired
  <2> QED BY <1>5, <2>2
<1>9. Retired(t[r.active])
  BY <1>3, <1>7 DEF Retired, Never
<1>10. ASSUME NEW k \in DOMAIN g \ {r.pending} PROVE ~g[k].priv
  <2>1. k \in DOMAIN s /\ k \in DOMAIN t /\ k \in DOMAIN f /\ g[k] = s[k]
    BY <1>3, <1>4, <1>5
  <2>2. Retired(t[k]) \/ ~t[k].priv
    BY <1>3, <1>7, <1>9, <2>1
  <2>3. ~s[k].priv
    BY <1>4, <2>1, <2>2
  <2> QED BY <2>1, <2>3
<1> QED BY <1>6, <1>8, <1>10 DEF Sound

(* A write that goes through was computed from the row it replaces.        *)
LEMMA StoresSound ==
  ASSUME TypeInv, RingInv, NEW p \in Jobs, job[p].pc = "write", Stored(p)
  PROVE  /\ ring' # NoRing /\ ring.version < ring'.version /\ 0 < ring'.version /\ Sound(ring')
         /\ job[p].seen = ring \/ (ring = NoRing /\ job[p].seen = LegacyRing)
<1>1. /\ ring'.version = ring.version + 1 /\ ring'.active = Rotated(p).active
      /\ ring'.pending = Rotated(p).pending /\ ring'.keys = Rotated(p).keys
  BY StoredType
<1>2. /\ ring.version \in Nat /\ job[p].seen \in Keyrings(nextKid) /\ job[p].at \in Nat
      /\ ring.version = job[p].seen.version
  BY DEF TypeInv, Keyrings, JobRecords, Stored, VersionMatches
<1>3. NoRing.version = 0 /\ LegacyRing.version = 0
  BY DEF NoRing, LegacyRing
<1>4. ring' # NoRing /\ ring.version < ring'.version /\ 0 < ring'.version
  BY <1>1, <1>2, <1>3
<1>5. SeenHolds(job[p].seen) /\ MigrationHolds(job[p]) /\ RingHolds
  BY DEF RingInv, JobHolds
<1>6. job[p].seen = ring \/ (ring = NoRing /\ job[p].seen = LegacyRing)
  BY <1>2, <1>3, <1>5 DEF SeenHolds, RingHolds
<1>7. job[p].legacy => job[p].seen = LegacyRing
  BY <1>5 DEF MigrationHolds, Ahead
<1>8. job[p].seen # NoRing => Sound(job[p].seen)
  BY <1>5, <1>6, LegacySound DEF RingHolds
<1>9. Sound(Rotated(p))
  <2>1. CASE job[p].kind = "load" /\ job[p].legacy
    BY <1>7, <2>1, LegacySound DEF Rotated
  <2>2. CASE ~(job[p].kind = "load" /\ job[p].legacy) /\ job[p].seen = NoRing
    BY <1>2, <2>2, BootSound DEF Rotated
  <2>3. CASE ~(job[p].kind = "load" /\ job[p].legacy) /\ job[p].seen # NoRing
             /\ job[p].seen.pending = NoKid
    BY <1>2, <1>8, <2>3, StagedSound DEF Rotated
  <2>4. CASE ~(job[p].kind = "load" /\ job[p].legacy) /\ job[p].seen # NoRing
             /\ job[p].seen.pending # NoKid
    BY <1>2, <1>8, <2>4, ActivatedSound DEF Rotated
  <2> QED BY <2>1, <2>2, <2>3, <2>4
<1>10. Sound(ring')
  BY <1>1, <1>9 DEF Sound
<1> QED BY <1>4, <1>6, <1>10

-----------------------------------------------------------------------------
(* The steps of one job.                                                   *)

LEMMA GotoFields ==
  ASSUME TypeInv, NEW p \in Jobs, NEW pc \in Pcs, Goto(p, pc)
  PROVE  \E y \in JobRecords(nextKid) :
           /\ job' = [job EXCEPT ![p] = y]
           /\ y.pc = pc /\ y.kind = job[p].kind /\ y.at = job[p].at /\ y.seen = job[p].seen
           /\ y.legacy = job[p].legacy /\ y.back = job[p].back
           /\ y.deadline = job[p].deadline
<1>1. job[p] \in JobRecords(nextKid)
  BY DEF TypeInv
<1> DEFINE y == [job[p] EXCEPT !.pc = pc]
<1>2. /\ y \in JobRecords(nextKid)
      /\ y.pc = pc /\ y.kind = job[p].kind /\ y.at = job[p].at /\ y.seen = job[p].seen
      /\ y.legacy = job[p].legacy /\ y.back = job[p].back /\ y.deadline = job[p].deadline
  BY <1>1 DEF JobRecords
<1>3. job' = [job EXCEPT ![p] = y]
  BY DEF Goto, TypeInv
<1> HIDE DEF y
<1> QED BY <1>2, <1>3

(* A job moves on between two of its steps without a load or a write.      *)
LEMMA GotoRing ==
  ASSUME TypeInv, TypeInv', RingInv, UNCHANGED <<ring, kv, marker, clock>>, NEW p \in Jobs,
         NEW pc \in {"lease", "rotate", "recheck", "poll", "write", "return", "end"}, Goto(p, pc),
         job[p].pc \in {"due", "lease", "legacy", "write", "return", "poll"},
         pc \in {"return", "end"} \/ job[p].pc \in {"due", "lease", "legacy", "poll"},
         pc = "rotate" => job[p].kind = "cron",
         pc = "write" => job[p].pc = "legacy" /\ kv # Copies
  PROVE  RingInv'
<1>1. PICK y \in JobRecords(nextKid) :
           /\ job' = [job EXCEPT ![p] = y]
           /\ y.pc = pc /\ y.kind = job[p].kind /\ y.at = job[p].at /\ y.seen = job[p].seen
           /\ y.legacy = job[p].legacy /\ y.back = job[p].back
           /\ y.deadline = job[p].deadline
  BY GotoFields DEF Pcs
<1>2. JobHolds(job[p]) /\ RingHolds
  BY DEF RingInv
<1>3. Ahead(job[p]) = job[p].pc /\ Ahead(y) = pc
  BY <1>1 DEF Ahead
<1>4. SeenHolds(y.seen)
  BY <1>1, <1>2 DEF JobHolds
<1>5. MigrationHolds(y)
  BY <1>1, <1>2, <1>3 DEF JobHolds, MigrationHolds, RingHolds
<1>6. TimeHolds(y)
  BY <1>1, <1>2, <1>3 DEF JobHolds, TimeHolds, MigrationHolds, Rotates
<1> QED BY <1>1, <1>4, <1>5, <1>6, LocalStep DEF JobHolds

LEMMA LoadedRing ==
  ASSUME TypeInv, TypeInv', RingInv, UNCHANGED <<ring, kv, marker, clock>>, NEW p \in Jobs,
         NEW pc \in {"due", "legacy", "write", "initLegacy", "return"}, Loaded(p, pc),
         job[p].pc \in {"status", "rotate", "recheck", "poll"},
         pc \in {"legacy", "write"} => job[p].pc = "rotate", pc = "write" => ring # NoRing
  PROVE  RingInv'
<1>1. job[p] \in JobRecords(nextKid) /\ ring \in Keyrings(nextKid)
  BY DEF TypeInv
<1>2. PICK now \in {pc, "kvDelete"} :
        /\ job' = [job EXCEPT ![p].seen = ring, ![p].pc = now, ![p].back = pc]
        /\ now = "kvDelete" => ring # NoRing
  <2>1. CASE ring # NoRing /\ marker
    BY <2>1 DEF Loaded
  <2>2. CASE ~(ring # NoRing /\ marker)
    <3>1. job' = [job EXCEPT ![p].seen = ring, ![p].pc = pc, ![p].back = pc]
      BY <2>2 DEF Loaded
    <3> QED BY <3>1
  <2> QED BY <2>1, <2>2
<1> DEFINE z == [job[p] EXCEPT !.seen = ring, !.pc = now, !.back = pc]
<1>3. /\ z \in JobRecords(nextKid) /\ z.pc = now /\ z.kind = job[p].kind /\ z.at = job[p].at
      /\ z.seen = ring /\ z.legacy = job[p].legacy /\ z.back = pc
      /\ z.deadline = job[p].deadline
  BY <1>1 DEF JobRecords, Pcs
<1>4. job' = [job EXCEPT ![p] = z]
  BY <1>1, <1>2
<1> HIDE DEF z
<1>5. PICK y \in JobRecords(nextKid) : y = z
  BY <1>3
<1>6. JobHolds(job[p]) /\ RingHolds
  BY DEF RingInv
<1>7. Ahead(job[p]) = job[p].pc /\ Ahead(y) = pc
  BY <1>3, <1>5 DEF Ahead
<1>8. SeenHolds(y.seen)
  <2>1. ring.version \in Nat
    BY <1>1 DEF Keyrings
  <2> QED BY <1>3, <1>5, <1>6, <2>1 DEF SeenHolds, RingHolds
<1>9. MigrationHolds(y)
  BY <1>2, <1>3, <1>5, <1>6, <1>7 DEF JobHolds, MigrationHolds
<1>10. TimeHolds(y)
  BY <1>3, <1>5, <1>6, <1>7 DEF JobHolds, TimeHolds, MigrationHolds, Rotates
<1> QED BY <1>4, <1>5, <1>8, <1>9, <1>10, LocalStep DEF JobHolds

(* The legacy keyring is found: it is to be marked before it is written.    *)
LEMMA FoundRing ==
  ASSUME TypeInv, TypeInv', RingInv, UNCHANGED <<ring, kv, marker, clock>>, NEW p \in Jobs,
         job' = [job EXCEPT ![p].seen = LegacyRing, ![p].legacy = TRUE, ![p].pc = "mark"],
         job[p].pc \in {"legacy", "initLegacy"}
  PROVE  RingInv'
<1>1. job[p] \in JobRecords(nextKid) /\ LegacyRing \in Keyrings(nextKid)
  BY FirstRings DEF TypeInv
<1> DEFINE z == [job[p] EXCEPT !.seen = LegacyRing, !.legacy = TRUE, !.pc = "mark"]
<1>2. /\ z \in JobRecords(nextKid) /\ z.pc = "mark" /\ z.kind = job[p].kind
      /\ z.at = job[p].at /\ z.seen = LegacyRing /\ z.legacy = TRUE /\ z.back = job[p].back
      /\ z.deadline = job[p].deadline
  BY <1>1 DEF JobRecords, Pcs
<1>3. job' = [job EXCEPT ![p] = z]
  BY <1>1
<1> HIDE DEF z
<1>4. PICK y \in JobRecords(nextKid) : y = z
  BY <1>2
<1>5. JobHolds(job[p])
  BY DEF RingInv
<1>6. Ahead(job[p]) = job[p].pc /\ Ahead(y) = "mark"
  BY <1>2, <1>4 DEF Ahead
<1>7. JobHolds(y)
  BY <1>2, <1>4, <1>5, <1>6 DEF JobHolds, SeenHolds, MigrationHolds, TimeHolds, Rotates
<1> QED BY <1>3, <1>4, <1>7, LocalStep

(* Neither copy is there: the first key is made, at the present time.      *)
LEMMA FirstRing ==
  ASSUME TypeInv, TypeInv', RingInv, UNCHANGED <<ring, kv, marker, clock>>, NEW p \in Jobs,
         job' = [job EXCEPT ![p].pc = "rotate", ![p].at = clock, ![p].releasing = TRUE],
         job[p].pc = "initLegacy"
  PROVE  RingInv'
<1>1. job[p] \in JobRecords(nextKid) /\ clock \in Nat /\ job[p].at \in Nat
      /\ job[p].at <= clock
  BY DEF TypeInv, JobRecords
<1> DEFINE z == [job[p] EXCEPT !.pc = "rotate", !.at = clock, !.releasing = TRUE]
<1>2. /\ z \in JobRecords(nextKid) /\ z.pc = "rotate" /\ z.kind = job[p].kind
      /\ z.at = clock /\ z.seen = job[p].seen /\ z.legacy = job[p].legacy
      /\ z.back = job[p].back /\ z.deadline = job[p].deadline
  BY <1>1 DEF JobRecords, Pcs
<1>3. job' = [job EXCEPT ![p] = z]
  BY <1>1
<1> HIDE DEF z
<1>4. PICK y \in JobRecords(nextKid) : y = z
  BY <1>2
<1>5. JobHolds(job[p])
  BY DEF RingInv
<1>6. Ahead(job[p]) = job[p].pc /\ Ahead(y) = "rotate"
  BY <1>2, <1>4 DEF Ahead
<1>7. SeenHolds(y.seen) /\ MigrationHolds(y)
  BY <1>2, <1>4, <1>5, <1>6 DEF JobHolds, MigrationHolds
<1>8. y.kind = "cron" => y.deadline <= y.at + CronDelay
  <2>1. job[p].deadline \in Nat /\ CronDelay \in Nat
    BY <1>1, ConstantsAssumption DEF JobRecords
  <2> QED BY <1>1, <1>2, <1>4, <1>5, <2>1 DEF JobHolds, TimeHolds
<1>9. TimeHolds(y)
  BY <1>2, <1>4, <1>5, <1>6, <1>8 DEF JobHolds, TimeHolds
<1> QED BY <1>3, <1>4, <1>7, <1>9, LocalStep DEF JobHolds

LEMMA MarkRing ==
  ASSUME TypeInv, TypeInv', RingInv, NEW p \in Jobs, Mark(p)
  PROVE  RingInv'
<1>1. PICK y \in JobRecords(nextKid) :
           /\ job' = [job EXCEPT ![p] = y]
           /\ y.pc = "write" /\ y.kind = job[p].kind /\ y.at = job[p].at /\ y.seen = job[p].seen
           /\ y.legacy = job[p].legacy /\ y.back = job[p].back
           /\ y.deadline = job[p].deadline
  BY GotoFields DEF Mark, Pcs
<1>2. JobHolds(job[p]) /\ RingHolds /\ job[p].pc = "mark"
  BY DEF RingInv, Mark
<1>3. marker' /\ ring' = ring /\ kv' = kv /\ clock' = clock
  BY DEF Mark
<1>4. WorldMoves /\ RingHolds'
  BY <1>2, <1>3 DEF WorldMoves, RingHolds
<1>5. Ahead(job[p]) = "mark" /\ Ahead(y) = "write"
  BY <1>1, <1>2 DEF Ahead
<1>6. SeenHolds(y.seen)'
  BY <1>1, <1>2, <1>3 DEF JobHolds, SeenHolds
<1>7. MigrationHolds(y)'
  BY <1>1, <1>2, <1>3, <1>5 DEF JobHolds, MigrationHolds, Ahead
<1>8. TimeHolds(y)'
  BY <1>1, <1>2, <1>3, <1>5 DEF JobHolds, TimeHolds, MigrationHolds, Rotates, Ahead
<1> QED BY <1>1, <1>4, <1>6, <1>7, <1>8, JobStep DEF JobHolds

LEMMA ReadyMarkRing ==
  ASSUME TypeInv, TypeInv', RingInv, NEW p \in Jobs, ReadyMark(p)
  PROVE  RingInv'
<1>1. job[p] \in JobRecords(nextKid)
  BY DEF TypeInv
<1> DEFINE z == [job[p] EXCEPT !.pc = "kvDelete", !.back = "end"]
<1>2. /\ z \in JobRecords(nextKid) /\ z.pc = "kvDelete" /\ z.kind = job[p].kind
      /\ z.at = job[p].at /\ z.seen = job[p].seen /\ z.legacy = job[p].legacy
      /\ z.back = "end" /\ z.deadline = job[p].deadline
  BY <1>1 DEF JobRecords, Pcs
<1>3. job' = [job EXCEPT ![p] = z]
  BY <1>1 DEF ReadyMark
<1> HIDE DEF z
<1>4. PICK y \in JobRecords(nextKid) : y = z
  BY <1>2
<1>5. JobHolds(job[p]) /\ RingHolds /\ job[p].pc = "readyMark"
  BY DEF RingInv, ReadyMark
<1>6. marker' /\ ring' = ring /\ kv' = kv /\ clock' = clock
  BY DEF ReadyMark
<1>7. WorldMoves /\ RingHolds'
  BY <1>5, <1>6 DEF WorldMoves, RingHolds
<1>8. Ahead(job[p]) = "readyMark" /\ Ahead(y) = "end"
  BY <1>2, <1>4, <1>5 DEF Ahead
<1>9. SeenHolds(y.seen)'
  BY <1>2, <1>4, <1>5, <1>6 DEF JobHolds, SeenHolds
<1>10. MigrationHolds(y)'
  BY <1>2, <1>4, <1>5, <1>6, <1>8 DEF JobHolds, MigrationHolds, Ahead
<1>11. TimeHolds(y)'
  BY <1>2, <1>4, <1>5, <1>6, <1>8 DEF JobHolds, TimeHolds, Rotates, Ahead
<1> QED BY <1>3, <1>4, <1>7, <1>9, <1>10, <1>11, JobStep DEF JobHolds

(* The copies are removed, or some of them; the caller goes on.            *)
LEMMA RemovalRing ==
  ASSUME TypeInv, TypeInv', RingInv, NEW p \in Jobs, KvDelete(p) \/ KvClear(p)
  PROVE  RingInv'
<1>1. /\ JobHolds(job[p]) /\ RingHolds /\ job[p].pc \in {"kvDelete", "kvClear"}
      /\ ring' = ring /\ clock' = clock /\ job[p].back \in Pcs
  BY DEF RingInv, KvDelete, KvClear, TypeInv, JobRecords
<1>2. /\ kv' \subseteq kv /\ ring # NoRing
  BY <1>1 DEF KvDelete, KvClear, JobHolds, MigrationHolds
<1>3. marker => marker' \/ kv' = {}
  <2>1. CASE KvDelete(p)
    BY <2>1 DEF KvDelete
  <2>2. CASE KvClear(p)
    BY <1>1, <2>2 DEF KvClear, JobHolds, MigrationHolds
  <2> QED BY <2>1, <2>2
<1>4. WorldMoves /\ RingHolds'
  BY <1>1, <1>2, <1>3 DEF WorldMoves, RingHolds
<1>5. PICK pc \in Pcs : Goto(p, pc) /\ (pc = job[p].back \/ (pc = "kvClear" /\ kv' = {}))
  BY <1>1 DEF KvDelete, KvClear, Pcs
<1>6. PICK y \in JobRecords(nextKid) :
           /\ job' = [job EXCEPT ![p] = y]
           /\ y.pc = pc /\ y.kind = job[p].kind /\ y.at = job[p].at /\ y.seen = job[p].seen
           /\ y.legacy = job[p].legacy /\ y.back = job[p].back
           /\ y.deadline = job[p].deadline
  BY <1>5, GotoFields
<1>7. PICK x \in JobRecords(nextKid) : x = job[p]
  BY DEF TypeInv
<1>8. JobHolds(x)'
  BY <1>1, <1>4, <1>7, JobStays
<1>9. Ahead(y) = Ahead(x) /\ x.pc \in {"kvDelete", "kvClear"} /\ Ahead(x) = x.back
  BY <1>1, <1>5, <1>6, <1>7 DEF Ahead, JobHolds, MigrationHolds
<1>10. SeenHolds(y.seen)'
  BY <1>6, <1>7, <1>8 DEF JobHolds
<1>11. y.pc \in {"kvDelete", "kvClear", "readyMark"} => ring' # NoRing
  BY <1>1, <1>2
<1>12. y.pc = "kvClear" => kv' = {}
  BY <1>1, <1>5, <1>6 DEF JobHolds, MigrationHolds
<1>13. MigrationHolds(y)'
  BY <1>6, <1>7, <1>8, <1>9, <1>11, <1>12 DEF JobHolds, MigrationHolds, Ahead
<1>14. TimeHolds(y)'
  BY <1>6, <1>7, <1>8, <1>9 DEF JobHolds, TimeHolds, Rotates, Ahead
<1> QED BY <1>4, <1>6, <1>10, <1>13, <1>14, JobStep DEF JobHolds

(* The write goes through: what the job has is the row.                    *)
LEMMA WrittenRing ==
  ASSUME TypeInv, TypeInv', RingInv, NEW p \in Jobs, job[p].pc = "write", Stored(p),
         UNCHANGED <<clock, kv, marker>>, NEW y \in JobRecords(nextKid'),
         job' = [job EXCEPT ![p] = y], y.seen = ring' \/ y.seen = job[p].seen,
         y.kind = job[p].kind, y.at = job[p].at, y.deadline = job[p].deadline,
         \/ y.pc \in {"return", "kvDelete"} /\ y.back = "return"
         \/ y.pc = "end" /\ y.back = job[p].back
  PROVE  RingInv'
<1>1. /\ ring' # NoRing /\ ring.version < ring'.version /\ 0 < ring'.version /\ Sound(ring')
  BY StoresSound
<1>2. /\ ring.version \in Nat /\ ring'.version \in Nat /\ job[p].seen.version \in Nat
      /\ job[p] \in JobRecords(nextKid)
  BY DEF TypeInv, JobRecords, Keyrings
<1>3. WorldMoves
  BY <1>1 DEF WorldMoves
<1>4. RingHolds'
  BY <1>1 DEF RingHolds, Sound, Retired
<1>5. JobHolds(job[p])
  BY DEF RingInv
<1>6. Ahead(job[p]) = "write" /\ Ahead(y) \in {"return", "end"} /\ job[p].kind # "ready"
  BY <1>5 DEF Ahead, JobHolds, TimeHolds
<1>7. SeenHolds(y.seen)'
  <2>1. CASE y.seen = ring'
    <3>1. /\ 0 < y.seen.version /\ y.seen.version <= ring'.version /\ Sound(y.seen)
      BY <1>1, <1>2, <2>1
    <3> QED BY <2>1, <3>1 DEF SeenHolds
  <2>2. CASE y.seen = job[p].seen
    <3>1. PICK x \in JobRecords(nextKid) : x = job[p]
      BY <1>2
    <3>2. JobHolds(x)'
      BY <1>3, <1>5, <3>1, JobStays
    <3> QED BY <2>2, <3>1, <3>2 DEF JobHolds
  <2> QED BY <2>1, <2>2
<1>8. MigrationHolds(y)'
  BY <1>1, <1>5, <1>6 DEF JobHolds, MigrationHolds, Ahead
<1>9. TimeHolds(y)'
  BY <1>5, <1>6 DEF JobHolds, TimeHolds, Rotates, Ahead
<1> QED BY <1>3, <1>4, <1>7, <1>8, <1>9, JobStep DEF JobHolds

LEMMA PersistRing ==
  ASSUME TypeInv, TypeInv', RingInv, NEW p \in Jobs, Persist(p) \/ PersistError(p)
  PROVE  RingInv'
<1>1. /\ job[p].pc = "write" /\ UNCHANGED <<clock, kv, marker>>
      /\ job[p] \in JobRecords(nextKid) /\ nextKid \in Nat /\ nextKid' \in Nat
      /\ ring' \in Keyrings(nextKid')
  BY DEF Persist, PersistError, TypeInv
<1>2. CASE Stored(p) /\ Goto(p, "end")
  <2>1. PICK y \in JobRecords(nextKid) :
           /\ job' = [job EXCEPT ![p] = y]
           /\ y.pc = "end" /\ y.kind = job[p].kind /\ y.at = job[p].at /\ y.seen = job[p].seen
           /\ y.legacy = job[p].legacy /\ y.back = job[p].back
           /\ y.deadline = job[p].deadline
    BY <1>2, GotoFields DEF Pcs
  <2>2. nextKid <= nextKid'
    BY <1>2, StoredType
  <2>3. y \in JobRecords(nextKid')
    BY <1>1, <2>2, RecordsGrow
  <2> QED BY <1>1, <1>2, <2>1, <2>3, WrittenRing
<1>3. ASSUME Stored(p), NEW pc \in {"return", "kvDelete"},
             job' = [job EXCEPT ![p].seen = ring', ![p].back = "return", ![p].pc = pc]
      PROVE  RingInv'
  <2>1. nextKid <= nextKid'
    BY <1>3, StoredType
  <2>2. job[p] \in JobRecords(nextKid')
    BY <1>1, <2>1, RecordsGrow
  <2> DEFINE z == [job[p] EXCEPT !.seen = ring', !.back = "return", !.pc = pc]
  <2>3. /\ z \in JobRecords(nextKid') /\ z.seen = ring' /\ z.kind = job[p].kind
        /\ z.at = job[p].at /\ z.deadline = job[p].deadline /\ z.pc = pc /\ z.back = "return"
    BY <1>1, <2>2 DEF JobRecords, Pcs
  <2>4. job' = [job EXCEPT ![p] = z]
    BY <1>3 DEF TypeInv
  <2> HIDE DEF z
  <2>5. PICK y \in JobRecords(nextKid') : y = z
    BY <2>3
  <2> QED BY <1>1, <1>3, <2>3, <2>4, <2>5, WrittenRing
<1>4. CASE PersistError(p)
  BY <1>2, <1>4 DEF PersistError
<1>5. CASE Persist(p) /\ VersionMatches(p)
  <2>1. Stored(p)
    BY <1>5 DEF Persist
  <2>2. CASE job[p].legacy
    BY <1>3, <1>5, <2>1, <2>2 DEF Persist
  <2>3. CASE ~job[p].legacy
    BY <1>3, <1>5, <2>1, <2>3 DEF Persist
  <2> QED BY <2>2, <2>3
<1>6. CASE Persist(p) /\ ~VersionMatches(p)
  <2>1. ring' = ring /\ Goto(p, "end")
    BY <1>6 DEF Persist, Stored
  <2> QED BY <1>1, <2>1, GotoRing
<1> QED BY <1>4, <1>5, <1>6

-----------------------------------------------------------------------------
(* A job begins, and the clock.                                            *)

LEMMA CronStartRing ==
  ASSUME TypeInv, TypeInv', RingInv, NEW p \in Jobs, NEW i \in Isolates, CronStart(p, i)
  PROVE  RingInv'
<1> DEFINE at == (clock \div CronPeriod) * CronPeriod
           z == [NoJob EXCEPT !.pc = "status", !.kind = "cron", !.iso = i, !.at = at,
                              !.deadline = at + CronDelay]
<1>1. job' = [job EXCEPT ![p] = z] /\ clock <= at + CronDelay
  BY DEF CronStart
<1>2. NoJob \in JobRecords(nextKid) /\ NoJob.seen = NoRing /\ NoJob.legacy = FALSE
      /\ NoJob.back = "idle"
  BY FirstRings DEF TypeInv, NoJob
<1>3. job'[p] = z /\ job'[p] \in JobRecords(nextKid')
  BY <1>1 DEF TypeInv
<1>4. nextKid' = nextKid /\ UNCHANGED <<ring, kv, marker, clock>>
  BY DEF CronStart
<1> HIDE DEF at
<1>5. /\ z.pc = "status" /\ z.kind = "cron" /\ z.at = at /\ z.deadline = at + CronDelay
      /\ z.seen = NoRing /\ z.legacy = FALSE /\ z.back = "idle"
  BY <1>2 DEF JobRecords
<1> HIDE DEF z
<1>6. PICK y \in JobRecords(nextKid) : y = z
  BY <1>3, <1>4
<1>7. Ahead(y) = "status"
  BY <1>5, <1>6 DEF Ahead
<1>8. at + CronDelay \in Nat
  BY <1>5, <1>6 DEF JobRecords
<1>9. TimeHolds(y)
  BY <1>1, <1>5, <1>6, <1>7, <1>8 DEF TimeHolds, Rotates
<1>10. SeenHolds(y.seen) /\ MigrationHolds(y)
  BY <1>5, <1>6, <1>7 DEF SeenHolds, MigrationHolds
<1> QED BY <1>1, <1>4, <1>6, <1>9, <1>10, LocalStep DEF JobHolds

LEMMA EnsureStartRing ==
  ASSUME TypeInv, TypeInv', RingInv, NEW p \in Jobs, NEW i \in Isolates, EnsureStart(p, i)
  PROVE  RingInv'
<1>1. PICK pc \in {"lease", "kvDelete", "return"} :
        /\ job' = [job EXCEPT ![p] =
             [NoJob EXCEPT !.iso = i, !.deadline = clock + LoadLatency, !.seen = ring, !.pc = pc,
                           !.back = "return"]]
        /\ pc = "kvDelete" => ring # NoRing
  <2>1. CASE ring = NoRing
    BY <2>1 DEF EnsureStart
  <2>2. CASE ring # NoRing /\ marker
    BY <2>2 DEF EnsureStart
  <2>3. CASE ring # NoRing /\ ~marker
    BY <2>3 DEF EnsureStart
  <2> QED BY <2>1, <2>2, <2>3
<1> DEFINE z == [NoJob EXCEPT !.iso = i, !.deadline = clock + LoadLatency, !.seen = ring,
                              !.pc = pc, !.back = "return"]
<1>2. NoJob \in JobRecords(nextKid) /\ NoJob.kind = "load" /\ NoJob.legacy = FALSE
  BY FirstRings DEF TypeInv, NoJob
<1>3. job' = [job EXCEPT ![p] = z] /\ job'[p] = z /\ job'[p] \in JobRecords(nextKid')
  BY <1>1 DEF TypeInv
<1>4. nextKid' = nextKid /\ UNCHANGED <<ring, kv, marker, clock>>
  BY DEF EnsureStart
<1>5. /\ z.pc = pc /\ z.kind = "load" /\ z.deadline = clock + LoadLatency
      /\ z.seen = ring /\ z.legacy = FALSE /\ z.back = "return"
  BY <1>2 DEF JobRecords
<1> HIDE DEF z
<1>6. PICK y \in JobRecords(nextKid) : y = z
  BY <1>3, <1>4
<1>7. Ahead(y) \in {"lease", "return"}
  BY <1>5, <1>6 DEF Ahead
<1>8. clock \in Nat /\ LoadLatency \in Nat /\ ring.version \in Nat /\ RingHolds
  BY ConstantsAssumption DEF TypeInv, RingInv, Keyrings
<1>9. TimeHolds(y)
  BY <1>5, <1>6, <1>7, <1>8 DEF TimeHolds, Rotates
<1>10. SeenHolds(y.seen)
  BY <1>5, <1>6, <1>8 DEF SeenHolds, RingHolds
<1>11. MigrationHolds(y)
  BY <1>1, <1>5, <1>6, <1>7 DEF MigrationHolds
<1> QED BY <1>3, <1>4, <1>6, <1>9, <1>10, <1>11, LocalStep DEF JobHolds

LEMMA ReadyStartRing ==
  ASSUME TypeInv, TypeInv', RingInv, NEW p \in Jobs, ReadyStart(p)
  PROVE  RingInv'
<1> DEFINE z == [NoJob EXCEPT !.pc = "readyMark", !.kind = "ready",
                              !.deadline = clock + LoadLatency]
<1>1. job' = [job EXCEPT ![p] = z] /\ ring # NoRing
  BY DEF ReadyStart
<1>2. NoJob \in JobRecords(nextKid) /\ NoJob.seen = NoRing /\ NoJob.legacy = FALSE
      /\ NoJob.back = "idle"
  BY FirstRings DEF TypeInv, NoJob
<1>3. job'[p] = z /\ job'[p] \in JobRecords(nextKid')
  BY <1>1 DEF TypeInv
<1>4. nextKid' = nextKid /\ UNCHANGED <<ring, kv, marker, clock>>
  BY DEF ReadyStart
<1>5. /\ z.pc = "readyMark" /\ z.kind = "ready" /\ z.deadline = clock + LoadLatency
      /\ z.seen = NoRing /\ z.legacy = FALSE /\ z.back = "idle"
  BY <1>2 DEF JobRecords
<1> HIDE DEF z
<1>6. PICK y \in JobRecords(nextKid) : y = z
  BY <1>3, <1>4
<1>7. Ahead(y) = "readyMark"
  BY <1>5, <1>6 DEF Ahead
<1>8. clock \in Nat /\ LoadLatency \in Nat
  BY ConstantsAssumption DEF TypeInv
<1>9. TimeHolds(y)
  BY <1>5, <1>6, <1>7, <1>8 DEF TimeHolds, Rotates
<1>10. SeenHolds(y.seen) /\ MigrationHolds(y)
  BY <1>1, <1>5, <1>6, <1>7 DEF SeenHolds, MigrationHolds
<1> QED BY <1>1, <1>4, <1>6, <1>9, <1>10, LocalStep DEF JobHolds

LEMMA TickRing ==
  ASSUME TypeInv, TypeInv', RingInv, Tick
  PROVE  RingInv'
<1>1. clock \in Nat /\ clock' = clock + 1 /\ UNCHANGED <<ring, kv, marker, job>>
      /\ LoadLatency \in Nat
  BY ConstantsAssumption DEF Tick, TypeInv
<1>2. RingHolds'
  BY <1>1 DEF RingInv, RingHolds
<1>3. ASSUME NEW p \in Jobs PROVE JobHolds(job[p])'
  <2>1. PICK x \in JobRecords(nextKid) : x = job[p]
    BY DEF TypeInv
  <2>2. JobHolds(x) /\ (x.pc # "idle" => clock < x.deadline) /\ job'[p] = x
        /\ x.deadline \in Nat
    BY <1>1, <2>1 DEF RingInv, Tick, JobRecords
  <2>3. SeenHolds(x.seen)' /\ MigrationHolds(x)'
    BY <1>1, <2>2 DEF JobHolds, SeenHolds, MigrationHolds
  <2>4. x.pc # "idle" => clock' <= x.deadline
    BY <1>1, <2>2
  <2>5. x.kind = "load" /\ x.pc # "idle" => x.deadline <= clock' + LoadLatency
    BY <1>1, <2>2 DEF JobHolds, TimeHolds
  <2>6. TimeHolds(x)'
    BY <2>2, <2>4, <2>5 DEF JobHolds, TimeHolds
  <2> QED BY <2>2, <2>3, <2>6 DEF JobHolds
<1> QED BY <1>2, <1>3 DEF RingInv

LEMMA InitRing ==
  ASSUME Init
  PROVE  RingInv
<1>1. /\ clock = 0 /\ job = [p \in Jobs |-> NoJob] /\ TypeInv
  BY InitTypes DEF Init
<1>2. \A p \in Jobs : JobHolds(job[p])
  BY <1>1, NoJobHolds
<1>3. CASE ring = NoRing /\ kv \in {{}, Copies}
  BY <1>2, <1>3 DEF RingInv, RingHolds
<1>4. CASE ring = [LegacyRing EXCEPT !.version = 1]
  <2>1. /\ ring.version = 1 /\ ring.active = LegacyRing.active
        /\ ring.pending = LegacyRing.pending /\ ring.keys = LegacyRing.keys
    BY <1>4 DEF LegacyRing
  <2>2. Sound(ring)
    BY <2>1, LegacySound DEF Sound
  <2>3. ring # NoRing
    BY <2>1 DEF NoRing
  <2> QED BY <1>2, <2>1, <2>2, <2>3 DEF RingInv, RingHolds
<1>5. (ring = NoRing /\ kv \in {{}, Copies}) \/ ring = [LegacyRing EXCEPT !.version = 1]
  BY DEF Init
<1> QED BY <1>3, <1>4, <1>5

LEMMA JobRing ==
  ASSUME TypeInv, TypeInv', RingInv, NEW p \in Jobs,
         Step(p) \/ PersistError(p) \/ Crash(p) \/ ReadyStart(p)
  PROVE  RingInv'
<1>1. CASE CronStatus(p) \/ RotateLoad(p) \/ InitRecheck(p) \/ (InitPoll(p) /\ ring # NoRing)
  <2>1. PICK pc \in {"due", "legacy", "write", "initLegacy", "return"} :
          /\ Loaded(p, pc) /\ job[p].pc \in {"status", "rotate", "recheck", "poll"}
          /\ pc \in {"legacy", "write"} => job[p].pc = "rotate"
          /\ pc = "write" => ring # NoRing
    BY <1>1 DEF CronStatus, RotateLoad, InitRecheck, InitPoll
  <2>2. UNCHANGED <<ring, kv, marker, clock>>
    BY <1>1 DEF CronStatus, RotateLoad, InitRecheck, InitPoll
  <2> QED BY <2>1, <2>2, LoadedRing
<1>2. CASE CronDue(p) \/ CronLease(p) \/ InitLease(p) \/ (InitPoll(p) /\ ring = NoRing)
           \/ PersistNothing(p) \/ Return(p) \/ (RotateLegacy(p) /\ kv # Copies)
  <2>1. \E pc \in {"lease", "rotate", "recheck", "poll", "write", "return", "end"} :
          /\ Goto(p, pc) /\ job[p].pc \in {"due", "lease", "legacy", "write", "return", "poll"}
          /\ pc \in {"return", "end"} \/ job[p].pc \in {"due", "lease", "legacy", "poll"}
          /\ pc = "rotate" => job[p].kind = "cron"
          /\ pc = "write" => job[p].pc = "legacy" /\ kv # Copies
    <3>1. CASE CronDue(p)
      <4>1. Goto(p, "lease") \/ Goto(p, "end")
        BY <3>1 DEF CronDue
      <4> QED BY <3>1, <4>1 DEF CronDue
    <3>2. CASE CronLease(p) \/ InitLease(p)
      BY <3>2 DEF CronLease, InitLease
    <3>3. CASE ~CronDue(p) /\ ~CronLease(p) /\ ~InitLease(p)
      BY <1>2, <3>3 DEF InitPoll, PersistNothing, Return, RotateLegacy
    <3> QED BY <3>1, <3>2, <3>3
  <2>2. UNCHANGED <<ring, kv, marker, clock>>
    BY <1>2 DEF CronDue, CronLease, InitLease, InitPoll, PersistNothing, Return, RotateLegacy
  <2> QED BY <2>1, <2>2, GotoRing
<1>3. CASE CronEnd(p) \/ LoadEnd(p) \/ Crash(p)
  BY <1>3, EndStep DEF CronEnd, LoadEnd, Crash
<1>4. CASE (RotateLegacy(p) /\ kv = Copies) \/ (InitLegacy(p) /\ kv = Copies)
  BY <1>4, FoundRing DEF RotateLegacy, InitLegacy
<1>5. CASE InitLegacy(p) /\ kv # Copies
  BY <1>5, FirstRing DEF InitLegacy
<1>6. CASE ReleaseKey(p)
  BY <1>6, QuietStep DEF ReleaseKey
<1> QED BY <1>1, <1>2, <1>3, <1>4, <1>5, <1>6, MarkRing, ReadyMarkRing, RemovalRing, PersistRing,
           ReadyStartRing DEF Step

LEMMA StepRing ==
  ASSUME TypeInv, RingInv, [Next]_vars
  PROVE  RingInv'
<1>1. TypeInv'
  BY StepTypes
<1>2. ASSUME NEW i \in Isolates, Sign(i) \/ FetchJwks(i) PROVE RingInv'
  BY <1>2, QuietStep DEF Sign, FetchJwks
<1>3. CASE UNCHANGED vars
  BY <1>3, QuietStep DEF vars
<1> QED BY <1>1, <1>2, <1>3, JobRing, CronStartRing, EnsureStartRing, TickRing DEF Next

LEMMA RingInvariant == Spec => [](TypeInv /\ RingInv)
<1>1. Init => TypeInv /\ RingInv
  BY InitTypes, InitRing
<1>2. TypeInv /\ RingInv /\ [Next]_vars => (TypeInv /\ RingInv)'
  BY StepTypes, StepRing
<1> QED BY <1>1, <1>2, PTL DEF Spec

-----------------------------------------------------------------------------
(* What the invariant gives.                                               *)

LEMMA SoundHalves ==
  ASSUME TypeInv, RingInv
  PROVE  PrivateHalves
<1> SUFFICES ASSUME ring # NoRing PROVE PrivateHalves
  BY DEF PrivateHalves
<1>1. Sound(ring)
  BY DEF RingInv, RingHolds
<1>2. ring.keys \in KeyMaps(nextKid) /\ nextKid \in Nat
  BY DEF TypeInv, Keyrings
<1>3. NoKid \notin DOMAIN ring.keys
  BY <1>2, KeyMapDomain DEF NoKid
<1>4. Usable(ring)
  BY <1>1 DEF Sound, Usable
<1>5. ASSUME NEW k PROVE k \in DOMAIN ring.keys /\ ring.keys[k].priv <=>
                           k \in {ring.active, ring.pending} \ {NoKid}
  BY <1>1, <1>3 DEF Sound
<1> QED BY <1>4, <1>5 DEF PrivateHalves

(* The keyring in D1 can always sign, the staged key will be able to, and   *)
(* no retired key keeps its private half (rotatePersistedKeyring,           *)
(* persistKeyring), however many jobs write at once, crash or are told of   *)
(* an error that did not happen.                                            *)
THEOREM HalvesInPlace == Spec => []PrivateHalves
BY RingInvariant, SoundHalves, PTL

(* What a step does to the row, the copies in KV and the marker.           *)
LEMMA StoreSteps ==
  ASSUME TypeInv, RingInv, [Next]_vars
  PROVE  \/ /\ ring' = ring /\ kv' \subseteq kv
            /\ marker => marker' \/ kv' = {}
         \/ \E p \in Jobs : /\ job[p].pc = "write" /\ Stored(p)
                            /\ UNCHANGED <<kv, marker, clock>>
<1> DEFINE Still == ring' = ring /\ kv' \subseteq kv /\ (marker => marker' \/ kv' = {})
           Writes == \E p \in Jobs : /\ job[p].pc = "write" /\ Stored(p)
                                     /\ UNCHANGED <<kv, marker, clock>>
<1>1. ASSUME NEW p \in Jobs, Persist(p) \/ PersistError(p) PROVE Still \/ Writes
  BY <1>1 DEF Persist, PersistError
<1>2. ASSUME NEW p \in Jobs, Mark(p) \/ ReadyMark(p) PROVE Still
  BY <1>2 DEF Mark, ReadyMark
<1>3. ASSUME NEW p \in Jobs, KvDelete(p) PROVE Still
  BY <1>3 DEF KvDelete
<1>4. ASSUME NEW p \in Jobs, KvClear(p) PROVE Still
  <2>1. kv = {}
    BY <1>4 DEF KvClear, RingInv, JobHolds, MigrationHolds
  <2> QED BY <1>4, <2>1 DEF KvClear
<1>5. ASSUME NEW p \in Jobs, Step(p) \/ Crash(p) \/ ReadyStart(p), ~Persist(p), ~Mark(p),
             ~ReadyMark(p), ~KvDelete(p), ~KvClear(p)
      PROVE  Still
  BY <1>5 DEF Step, CronStatus, CronDue, CronLease, CronEnd, RotateLoad, RotateLegacy,
              PersistNothing, Return, ReleaseKey, InitLease, InitRecheck, InitLegacy, InitPoll,
              LoadEnd, Crash, ReadyStart
<1>6. ASSUME NEW p \in Jobs, NEW i \in Isolates, CronStart(p, i) \/ EnsureStart(p, i)
      PROVE  Still
  BY <1>6 DEF CronStart, EnsureStart
<1>7. ASSUME NEW i \in Isolates, Sign(i) \/ FetchJwks(i) PROVE Still
  BY <1>7 DEF Sign, FetchJwks
<1>8. ASSUME Tick \/ UNCHANGED vars PROVE Still
  BY <1>8 DEF Tick, vars
<1> HIDE DEF Still, Writes
<1>9. Still \/ Writes
  BY <1>1, <1>2, <1>3, <1>4, <1>5, <1>6, <1>7, <1>8 DEF Next, Step
<1> QED BY <1>9 DEF Still, Writes

(* No interleaving of boots, migrations, probes, failures and crashes       *)
(* leaves a keyring in D1 beside a copy of the old one in KV without the    *)
(* marker that makes every load retry the removal                           *)
(* (markLegacyKvCleanupPending before persistKeyring).                      *)
THEOREM CopiesTracked == Spec => CopiesStayTracked
<1>1. TypeInv /\ RingInv /\ [Next]_vars => [Untracked' => Untracked]_vars
  <2> SUFFICES ASSUME TypeInv, RingInv, [Next]_vars, Untracked' PROVE Untracked
    OBVIOUS
  <2>1. CASE ring' = ring /\ kv' \subseteq kv /\ (marker => marker' \/ kv' = {})
    BY <2>1 DEF Untracked
  <2>2. ASSUME NEW p \in Jobs, job[p].pc = "write", Stored(p), UNCHANGED <<kv, marker, clock>>
        PROVE  Untracked
    <3>1. kv # {} /\ ~marker
      BY <2>2 DEF Untracked
    <3>2. MigrationHolds(job[p]) /\ Ahead(job[p]) = "write"
      BY <2>2 DEF RingInv, JobHolds, Ahead
    <3>3. ring # NoRing
      BY <3>1, <3>2 DEF MigrationHolds
    <3> QED BY <3>1, <3>3 DEF Untracked
  <2> QED BY <2>1, <2>2, StoreSteps
<1> QED BY <1>1, RingInvariant, PTL DEF Spec, CopiesStayTracked

(* A key that a writer finds in the row stays published after its write.   *)
LEMMA StagedPublishes ==
  ASSUME TypeInv, NEW r \in Keyrings(nextKid), Sound(r), r.pending = NoKid,
         NEW at \in Nat, at <= clock
  PROVE  Published(r, clock) \subseteq Published(Staged(r, at), clock)
<1> SUFFICES ASSUME NEW k \in Published(r, clock)
             PROVE  k \in Published(Staged(r, at), clock)
  OBVIOUS
<1>1. nextKid \in Nat \ {0} /\ r.keys \in KeyMaps(nextKid) /\ clock \in Nat /\ Grace \in Nat
  BY ConstantsAssumption DEF TypeInv, Keyrings
<1> DEFINE f == r.keys
           s == Stripped(f)
           g == Retained(s, at)
           h == [j \in {nextKid} \cup DOMAIN g |-> IF j = nextKid THEN FreshKey(at) ELSE g[j]]
<1>2. DOMAIN f \subseteq 0 .. nextKid - 1 /\ f \in [DOMAIN f -> KeyRecords]
  BY <1>1, KeyMapDomain
<1>3. DOMAIN s = DOMAIN f /\ \A j \in DOMAIN f : s[j].retiredAt = f[j].retiredAt
  BY <1>1, StrippedType
<1> HIDE DEF s
<1>4. /\ \A j \in DOMAIN g : j \in DOMAIN s /\ g[j] = s[j]
      /\ \A j \in DOMAIN s : ~Retired(s[j]) => j \in DOMAIN g
      /\ \A j \in DOMAIN s : at - s[j].retiredAt < Grace => j \in DOMAIN g
  BY RetainedKeys
<1>5. /\ Staged(r, at).active = r.active /\ Staged(r, at).keys = h
  BY StagedType DEF s
<1>6. k \in DOMAIN f /\ NoKid \notin DOMAIN f /\ nextKid \notin DOMAIN f
  BY <1>1, <1>2 DEF NoKid, Published
<1>7. f[k].retiredAt \in Int /\ f[k] \in KeyRecords
  BY <1>2, <1>6 DEF KeyRecords
<1>8. k = r.active \/ (Retired(f[k]) /\ clock - f[k].retiredAt < Grace)
  BY <1>6 DEF Published
<1> HIDE DEF f, g
<1>9. ASSUME k \in DOMAIN g
      PROVE  k \in DOMAIN h /\ h[k].retiredAt = f[k].retiredAt
  <2>1. k \in DOMAIN h /\ h[k] = g[k]
    BY <1>6, <1>9
  <2> QED BY <1>3, <1>4, <1>6, <1>9, <2>1
<1> HIDE DEF h
<1>10. CASE Retired(f[k]) /\ clock - f[k].retiredAt < Grace
  <2>1. at - f[k].retiredAt < Grace
    BY <1>1, <1>7, <1>10
  <2>2. k \in DOMAIN g
    BY <1>3, <1>4, <1>6, <2>1
  <2>3. k \in DOMAIN h /\ h[k].retiredAt = f[k].retiredAt
    BY <1>9, <2>2
  <2> QED BY <1>5, <1>10, <2>3 DEF Published, Retired
<1>11. CASE k = r.active
  <2>1. ~Retired(s[k])
    BY <1>3, <1>6, <1>11 DEF Retired, Sound, f
  <2>2. k \in DOMAIN h
    BY <1>3, <1>4, <1>6, <1>9, <2>1
  <2> QED BY <1>5, <1>11, <2>2 DEF Published
<1> QED BY <1>8, <1>10, <1>11

LEMMA ActivatedPublishes ==
  ASSUME TypeInv, NEW r \in Keyrings(nextKid), Sound(r), r.pending # NoKid,
         NEW at \in Nat, at <= clock, clock - at < Grace
  PROVE  Published(r, clock) \subseteq Published(Activated(r, at), clock)
<1> SUFFICES ASSUME NEW k \in Published(r, clock)
             PROVE  k \in Published(Activated(r, at), clock)
  OBVIOUS
<1>1. nextKid \in Nat \ {0} /\ r.keys \in KeyMaps(nextKid) /\ clock \in Nat /\ Grace \in Nat
  BY ConstantsAssumption DEF TypeInv, Keyrings
<1> DEFINE f == r.keys
           t == [f EXCEPT ![r.active].retiredAt = at]
           s == Stripped(t)
           g == Retained(s, at)
<1>2. DOMAIN f \subseteq 0 .. nextKid - 1 /\ f \in [DOMAIN f -> KeyRecords]
  BY <1>1, KeyMapDomain
<1>3. /\ t \in KeyMaps(nextKid) /\ DOMAIN t = DOMAIN f
      /\ \A j \in DOMAIN f \ {r.active} : t[j] = f[j]
      /\ r.active \in DOMAIN f => t[r.active].retiredAt = at
  BY <1>1, RetiringType
<1> HIDE DEF t
<1>4. DOMAIN s = DOMAIN t /\ \A j \in DOMAIN t : s[j].retiredAt = t[j].retiredAt
  BY <1>1, <1>3, StrippedType
<1> HIDE DEF s
<1>5. /\ \A j \in DOMAIN g : j \in DOMAIN s /\ g[j] = s[j]
      /\ \A j \in DOMAIN s : ~Retired(s[j]) => j \in DOMAIN g
      /\ \A j \in DOMAIN s : at - s[j].retiredAt < Grace => j \in DOMAIN g
  BY RetainedKeys
<1>6. Activated(r, at).active = r.pending /\ Activated(r, at).keys = g
  BY ActivatedType DEF s, t
<1>7. /\ k \in DOMAIN f /\ f[k].retiredAt \in Int
      /\ k \in {r.active, r.pending} \/ (Retired(f[k]) /\ clock - f[k].retiredAt < Grace)
  BY <1>2 DEF Published, KeyRecords
<1>8. r.pending # r.active /\ ~Retired(f[r.pending])
  BY DEF Sound
<1> HIDE DEF f, g
<1>9. k \in DOMAIN s /\ s[k].retiredAt = t[k].retiredAt
  BY <1>3, <1>4, <1>7
<1>10. CASE k = r.pending
  <2>1. ~Retired(s[k])
    BY <1>3, <1>7, <1>8, <1>9, <1>10 DEF Retired
  <2>2. k \in DOMAIN g
    BY <1>5, <1>9, <2>1
  <2> QED BY <1>6, <1>10, <2>2 DEF Published
<1>11. ASSUME NEW n \in Int, s[k].retiredAt = n, n # Never, clock - n < Grace, at - n < Grace
       PROVE  k \in Published(Activated(r, at), clock)
  <2>1. k \in DOMAIN g /\ g[k].retiredAt = n
    BY <1>5, <1>9, <1>11
  <2> QED BY <1>6, <1>11, <2>1 DEF Published, Retired
<1>12. CASE k = r.active
  <2>1. s[k].retiredAt = at /\ at \in Int /\ at # Never /\ at - at < Grace
    BY <1>1, <1>3, <1>7, <1>9, <1>12, GraceAssumption, ConstantsAssumption DEF Never
  <2> QED BY <1>11, <2>1
<1>13. CASE k # r.active /\ Retired(f[k]) /\ clock - f[k].retiredAt < Grace
  <2>1. s[k].retiredAt = f[k].retiredAt /\ f[k].retiredAt # Never
    BY <1>3, <1>7, <1>9, <1>13 DEF Retired
  <2>2. at - f[k].retiredAt < Grace
    BY <1>1, <1>7, <1>13
  <2> QED BY <1>7, <1>11, <1>13, <2>1, <2>2
<1> QED BY <1>7, <1>10, <1>12, <1>13

(* A published key stays published until its grace period is over: two      *)
(* writers never undo each other's staging, because the version that        *)
(* persistKeyring compares makes the second one give up, and a job is over  *)
(* long before the key it retires would be dropped.                         *)
THEOREM KeysStayPublished == Spec => PublishedStays
<1>1. TypeInv /\ RingInv /\ [Next]_vars =>
        [Published(ring, clock) \subseteq Published(ring', clock)]_vars
  <2> SUFFICES ASSUME TypeInv, RingInv, [Next]_vars
               PROVE  Published(ring, clock) \subseteq Published(ring', clock)
    OBVIOUS
  <2>1. CASE ring' = ring
    BY <2>1
  <2>2. ASSUME NEW p \in Jobs, job[p].pc = "write", Stored(p)
        PROVE  Published(ring, clock) \subseteq Published(ring', clock)
    <3>1. CASE ring = NoRing
      BY <3>1 DEF Published, NoRing
    <3>2. CASE ring # NoRing
      <4>1. 0 < ring.version /\ Sound(ring) /\ JobHolds(job[p]) /\ ring \in Keyrings(nextKid)
        BY <3>2 DEF RingInv, RingHolds, TypeInv
      <4>2. job[p].seen = ring
        BY <2>2, <3>2, StoresSound
      <4>3. ~job[p].legacy
        <5>1. ring # LegacyRing
          BY <4>1 DEF LegacyRing
        <5> QED BY <2>2, <4>1, <4>2, <5>1 DEF JobHolds, MigrationHolds, Ahead
      <4>4. /\ job[p].at \in Nat /\ job[p].deadline \in Nat /\ clock \in Nat
            /\ job[p].at <= clock /\ job[p].kind \in {"load", "cron", "ready"}
        BY DEF TypeInv, JobRecords
      <4>5. clock - job[p].at < Grace
        <5>1. Ahead(job[p]) = "write" /\ Rotates(job[p])
          BY <2>2, <4>3 DEF Ahead, Rotates
        <5>2. clock <= job[p].deadline
          BY <2>2, <4>1 DEF JobHolds, TimeHolds
        <5>3. \/ job[p].deadline <= job[p].at + CronDelay
              \/ job[p].deadline <= job[p].at + LoadLatency
          BY <4>1, <4>4, <5>1 DEF JobHolds, TimeHolds
        <5> QED BY <4>4, <5>2, <5>3, GraceAssumption, ConstantsAssumption
      <4> DEFINE q == IF ring.pending = NoKid THEN Staged(ring, job[p].at)
                                              ELSE Activated(ring, job[p].at)
      <4>6. Published(ring, clock) \subseteq Published(q, clock)
        <5>1. CASE ring.pending = NoKid
          BY <4>1, <4>4, <5>1, StagedPublishes
        <5>2. CASE ring.pending # NoKid
          BY <4>1, <4>4, <4>5, <5>2, ActivatedPublishes
        <5> QED BY <5>1, <5>2
      <4>7. Rotated(p) = q
        BY <3>2, <4>2, <4>3 DEF Rotated
      <4> HIDE DEF q
      <4>8. ring'.active = q.active /\ ring'.pending = q.pending /\ ring'.keys = q.keys
        BY <2>2, <4>7, StoredType
      <4>9. Published(ring', clock) = Published(q, clock)
        BY <4>8 DEF Published
      <4> QED BY <4>6, <4>9
    <3> QED BY <3>1, <3>2
  <2> QED BY <2>1, <2>2, StoreSteps
<1> QED BY <1>1, RingInvariant, PTL DEF Spec, PublishedStays
-----------------------------------------------------------------------------
(* What isolates and relying parties still know of the keyring.            *)

Used(r) == DOMAIN r.keys \ {r.pending}
Shows(v, k) == k \in DOMAIN v.keys /\ k \in {v.active, v.pending}

OnGrid(g) == g % CronPeriod = 0

(* No cron event that may activate the staged key of r comes before t.     *)
Waits(r, t) == \A g \in Nat : OnGrid(g) /\ r.since + Propagation <= g => t <= g

(* Key k stays published in r for all times before t.                      *)
Lasts(r, k, t) ==
  /\ k \in Used(r)
  /\ k # r.active => Retired(r.keys[k]) /\ t <= r.keys[k].retiredAt + Grace

(* An older keyring v that is used before time u knows every key that may   *)
(* have signed, lacks the staged key only if documents built from it are    *)
(* out of use in time, and signs with a key that lasts as long as its       *)
(* tokens.                                                                  *)
Knows(v, r, k) ==
  \/ Shows(v, k)
  \/ /\ k \in DOMAIN v.keys /\ Retired(v.keys[k])
     /\ v.keys[k].retiredAt = r.keys[k].retiredAt
View(v, u, r) ==
  /\ \A k \in Used(r) : Knows(v, r, k)
  /\ r.pending # NoKid /\ ~Shows(v, r.pending) => Waits(r, u - 1 + JwksAge)
  /\ Lasts(r, v.active, u - 1 + TokenTtl)

(* The same of a JWKS document at time now.                                *)
Document(d, now, r) ==
  now < d.until =>
    /\ r # NoRing
    /\ \A k \in Used(r) : \/ k \in d.kids
                          \/ Retired(r.keys[k]) /\ Grace <= now - r.keys[k].retiredAt
    /\ r.pending # NoKid /\ r.pending \notin d.kids => Waits(r, d.until)

CachesFresh ==
  \A i \in Isolates :
    /\ cache[i].until <= clock + CacheTtl
    /\ Cached(i) => View(cache[i].ring, cache[i].until, ring)

(* What a job has read it may still remember for the isolate until its      *)
(* deadline; a first boot that finds a staged key finds it too young.       *)
JobFresh(x) ==
  /\ x.pc # "idle" /\ 0 < x.seen.version => View(x.seen, x.deadline + CacheTtl, ring)
  /\ x.kind = "load" /\ (Ahead(x) = "initLegacy" \/ Rotates(x)) /\ ring.pending # NoKid =>
       x.deadline < ring.since + Propagation
  /\ Ahead(x) = "return" => 0 < x.seen.version
  /\ Ahead(x) = "due" => x.seen = NoRing \/ 0 < x.seen.version
  /\ x.kind = "cron" => OnGrid(x.at)
  /\ Ahead(x) \in {"initLegacy", "recheck", "poll"} => x.kind = "load"
  /\ x.kind = "ready" => x.seen = NoRing

JwksFresh ==
  /\ jwks.until \in Nat /\ jwks.until <= clock + JwksAge
  /\ Document(jwks, clock, ring)

SignedFresh ==
  \A k \in DOMAIN signed :
    /\ signed[k] \in Nat /\ signed[k] <= clock
    /\ clock < signed[k] + TokenTtl => Lasts(ring, k, signed[k] + TokenTtl)

(* A key that neither signs nor waits to is retired.                       *)
Ordered(r) == \A k \in Used(r) \ {r.active} : Retired(r.keys[k])

FreshInv ==
  /\ CachesFresh /\ JwksFresh /\ SignedFresh /\ Ordered(ring)
  /\ \A p \in Jobs : JobFresh(job[p])
-----------------------------------------------------------------------------
(* Numbers.                                                                *)

LEMMA Lifetimes ==
  ASSUME Timely
  PROVE  /\ CronPeriod \in Nat \ {0} /\ Propagation \in Nat /\ CacheTtl \in Nat \ {0}
         /\ JwksAge \in Nat \ {0} /\ Grace \in Nat /\ TokenTtl \in Nat \ {0}
         /\ CronDelay \in Nat /\ LoadLatency \in Nat
         /\ CacheTtl + JwksAge + 2 * LoadLatency <= Propagation + 1
         /\ CronDelay + LoadLatency < Propagation
         /\ CronDelay + LoadLatency + CacheTtl + JwksAge <= CronPeriod + 1
         /\ CronDelay + LoadLatency + CacheTtl + TokenTtl <= Grace + 1
BY ConstantsAssumption DEF Timely

(* Two scheduled times are a period apart.                                 *)
LEMMA GridStep ==
  ASSUME NEW g \in Nat, NEW h \in Nat, OnGrid(g), OnGrid(h), g < h
  PROVE  g + CronPeriod <= h
<1> DEFINE C == CronPeriod
           m == g \div C
           n == h \div C
<1>1. /\ C \in Nat \ {0} /\ m \in Nat /\ n \in Nat
      /\ g = C * m + (g % C) /\ h = C * n + (h % C)
  BY ConstantsAssumption
<1>2. g = C * m /\ h = C * n
  <2>1. C * m \in Nat /\ C * n \in Nat
    BY <1>1
  <2> QED BY <1>1, <2>1 DEF OnGrid
<1> HIDE DEF C, m, n
<1>3. m < n
  <2> SUFFICES ASSUME n <= m PROVE FALSE
    BY <1>1
  <2>1. C * n <= C * m
    BY <1>1
  <2> QED BY <1>2, <2>1
<1>4. m + 1 <= n
  BY <1>1, <1>3
<1>5. C * (m + 1) <= C * n
  BY <1>1, <1>4
<1>6. C * (m + 1) = C * m + C
  BY <1>1
<1> QED BY <1>1, <1>2, <1>5, <1>6 DEF C

LEMMA ScheduledOnGrid ==
  ASSUME NEW n \in Nat
  PROVE  OnGrid((n \div CronPeriod) * CronPeriod)
<1> DEFINE m == n \div CronPeriod
<1>1. CronPeriod \in Nat \ {0} /\ m \in Nat
  BY ConstantsAssumption
<1> HIDE DEF m
<1> DEFINE g == m * CronPeriod
           q == g \div CronPeriod
           e == g % CronPeriod
<1>2. g \in Nat
  BY <1>1
<1>3. q \in Nat /\ e \in 0 .. CronPeriod - 1 /\ g = CronPeriod * q + e
  BY <1>1, <1>2
<1> HIDE DEF q, e
<1>4. e = CronPeriod * (m - q)
  BY <1>1, <1>3
<1>5. e = 0
  <2>1. CASE m - q <= 0
    <3>1. CronPeriod * (m - q) <= 0
      BY <1>1, <1>3, <2>1
    <3> QED BY <1>3, <1>4, <3>1
  <2>2. CASE 1 <= m - q
    <3>1. CronPeriod <= CronPeriod * (m - q)
      BY <1>1, <1>3, <2>2
    <3> QED BY <1>1, <1>3, <1>4, <3>1
  <2> QED BY <1>1, <1>3, <2>1, <2>2
<1> QED BY <1>5 DEF OnGrid, e, m

(* How far the use of a keyring reaches that is cached now, or that a job   *)
(* may still cache.                                                        *)
Within(u, now) ==
  \/ u <= now + LoadLatency + CacheTtl
  \/ \E g \in Nat : OnGrid(g) /\ g <= now /\ u <= g + CronDelay + CacheTtl

(* The time a writer works with against the clock: the scheduled time of    *)
(* its cron event, or the time at which a load began to boot.               *)
Current(at, now) ==
  at <= now /\ ((OnGrid(at) /\ now <= at + CronDelay) \/ now <= at + LoadLatency)

LEMMA StagedInTime ==
  ASSUME Timely, NEW u \in Nat, NEW now \in Nat, NEW at \in Nat, NEW r,
         Within(u, now), Current(at, now), r.since = at
  PROVE  Waits(r, u - 1 + JwksAge)
<1> USE Lifetimes
<1> SUFFICES ASSUME NEW h \in Nat, OnGrid(h), at + Propagation <= h
             PROVE  u - 1 + JwksAge <= h
  BY DEF Waits
<1>1. CASE OnGrid(at) /\ now <= at + CronDelay
  <2>1. at + CronPeriod <= h
    BY <1>1, GridStep
  <2>2. CASE u <= now + LoadLatency + CacheTtl
    BY <1>1, <2>1, <2>2
  <2>3. ASSUME NEW g \in Nat, OnGrid(g), g <= now, u <= g + CronDelay + CacheTtl
        PROVE  u - 1 + JwksAge <= h
    <3>1. g <= at
      <4> SUFFICES ASSUME at < g PROVE FALSE
        OBVIOUS
      <4>1. at + CronPeriod <= g
        BY <1>1, <2>3, GridStep
      <4> QED BY <1>1, <2>3, <4>1
    <3> QED BY <2>1, <2>3, <3>1
  <2> QED BY <2>2, <2>3 DEF Within
<1>2. CASE now <= at + LoadLatency
  <2>1. CASE u <= now + LoadLatency + CacheTtl
    BY <1>2, <2>1
  <2>2. ASSUME NEW g \in Nat, OnGrid(g), g <= now, u <= g + CronDelay + CacheTtl
        PROVE  u - 1 + JwksAge <= h
    <3>1. g < h
      BY <1>2, <2>2
    <3>2. g + CronPeriod <= h
      BY <2>2, <3>1, GridStep
    <3> QED BY <2>2, <3>2
  <2> QED BY <2>1, <2>2 DEF Within
<1> QED BY <1>1, <1>2 DEF Current

LEMMA PublishedInTime ==
  ASSUME Timely, NEW u \in Nat, NEW now \in Nat, NEW at \in Nat, NEW r,
         u <= now + JwksAge, Current(at, now), r.since = at
  PROVE  Waits(r, u)
<1> USE Lifetimes
<1> SUFFICES ASSUME NEW h \in Nat, OnGrid(h), at + Propagation <= h
             PROVE  u <= h
  BY DEF Waits
<1>0. CronDelay + JwksAge <= CronPeriod /\ LoadLatency + JwksAge <= Propagation
  OBVIOUS
<1>1. CASE OnGrid(at) /\ now <= at + CronDelay
  <2>1. at + CronPeriod <= h
    BY <1>1, GridStep
  <2> QED BY <1>0, <1>1, <2>1
<1>2. CASE now <= at + LoadLatency
  BY <1>0, <1>2
<1> QED BY <1>1, <1>2 DEF Current

(* A cron event that activates a key retires the old one late enough.      *)
LEMMA RetiredInTime ==
  ASSUME Timely, NEW u \in Nat, NEW now \in Nat, NEW at \in Nat,
         Within(u, now), OnGrid(at), at <= now, now <= at + CronDelay
  PROVE  u - 1 + TokenTtl <= at + Grace
<1> USE Lifetimes
<1>1. CASE u <= now + LoadLatency + CacheTtl
  BY <1>1
<1>2. ASSUME NEW g \in Nat, OnGrid(g), g <= now, u <= g + CronDelay + CacheTtl
      PROVE  u - 1 + TokenTtl <= at + Grace
  <2>1. g <= at
    <3> SUFFICES ASSUME at < g PROVE FALSE
      OBVIOUS
    <3>1. at + CronPeriod <= g
      BY <1>2, GridStep
    <3> QED BY <1>2, <3>1
  <2> QED BY <1>2, <2>1
<1> QED BY <1>1, <1>2 DEF Within
-----------------------------------------------------------------------------
(* What a write leaves of the knowledge of the others.                     *)

Kept(r, k, at) == Retired(r.keys[k]) => at - r.keys[k].retiredAt < Grace

StagedFrom(r, s, at) ==
  /\ r.pending = NoKid /\ s.active = r.active /\ s.since = at /\ s.pending # NoKid
  /\ s.pending \notin DOMAIN r.keys
  /\ DOMAIN s.keys = {s.pending} \cup {k \in DOMAIN r.keys : Kept(r, k, at)}
  /\ \A k \in DOMAIN r.keys : Kept(r, k, at) => s.keys[k].retiredAt = r.keys[k].retiredAt

ActivatedFrom(r, s, at) ==
  /\ r.pending # NoKid /\ s.active = r.pending /\ s.pending = NoKid
  /\ DOMAIN s.keys = {k \in DOMAIN r.keys : k = r.active \/ Kept(r, k, at)}
  /\ \A k \in DOMAIN s.keys :
       s.keys[k].retiredAt = IF k = r.active THEN at ELSE r.keys[k].retiredAt

LEMMA RetiredTimes ==
  ASSUME NEW n \in Nat, NEW r \in Keyrings(n)
  PROVE  /\ \A k \in DOMAIN r.keys : r.keys[k].retiredAt \in Int
         /\ NoKid \notin DOMAIN r.keys /\ n \notin DOMAIN r.keys
<1>1. r.keys \in KeyMaps(n)
  BY DEF Keyrings
<1>2. DOMAIN r.keys \subseteq 0 .. n - 1 /\ r.keys \in [DOMAIN r.keys -> KeyRecords]
  BY <1>1, KeyMapDomain
<1> QED BY <1>2 DEF KeyRecords, NoKid

LEMMA LastsStaged ==
  ASSUME NEW n \in Nat, NEW r \in Keyrings(n), NEW s, NEW at \in Nat, NEW t \in Int, NEW k,
         StagedFrom(r, s, at), Sound(r), Lasts(r, k, t), at < t
  PROVE  Lasts(s, k, t)
<1>1. k \in DOMAIN r.keys /\ k # s.pending /\ r.keys[k].retiredAt \in Int
  BY RetiredTimes DEF Lasts, Used, StagedFrom
<1>2. Kept(r, k, at)
  <2>1. CASE k = r.active
    BY <2>1 DEF Sound, Kept
  <2>2. CASE k # r.active
    BY <1>1, <2>2, ConstantsAssumption DEF Lasts, Kept
  <2> QED BY <2>1, <2>2
<1>3. k \in Used(s) /\ s.keys[k].retiredAt = r.keys[k].retiredAt /\ s.active = r.active
  BY <1>1, <1>2 DEF StagedFrom, Used
<1> QED BY <1>3 DEF Lasts, Retired

LEMMA LastsActivated ==
  ASSUME NEW n \in Nat, NEW r \in Keyrings(n), NEW s, NEW at \in Nat, NEW t \in Int, NEW k,
         ActivatedFrom(r, s, at), Lasts(r, k, t), at < t, t <= at + Grace
  PROVE  Lasts(s, k, t)
<1>1. k \in DOMAIN r.keys /\ k # r.pending /\ r.keys[k].retiredAt \in Int /\ k # NoKid
  BY RetiredTimes DEF Lasts, Used
<1>2. CASE k = r.active
  <2>1. k \in Used(s) /\ s.keys[k].retiredAt = at
    BY <1>1, <1>2 DEF ActivatedFrom, Used
  <2> QED BY <2>1 DEF Lasts, Retired, Never
<1>3. CASE k # r.active
  <2>1. Kept(r, k, at)
    BY <1>1, <1>3, ConstantsAssumption DEF Lasts, Kept
  <2>2. k \in Used(s) /\ s.keys[k].retiredAt = r.keys[k].retiredAt
    BY <1>1, <1>3, <2>1 DEF ActivatedFrom, Used
  <2> QED BY <1>1, <1>3, <2>2 DEF Lasts, Retired
<1> QED BY <1>2, <1>3

LEMMA ViewStaged ==
  ASSUME Timely, NEW n \in Nat, NEW r \in Keyrings(n), NEW v, NEW s, NEW at \in Nat, NEW u \in Nat,
         StagedFrom(r, s, at), Sound(r), View(v, u, r), at < u, Waits(s, u - 1 + JwksAge)
  PROVE  View(v, u, s)
<1>1. ASSUME NEW k \in Used(s) PROVE Knows(v, s, k)
  <2>1. k \in Used(r) /\ s.keys[k].retiredAt = r.keys[k].retiredAt
    BY <1>1, RetiredTimes DEF StagedFrom, Used
  <2> QED BY <2>1 DEF View, Knows
<1>2. Lasts(s, v.active, u - 1 + TokenTtl)
  <2>1. TokenTtl \in Nat \ {0}
    BY Lifetimes
  <2>2. at < u - 1 + TokenTtl /\ u - 1 + TokenTtl \in Int
    BY <2>1
  <2> QED BY <2>2, LastsStaged DEF View
<1> QED BY <1>1, <1>2 DEF View

LEMMA ViewActivated ==
  ASSUME Timely, NEW n \in Nat, NEW r \in Keyrings(n), NEW v, NEW s, NEW at \in Nat, NEW u \in Nat,
         ActivatedFrom(r, s, at), Sound(r), View(v, u, r), at < u, OnGrid(at),
         r.since + Propagation <= at, u - 1 + TokenTtl <= at + Grace
  PROVE  View(v, u, s)
<1>0. u - 1 + JwksAge \in Int /\ u - 1 + TokenTtl \in Int /\ at < u - 1 + JwksAge
      /\ at < u - 1 + TokenTtl
  BY Lifetimes
<1>1. Shows(v, r.pending)
  BY <1>0 DEF View, Waits, ActivatedFrom
<1>2. ASSUME NEW k \in Used(s) PROVE Knows(v, s, k)
  <2>1. k \in DOMAIN r.keys /\ k \in DOMAIN s.keys
    BY <1>2 DEF ActivatedFrom, Used
  <2>2. CASE k = r.pending
    BY <1>1, <2>2 DEF Knows
  <2>3. CASE k # r.pending
    <3>1. Knows(v, r, k)
      BY <2>1, <2>3 DEF View, Used
    <3>2. CASE k = r.active
      BY <3>1, <3>2 DEF Knows, Sound, Retired
    <3>3. CASE k # r.active
      <4>1. s.keys[k].retiredAt = r.keys[k].retiredAt
        BY <2>1, <3>3 DEF ActivatedFrom
      <4> QED BY <3>1, <4>1 DEF Knows
    <3> QED BY <3>2, <3>3
  <2> QED BY <2>2, <2>3
<1>3. Lasts(s, v.active, u - 1 + TokenTtl)
  BY <1>0, LastsActivated DEF View
<1> QED BY <1>2, <1>3 DEF View, ActivatedFrom

LEMMA DocumentStaged ==
  ASSUME NEW n \in Nat, NEW r \in Keyrings(n), NEW s, NEW d, NEW at \in Nat, NEW now \in Nat,
         StagedFrom(r, s, at), Document(d, now, r), Waits(s, d.until), s # NoRing
  PROVE  Document(d, now, s)
<1> SUFFICES ASSUME now < d.until PROVE Document(d, now, s)
  BY DEF Document
<1>1. ASSUME NEW k \in Used(s)
      PROVE  \/ k \in d.kids
             \/ Retired(s.keys[k]) /\ Grace <= now - s.keys[k].retiredAt
  <2>1. k \in Used(r) /\ s.keys[k].retiredAt = r.keys[k].retiredAt
    BY <1>1, RetiredTimes DEF StagedFrom, Used
  <2> QED BY <2>1 DEF Document, Retired
<1> QED BY <1>1 DEF Document

LEMMA DocumentActivated ==
  ASSUME NEW n \in Nat, NEW r \in Keyrings(n), NEW s, NEW d, NEW at \in Nat, NEW now \in Nat,
         ActivatedFrom(r, s, at), Sound(r), Document(d, now, r), s # NoRing,
         d.until \in Nat, at <= now, OnGrid(at), r.since + Propagation <= at
  PROVE  Document(d, now, s)
<1> SUFFICES ASSUME now < d.until PROVE Document(d, now, s)
  BY DEF Document
<1>1. r.pending \in d.kids
  BY DEF Document, Waits, ActivatedFrom
<1>2. ASSUME NEW k \in Used(s)
      PROVE  \/ k \in d.kids
             \/ Retired(s.keys[k]) /\ Grace <= now - s.keys[k].retiredAt
  <2>1. k \in DOMAIN r.keys /\ k \in DOMAIN s.keys
    BY <1>2 DEF ActivatedFrom, Used
  <2>2. CASE k = r.pending
    BY <1>1, <2>2
  <2>3. CASE k # r.pending
    <3>1. k \in d.kids \/ (Retired(r.keys[k]) /\ Grace <= now - r.keys[k].retiredAt)
      BY <2>1, <2>3 DEF Document, Used
    <3>2. CASE k = r.active
      BY <3>1, <3>2 DEF Sound
    <3>3. CASE k # r.active
      <4>1. s.keys[k].retiredAt = r.keys[k].retiredAt
        BY <2>1, <3>3 DEF ActivatedFrom
      <4> QED BY <3>1, <4>1 DEF Retired
    <3> QED BY <3>2, <3>3
  <2> QED BY <2>2, <2>3
<1> QED BY <1>2 DEF Document, ActivatedFrom

LEMMA OrderedAfter ==
  ASSUME NEW n \in Nat, NEW r \in Keyrings(n), NEW s, NEW at \in Nat, Ordered(r),
         StagedFrom(r, s, at) \/ ActivatedFrom(r, s, at)
  PROVE  Ordered(s)
<1> SUFFICES ASSUME NEW k \in Used(s) \ {s.active} PROVE Retired(s.keys[k])
  BY DEF Ordered
<1>1. CASE StagedFrom(r, s, at)
  <2>1. k \in Used(r) \ {r.active} /\ s.keys[k].retiredAt = r.keys[k].retiredAt
    BY <1>1, RetiredTimes DEF StagedFrom, Used
  <2> QED BY <2>1 DEF Ordered, Retired
<1>2. CASE ActivatedFrom(r, s, at)
  <2>1. k \in DOMAIN r.keys /\ k \in DOMAIN s.keys /\ k # r.pending
    BY <1>2 DEF ActivatedFrom, Used
  <2>2. CASE k = r.active
    BY <1>2, <2>1, <2>2 DEF ActivatedFrom, Retired, Never
  <2>3. CASE k # r.active
    BY <1>2, <2>1, <2>3 DEF ActivatedFrom, Retired, Ordered, Used
  <2> QED BY <2>2, <2>3
<1> QED BY <1>1, <1>2

(* A keyring just read or written is known in full.                        *)
LEMMA ViewOfItself ==
  ASSUME NEW n \in Nat, NEW r \in Keyrings(n), NEW u \in Nat, Sound(r), Ordered(r)
  PROVE  View(r, u, r)
<1>1. r.active \in Used(r)
  BY RetiredTimes DEF Sound, Used
<1>2. ASSUME NEW k \in Used(r) PROVE Knows(r, r, k)
  BY <1>2 DEF Ordered, Used, Knows, Shows
<1>3. r.pending # NoKid => Shows(r, r.pending)
  BY DEF Sound, Shows
<1> QED BY <1>1, <1>2, <1>3 DEF View, Lasts

LEMMA ViewSooner ==
  ASSUME Timely, NEW n \in Nat, NEW r \in Keyrings(n), NEW v, NEW u \in Nat, NEW w \in Nat,
         View(v, u, r), w <= u
  PROVE  View(v, w, r)
<1>1. w - 1 + JwksAge <= u - 1 + JwksAge /\ w - 1 + TokenTtl <= u - 1 + TokenTtl
      /\ w - 1 + JwksAge \in Int /\ u - 1 + JwksAge \in Int
      /\ w - 1 + TokenTtl \in Int /\ u - 1 + TokenTtl \in Int
  BY Lifetimes
<1>2. Waits(r, u - 1 + JwksAge) => Waits(r, w - 1 + JwksAge)
  BY <1>1 DEF Waits
<1>3. Lasts(r, v.active, w - 1 + TokenTtl)
  <2>1. v.active \in Used(r) /\ r.keys[v.active].retiredAt \in Int /\ Grace \in Nat
    BY RetiredTimes, ConstantsAssumption DEF View, Lasts, Used
  <2> QED BY <1>1, <2>1 DEF View, Lasts
<1> QED BY <1>2, <1>3 DEF View
LEMMA StagedIsStaged ==
  ASSUME TypeInv, NEW r \in Keyrings(nextKid), r.pending = NoKid, NEW at \in Nat
  PROVE  StagedFrom(r, Staged(r, at), at)
<1>1. nextKid \in Nat \ {0} /\ r.keys \in KeyMaps(nextKid)
  BY DEF TypeInv, Keyrings
<1> DEFINE f == r.keys
           t == Stripped(f)
           g == Retained(t, at)
           h == [k \in {nextKid} \cup DOMAIN g |-> IF k = nextKid THEN FreshKey(at) ELSE g[k]]
<1>2. t \in KeyMaps(nextKid) /\ DOMAIN t = DOMAIN f
      /\ \A k \in DOMAIN f : t[k].retiredAt = f[k].retiredAt
  BY <1>1, StrippedType
<1> HIDE DEF t
<1>3. /\ DOMAIN g = {k \in DOMAIN t : Retired(t[k]) => at - t[k].retiredAt < Grace}
      /\ \A k \in DOMAIN g : g[k] = t[k]
  BY DEF Retained
<1> HIDE DEF g
<1>4. DOMAIN g = {k \in DOMAIN f : Kept(r, k, at)}
      /\ \A k \in DOMAIN g : g[k].retiredAt = f[k].retiredAt
  BY <1>2, <1>3 DEF Kept, Retired
<1>5. nextKid \notin DOMAIN f /\ nextKid # NoKid
  BY <1>1, RetiredTimes DEF NoKid
<1>6. /\ Staged(r, at).active = r.active /\ Staged(r, at).pending = nextKid
      /\ Staged(r, at).keys = h
  BY StagedType DEF t, g
<1>7. Staged(r, at).since = at
  <2>1. Staged(r, at) = [r EXCEPT !.pending = nextKid, !.since = at, !.keys = h]
    BY DEF Staged, t, g
  <2> HIDE DEF h
  <2> QED BY <2>1 DEF Keyrings
<1>8. DOMAIN h = {nextKid} \cup DOMAIN g /\ \A k \in DOMAIN g : k # nextKid => h[k] = g[k]
  OBVIOUS
<1> HIDE DEF h, f
<1>9. \A k \in DOMAIN g : h[k].retiredAt = f[k].retiredAt
  BY <1>4, <1>5, <1>8
<1> QED BY <1>4, <1>5, <1>6, <1>7, <1>8, <1>9 DEF StagedFrom, f

LEMMA ActivatedIsActivated ==
  ASSUME TypeInv, NEW r \in Keyrings(nextKid), Sound(r), r.pending # NoKid, NEW at \in Nat
  PROVE  ActivatedFrom(r, Activated(r, at), at)
<1>1. nextKid \in Nat \ {0} /\ r.keys \in KeyMaps(nextKid)
  BY DEF TypeInv, Keyrings
<1> DEFINE f == r.keys
           e == [f EXCEPT ![r.active].retiredAt = at]
           t == Stripped(e)
           g == Retained(t, at)
<1>2. /\ e \in KeyMaps(nextKid) /\ DOMAIN e = DOMAIN f
      /\ \A k \in DOMAIN f \ {r.active} : e[k] = f[k]
      /\ r.active \in DOMAIN f => e[r.active].retiredAt = at
  BY <1>1, RetiringType
<1> HIDE DEF e
<1>3. /\ t \in KeyMaps(nextKid) /\ DOMAIN t = DOMAIN e
      /\ \A k \in DOMAIN e : t[k].retiredAt = e[k].retiredAt
  BY <1>1, <1>2, StrippedType
<1> HIDE DEF t
<1>4. /\ DOMAIN g = {k \in DOMAIN t : Retired(t[k]) => at - t[k].retiredAt < Grace}
      /\ \A k \in DOMAIN g : g[k] = t[k]
  BY DEF Retained
<1>5. /\ Activated(r, at).active = r.pending /\ Activated(r, at).pending = NoKid
      /\ Activated(r, at).keys = g
  BY ActivatedType DEF e, t
<1>6. at - at < Grace
  BY GraceAssumption, ConstantsAssumption
<1>7. r.active \in DOMAIN f
  BY DEF Sound
<1> HIDE DEF g
<1>8. \A k \in DOMAIN f : t[k].retiredAt = IF k = r.active THEN at ELSE f[k].retiredAt
  BY <1>2, <1>3, <1>7
<1>9. ASSUME NEW k
      PROVE  k \in DOMAIN g <=> k \in DOMAIN f /\ (k = r.active \/ Kept(r, k, at))
  <2>1. CASE k \in DOMAIN f /\ k = r.active
    BY <1>2, <1>3, <1>4, <1>6, <1>8, <2>1 DEF Kept, Retired
  <2>2. CASE k \in DOMAIN f /\ k # r.active
    BY <1>2, <1>3, <1>4, <1>8, <2>2 DEF Kept, Retired
  <2>3. CASE k \notin DOMAIN f
    BY <1>2, <1>3, <1>4, <2>3
  <2> QED BY <2>1, <2>2, <2>3
<1>10. DOMAIN g = {k \in DOMAIN f : k = r.active \/ Kept(r, k, at)}
  BY <1>9
<1>11. \A k \in DOMAIN g : g[k].retiredAt = IF k = r.active THEN at ELSE f[k].retiredAt
  BY <1>4, <1>8, <1>9
<1> QED BY <1>5, <1>10, <1>11 DEF ActivatedFrom, f

(* The three ways in which the row changes.                                *)
Booted(r) == ring = NoRing /\ r.pending = NoKid /\ Ordered(r)
StagedBy(r, at) ==
  /\ Current(at, clock)
  /\ \E q \in {ring, LegacyRing} : /\ q = ring \/ ring = NoRing
                                  /\ q # NoRing /\ Sound(q) /\ Ordered(q)
                                  /\ StagedFrom(q, r, at)
ActivatedBy(r, at) ==
  /\ ring # NoRing /\ ActivatedFrom(ring, r, at)
  /\ OnGrid(at) /\ at <= clock /\ clock <= at + CronDelay /\ ring.since + Propagation <= at

LEMMA WriteOutcome ==
  ASSUME Timely, TypeInv, RingInv, FreshInv, NEW p \in Jobs, job[p].pc = "write", Stored(p),
         ~TooEarly(job[p].seen, job[p].at)
  PROVE  Booted(ring') \/ StagedBy(ring', job[p].at) \/ ActivatedBy(ring', job[p].at)
<1> DEFINE x == job[p]
           at == job[p].at
<1>1. /\ x.seen \in Keyrings(nextKid) /\ at \in Nat /\ clock \in Nat /\ at <= clock
      /\ x.deadline \in Nat /\ nextKid \in Nat \ {0} /\ x.kind \in {"load", "cron", "ready"}
      /\ ring \in Keyrings(nextKid) /\ ring.since \in Int
  BY DEF TypeInv, JobRecords, Keyrings
<1>2. /\ ring'.active = Rotated(p).active /\ ring'.pending = Rotated(p).pending
      /\ ring'.keys = Rotated(p).keys /\ ring'.since = Rotated(p).since
  <2>1. Rotated(p) \in Keyrings(nextKid + 1)
    BY RotatedType
  <2>2. ring' = [Rotated(p) EXCEPT !.version = ring.version + 1]
    BY DEF Stored
  <2> QED BY <2>1, <2>2, StoredType DEF Keyrings
<1>3. x.seen = ring \/ (ring = NoRing /\ x.seen = LegacyRing)
  BY StoresSound
<1>4. JobHolds(x) /\ JobFresh(x) /\ Ahead(x) = "write" /\ RingHolds /\ Ordered(ring)
  BY DEF RingInv, FreshInv, Ahead
<1>5. x.legacy => x.seen = LegacyRing
  BY <1>4 DEF JobHolds, MigrationHolds
<1>6. LegacyRing # NoRing /\ Sound(LegacyRing) /\ Ordered(LegacyRing) /\ LegacyRing.pending = NoKid
  BY LegacySound DEF LegacyRing, Ordered, Used
<1>7. x.seen # NoRing => Sound(x.seen) /\ Ordered(x.seen)
  BY <1>3, <1>4, <1>6 DEF RingHolds
<1>8. CASE x.kind = "load" /\ x.legacy
  <2>1. Rotated(p) = LegacyRing /\ ring = NoRing
    <3>1. RingHolds /\ LegacyRing.version = 0
      BY <1>4 DEF LegacyRing
    <3> QED BY <1>3, <1>5, <1>8, <3>1 DEF Rotated, RingHolds
  <2>2. Ordered(ring')
    BY <1>2, <1>6, <2>1 DEF Ordered, Used
  <2> QED BY <1>2, <1>6, <2>1, <2>2 DEF Booted
<1>9. CASE ~(x.kind = "load" /\ x.legacy) /\ x.seen = NoRing
  <2>1. Rotated(p) = Boot(at) /\ ring = NoRing
    BY <1>3, <1>6, <1>9 DEF Rotated
  <2>2. Boot(at).pending = NoKid /\ DOMAIN Boot(at).keys = {nextKid} /\ Boot(at).active = nextKid
    BY <1>1, BootType
  <2> QED BY <1>2, <2>1, <2>2 DEF Booted, Ordered, Used
<1>10. CASE ~(x.kind = "load" /\ x.legacy) /\ x.seen # NoRing
  <2>0. Rotates(x) \/ x.kind = "cron"
    BY <1>1, <1>4, <1>10 DEF JobHolds, TimeHolds, Rotates
  <2>1. clock <= x.deadline
    BY <1>4 DEF JobHolds, TimeHolds
  <2>2. \/ x.kind = "cron" /\ OnGrid(at) /\ clock <= at + CronDelay
        \/ x.kind = "load" /\ Rotates(x) /\ clock <= at + LoadLatency
    <3>1. CASE x.kind = "cron"
      <4>1. OnGrid(at) /\ x.deadline <= at + CronDelay
        BY <1>4, <3>1 DEF JobHolds, TimeHolds, JobFresh
      <4> QED BY <1>1, <2>1, <3>1, <4>1, ConstantsAssumption
    <3>2. CASE x.kind # "cron"
      <4>1. x.kind = "load" /\ Rotates(x)
        BY <1>1, <1>4, <2>0, <3>2 DEF JobHolds, TimeHolds
      <4>2. x.deadline <= at + LoadLatency
        BY <1>4, <4>1 DEF JobHolds, TimeHolds
      <4> QED BY <1>1, <2>1, <4>1, <4>2, ConstantsAssumption
    <3> QED BY <3>1, <3>2
  <2>3. CASE x.seen.pending = NoKid
    <3>1. Rotated(p) = Staged(x.seen, at)
      BY <1>10, <2>3 DEF Rotated
    <3>2. StagedFrom(x.seen, Staged(x.seen, at), at)
      BY <1>1, <2>3, StagedIsStaged
    <3>3. StagedFrom(x.seen, ring', at)
      BY <1>2, <3>1, <3>2 DEF StagedFrom
    <3>4. Current(at, clock)
      BY <1>1, <2>2 DEF Current
    <3>5. /\ x.seen \in {ring, LegacyRing} /\ (x.seen = ring \/ ring = NoRing)
          /\ x.seen # NoRing /\ Sound(x.seen) /\ Ordered(x.seen)
      BY <1>3, <1>7, <1>10
    <3> QED BY <3>3, <3>4, <3>5 DEF StagedBy
  <2>4. CASE x.seen.pending # NoKid
    <3>1. x.seen = ring
      BY <1>3, <1>6, <2>4
    <3>2. Rotated(p) = Activated(ring, at)
      BY <1>10, <2>4, <3>1 DEF Rotated
    <3>3. ActivatedFrom(ring, Activated(ring, at), at)
      BY <1>1, <1>7, <1>10, <2>4, <3>1, ActivatedIsActivated
    <3>4. ActivatedFrom(ring, ring', at)
      BY <1>2, <3>2, <3>3 DEF ActivatedFrom
    <3>5. ring.since + Propagation <= at
      BY <1>1, <2>4, <3>1, ConstantsAssumption DEF TooEarly
    <3>6. x.kind = "cron"
      <4> SUFFICES ASSUME x.kind = "load", Rotates(x) PROVE FALSE
        BY <2>2
      <4>1. x.deadline < ring.since + Propagation
        BY <1>4, <2>4, <3>1 DEF JobFresh
      <4> QED BY <1>1, <2>1, <3>5, <4>1, ConstantsAssumption
    <3> QED BY <1>1, <1>10, <2>2, <3>1, <3>4, <3>5, <3>6 DEF ActivatedBy
  <2> QED BY <2>3, <2>4
<1> QED BY <1>8, <1>9, <1>10
Succeeds(s, at) == Booted(s) \/ StagedBy(s, at) \/ ActivatedBy(s, at)

LEMMA NobodyKnows ==
  ASSUME ring = NoRing
  PROVE  /\ \A v, u : ~View(v, u, ring)
         /\ \A k, t : ~Lasts(ring, k, t)
BY DEF View, Lasts, Used, NoRing

LEMMA ViewStays ==
  ASSUME Timely, TypeInv, RingInv, NEW at \in Nat, NEW s, Succeeds(s, at),
         NEW v, NEW u \in Nat, Within(u, clock), clock < u, View(v, u, ring)
  PROVE  View(v, u, s)
<1>1. /\ nextKid \in Nat /\ ring \in Keyrings(nextKid) /\ clock \in Nat /\ ring # NoRing
      /\ Sound(ring)
  BY NobodyKnows DEF TypeInv, RingInv, RingHolds
<1>2. CASE StagedBy(s, at)
  <2>1. Current(at, clock) /\ StagedFrom(ring, s, at)
    BY <1>1, <1>2 DEF StagedBy
  <2>2. s.since = at /\ at < u
    BY <1>1, <2>1 DEF StagedFrom, Current
  <2>3. Waits(s, u - 1 + JwksAge)
    BY <1>1, <2>1, <2>2, StagedInTime
  <2> QED BY <1>1, <2>1, <2>2, <2>3, ViewStaged
<1>3. CASE ActivatedBy(s, at)
  <2>1. /\ ActivatedFrom(ring, s, at) /\ OnGrid(at) /\ at <= clock /\ clock <= at + CronDelay
        /\ ring.since + Propagation <= at
    BY <1>3 DEF ActivatedBy
  <2>2. at < u /\ u - 1 + TokenTtl <= at + Grace
    BY <1>1, <2>1, RetiredInTime
  <2> QED BY <1>1, <2>1, <2>2, ViewActivated
<1> QED BY <1>1, <1>2, <1>3 DEF Succeeds, Booted

LEMMA LastsStays ==
  ASSUME Timely, TypeInv, RingInv, NEW at \in Nat, NEW s, Succeeds(s, at),
         NEW k, NEW n \in Nat, n <= clock, clock < n + TokenTtl, Lasts(ring, k, n + TokenTtl)
  PROVE  Lasts(s, k, n + TokenTtl)
<1>1. /\ nextKid \in Nat /\ ring \in Keyrings(nextKid) /\ clock \in Nat /\ ring # NoRing
      /\ Sound(ring)
  BY NobodyKnows DEF TypeInv, RingInv, RingHolds
<1>2. CASE StagedBy(s, at)
  <2>1. Current(at, clock) /\ StagedFrom(ring, s, at)
    BY <1>1, <1>2 DEF StagedBy
  <2>2. at < n + TokenTtl /\ n + TokenTtl \in Int
    BY <1>1, <2>1, Lifetimes DEF Current
  <2> QED BY <1>1, <2>1, <2>2, LastsStaged
<1>3. CASE ActivatedBy(s, at)
  <2>1. ActivatedFrom(ring, s, at) /\ at <= clock /\ clock <= at + CronDelay
    BY <1>3 DEF ActivatedBy
  <2>2. CronDelay + TokenTtl <= Grace /\ TokenTtl \in Nat
    BY Lifetimes
  <2>3. at < n + TokenTtl /\ n + TokenTtl \in Int /\ n + TokenTtl <= at + Grace
    BY <1>1, <2>1, <2>2, ConstantsAssumption
  <2> QED BY <1>1, <2>1, <2>3, LastsActivated
<1> QED BY <1>1, <1>2, <1>3 DEF Succeeds, Booted

LEMMA DocumentStays ==
  ASSUME Timely, TypeInv, RingInv, NEW at \in Nat, NEW s, Succeeds(s, at), s # NoRing, JwksFresh
  PROVE  Document(jwks, clock, s)
<1> SUFFICES ASSUME clock < jwks.until PROVE Document(jwks, clock, s)
  BY DEF Document
<1>1. /\ nextKid \in Nat /\ ring \in Keyrings(nextKid) /\ clock \in Nat /\ ring # NoRing
      /\ Sound(ring) /\ Document(jwks, clock, ring)
      /\ jwks.until \in Nat /\ jwks.until <= clock + JwksAge
  BY DEF TypeInv, RingInv, RingHolds, JwksFresh, Document
<1>2. CASE StagedBy(s, at)
  <2>1. Current(at, clock) /\ StagedFrom(ring, s, at)
    BY <1>1, <1>2 DEF StagedBy
  <2>2. s.since = at
    BY <2>1 DEF StagedFrom
  <2>3. Waits(s, jwks.until)
    BY <1>1, <2>1, <2>2, PublishedInTime
  <2> QED BY <1>1, <2>1, <2>3, DocumentStaged
<1>3. CASE ActivatedBy(s, at)
  <2>1. /\ ActivatedFrom(ring, s, at) /\ OnGrid(at) /\ at <= clock
        /\ ring.since + Propagation <= at
    BY <1>3 DEF ActivatedBy
  <2> QED BY <1>1, <2>1, DocumentActivated
<1> QED BY <1>1, <1>2, <1>3 DEF Succeeds, Booted

LEMMA OrderStays ==
  ASSUME TypeInv, NEW at \in Nat, NEW s, Succeeds(s, at), Ordered(ring)
  PROVE  Ordered(s)
<1>1. nextKid \in Nat \ {0} /\ ring \in Keyrings(nextKid) /\ LegacyRing \in Keyrings(nextKid)
  BY FirstRings DEF TypeInv
<1>2. CASE StagedBy(s, at)
  <2>1. PICK q \in {ring, LegacyRing} : Ordered(q) /\ StagedFrom(q, s, at)
    BY <1>2 DEF StagedBy
  <2> QED BY <1>1, <2>1, OrderedAfter
<1>3. CASE ActivatedBy(s, at)
  BY <1>1, <1>3, OrderedAfter DEF ActivatedBy
<1>4. CASE Booted(s)
  BY <1>4 DEF Booted
<1> QED BY <1>2, <1>3, <1>4 DEF Succeeds

(* A job may still use what it has read, but not for long.                 *)
LEMMA JobReach ==
  ASSUME Timely, TypeInv, NEW x \in JobRecords(nextKid), JobHolds(x), JobFresh(x), x.at <= clock,
         x.pc # "idle", 0 < x.seen.version
  PROVE  /\ x.deadline + CacheTtl \in Nat /\ clock < x.deadline + CacheTtl
         /\ clock + CacheTtl <= x.deadline + CacheTtl /\ Within(x.deadline + CacheTtl, clock)
<1>1. /\ clock \in Nat /\ x.deadline \in Nat /\ x.at \in Nat /\ CacheTtl \in Nat \ {0}
      /\ LoadLatency \in Nat /\ CronDelay \in Nat /\ x.kind \in {"load", "cron", "ready"}
  BY Lifetimes DEF TypeInv, JobRecords
<1>2. clock <= x.deadline
  BY DEF JobHolds, TimeHolds
<1>3. x.kind # "ready"
  <2>1. NoRing.version = 0
    BY DEF NoRing
  <2> QED BY <2>1 DEF JobFresh
<1>4. CASE x.kind = "cron"
  <2>1. OnGrid(x.at) /\ x.deadline <= x.at + CronDelay
    BY <1>4 DEF JobFresh, JobHolds, TimeHolds
  <2>2. x.deadline + CacheTtl <= x.at + CronDelay + CacheTtl
    BY <1>1, <2>1
  <2> QED BY <1>1, <1>2, <2>1, <2>2 DEF Within
<1>5. CASE x.kind = "load"
  <2>1. x.deadline <= clock + LoadLatency
    BY <1>5 DEF JobHolds, TimeHolds
  <2> QED BY <1>1, <1>2, <2>1 DEF Within
<1> QED BY <1>1, <1>3, <1>4, <1>5

LEMMA JobFreshStays ==
  ASSUME Timely, TypeInv, RingInv, NEW at \in Nat, Succeeds(ring', at),
         NEW x \in JobRecords(nextKid), JobHolds(x), JobFresh(x), x.at <= clock
  PROVE  JobFresh(x)'
<1>1. ASSUME x.pc # "idle", 0 < x.seen.version
      PROVE  View(x.seen, x.deadline + CacheTtl, ring')
  BY <1>1, JobReach, ViewStays DEF JobFresh
<1>2. ASSUME x.kind = "load", Ahead(x) = "initLegacy" \/ Rotates(x), ring'.pending # NoKid
      PROVE  x.deadline < ring'.since + Propagation
  <2>1. Current(at, clock) /\ ring'.since = at
    BY <1>2 DEF Succeeds, Booted, StagedBy, ActivatedBy, StagedFrom, ActivatedFrom
  <2>2. x.pc # "idle" /\ x.deadline \in Nat /\ clock \in Nat
    BY <1>2 DEF Ahead, Rotates, TypeInv, JobRecords, JobHolds, MigrationHolds
  <2>3. x.deadline <= clock + LoadLatency
    BY <1>2, <2>2 DEF JobHolds, TimeHolds
  <2>4. clock <= at + CronDelay \/ clock <= at + LoadLatency
    BY <2>1 DEF Current
  <2>5. CronDelay + LoadLatency < Propagation /\ LoadLatency + LoadLatency < Propagation
    BY Lifetimes
  <2> QED BY <2>1, <2>2, <2>3, <2>4, <2>5, ConstantsAssumption
<1> QED BY <1>1, <1>2 DEF JobFresh, Ahead, Rotates
LEMMA WrittenFresh ==
  ASSUME Timely, TypeInv, TypeInv', RingInv, FreshInv, NEW p \in Jobs, job[p].pc = "write",
         Stored(p), ~TooEarly(job[p].seen, job[p].at), UNCHANGED <<clock, jwks, signed>>,
         cache' = cache \/ cache' = Remembered(job[p].iso, ring'),
         NEW y, job' = [job EXCEPT ![p] = y], y.kind = job[p].kind, y.at = job[p].at,
         y.deadline = job[p].deadline, job[p].kind # "ready",
         \/ y.pc \in {"return", "kvDelete"} /\ y.back = "return" /\ y.seen = ring'
         \/ y.pc = "end" /\ y.seen = job[p].seen
  PROVE  FreshInv'
<1>1. /\ job[p] \in JobRecords(nextKid) /\ job[p].at \in Nat /\ job[p].iso \in Isolates
      /\ clock \in Nat /\ job[p].deadline \in Nat /\ CacheTtl \in Nat \ {0}
      /\ nextKid' \in Nat /\ ring' \in Keyrings(nextKid') /\ job \in [Jobs -> JobRecords(nextKid)]
      /\ \A q \in Jobs : job[q].at <= clock
      /\ cache \in [Isolates -> CacheRecords(nextKid)]
  BY Lifetimes DEF TypeInv, JobRecords
<1>2. PICK at \in Nat : Succeeds(ring', at)
  BY <1>1, WriteOutcome DEF Succeeds
<1>3. ring' # NoRing /\ 0 < ring'.version /\ Sound(ring')
  BY StoresSound
<1>4. CachesFresh /\ JwksFresh /\ SignedFresh /\ Ordered(ring)
  BY DEF FreshInv
<1>5. Ordered(ring')
  BY <1>2, <1>4, OrderStays
<1>6. JwksFresh'
  <2>1. Document(jwks, clock, ring')
    BY <1>2, <1>3, <1>4, DocumentStays
  <2> QED BY <1>4, <2>1 DEF JwksFresh
<1>7. SignedFresh'
  <2> SUFFICES ASSUME NEW k \in DOMAIN signed
               PROVE  /\ signed[k] \in Nat /\ signed[k] <= clock
                      /\ clock < signed[k] + TokenTtl => Lasts(ring', k, signed[k] + TokenTtl)
    BY DEF SignedFresh
  <2>1. /\ signed[k] \in Nat /\ signed[k] <= clock
        /\ clock < signed[k] + TokenTtl => Lasts(ring, k, signed[k] + TokenTtl)
    BY <1>4 DEF SignedFresh
  <2> QED BY <1>2, <2>1, LastsStays
<1>8. CachesFresh'
  <2> SUFFICES ASSUME NEW i \in Isolates
               PROVE  /\ cache'[i].until <= clock + CacheTtl
                      /\ Cached(i)' => View(cache'[i].ring, cache'[i].until, ring')
    BY DEF CachesFresh
  <2>1. CASE cache'[i] = cache[i]
    <3>1. cache[i].until \in Nat /\ cache[i].until <= clock + CacheTtl
          /\ (Cached(i) => View(cache[i].ring, cache[i].until, ring))
      BY <1>1, <1>4 DEF CacheRecords, CachesFresh
    <3>2. Within(cache[i].until, clock)
      BY <1>1, <3>1, ConstantsAssumption DEF Within
    <3>3. Cached(i) => View(cache[i].ring, cache[i].until, ring')
      BY <1>2, <3>1, <3>2, ViewStays DEF Cached
    <3> QED BY <2>1, <3>1, <3>3 DEF Cached
  <2>2. CASE cache'[i] = [ring |-> ring', until |-> clock + CacheTtl]
    <3>1. clock + CacheTtl \in Nat
      BY <1>1
    <3>2. View(ring', clock + CacheTtl, ring')
      BY <1>1, <1>3, <1>5, <3>1, ViewOfItself
    <3> QED BY <2>2, <3>1, <3>2
  <2> QED BY <1>1, <2>1, <2>2 DEF Remembered
<1>9. ASSUME NEW q \in Jobs PROVE JobFresh(job[q])'
  <2>1. PICK x \in JobRecords(nextKid) : x = job[q]
    BY <1>1
  <2>2. JobHolds(x) /\ JobFresh(x) /\ x.at <= clock
    BY <1>1, <2>1 DEF RingInv, FreshInv
  <2>3. JobFresh(x)'
    BY <1>2, <2>2, JobFreshStays
  <2>4. CASE q # p
    <3>1. job'[q] = x
      BY <1>1, <2>1, <2>4
    <3> QED BY <2>3, <3>1
  <2>5. CASE q = p
    <3>1. job'[q] = y /\ x = job[p]
      BY <1>1, <2>1, <2>5
    <3>2. CASE y.pc \in {"return", "kvDelete"} /\ y.back = "return" /\ y.seen = ring'
      <4>1. Ahead(y) = "return"
        BY <3>2 DEF Ahead
      <4>2. View(ring', y.deadline + CacheTtl, ring')
        <5>1. y.deadline + CacheTtl \in Nat
          BY <1>1
        <5> QED BY <1>1, <1>3, <1>5, <5>1, ViewOfItself
      <4>3. JobFresh(y)'
        BY <1>3, <2>3, <3>1, <3>2, <4>1, <4>2 DEF JobFresh, Rotates, Ahead
      <4> QED BY <3>1, <4>3
    <3>3. CASE y.pc = "end" /\ y.seen = job[p].seen
      <4>1. Ahead(y) = "end" /\ x.pc # "idle"
        BY <3>1, <3>3 DEF Ahead
      <4>2. JobFresh(y)'
        BY <2>3, <3>1, <3>3, <4>1 DEF JobFresh, Rotates, Ahead
      <4> QED BY <3>1, <4>2
    <3> QED BY <3>2, <3>3
  <2> QED BY <2>4, <2>5
<1> QED BY <1>5, <1>6, <1>7, <1>8, <1>9 DEF FreshInv

LEMMA PersistFresh ==
  ASSUME Timely, TypeInv, TypeInv', RingInv, FreshInv, NEW p \in Jobs,
         (Persist(p) /\ VersionMatches(p)) \/ PersistError(p)
  PROVE  FreshInv'
<1>1. /\ job[p].pc = "write" /\ Stored(p) /\ ~TooEarly(job[p].seen, job[p].at)
      /\ UNCHANGED <<clock, jwks, signed>> /\ job[p] \in JobRecords(nextKid)
  BY DEF Persist, PersistError, TypeInv
<1>2. job[p].kind # "ready"
  BY <1>1 DEF RingInv, JobHolds, TimeHolds, Ahead
<1>3. CASE PersistError(p)
  <2>1. PICK y \in JobRecords(nextKid) :
           /\ job' = [job EXCEPT ![p] = y]
           /\ y.pc = "end" /\ y.kind = job[p].kind /\ y.at = job[p].at /\ y.seen = job[p].seen
           /\ y.deadline = job[p].deadline
    BY <1>3, GotoFields DEF PersistError, Pcs
  <2> QED BY <1>1, <1>2, <1>3, <2>1, WrittenFresh DEF PersistError
<1>4. CASE Persist(p) /\ VersionMatches(p)
  <2>1. PICK pc \in {"return", "kvDelete"} :
          /\ cache' = Remembered(job[p].iso, ring')
          /\ job' = [job EXCEPT ![p].seen = ring', ![p].back = "return", ![p].pc = pc]
    <3>1. CASE job[p].legacy
      BY <1>4, <3>1 DEF Persist
    <3>2. CASE ~job[p].legacy
      BY <1>4, <3>2 DEF Persist
    <3> QED BY <3>1, <3>2
  <2> DEFINE z == [job[p] EXCEPT !.seen = ring', !.back = "return", !.pc = pc]
  <2>2. /\ z.seen = ring' /\ z.kind = job[p].kind /\ z.at = job[p].at
        /\ z.deadline = job[p].deadline /\ z.pc = pc /\ z.back = "return"
    BY <1>1 DEF JobRecords
  <2>3. job' = [job EXCEPT ![p] = z]
    BY <2>1 DEF TypeInv
  <2> HIDE DEF z
  <2> QED BY <1>1, <1>2, <2>1, <2>2, <2>3, WrittenFresh
<1> QED BY <1>3, <1>4

-----------------------------------------------------------------------------
(* Steps that leave the row alone.                                         *)

LEMMA SameRingFresh ==
  ASSUME Timely, TypeInv, FreshInv, UNCHANGED <<clock, ring, jwks, signed>>,
         NEW p \in Jobs, NEW y, job' = [job EXCEPT ![p] = y], JobFresh(y),
         \/ cache' = cache
         \/ \E i \in Isolates : cache' = [cache EXCEPT ![i] = NoCache]
         \/ \E i \in Isolates : \E v : /\ cache' = Remembered(i, v)
                                       /\ View(v, clock + CacheTtl, ring)
  PROVE  FreshInv'
<1>1. JwksFresh' /\ SignedFresh' /\ Ordered(ring')
  BY DEF FreshInv, JwksFresh, SignedFresh
<1>2. \A q \in Jobs : JobFresh(job[q])'
  <2>1. ASSUME NEW q \in Jobs PROVE JobFresh(job[q])'
    <3>1. JobFresh(job'[q])
      BY DEF FreshInv, TypeInv
    <3> QED BY <3>1 DEF JobFresh, Rotates, Ahead
  <2> QED BY <2>1
<1>3. CachesFresh'
  <2> SUFFICES ASSUME NEW i \in Isolates
               PROVE  /\ cache'[i].until <= clock + CacheTtl
                      /\ Cached(i)' => View(cache'[i].ring, cache'[i].until, ring)
    BY DEF CachesFresh
  <2>0. clock \in Nat /\ CacheTtl \in Nat /\ cache \in [Isolates -> CacheRecords(nextKid)]
    BY ConstantsAssumption DEF TypeInv
  <2>1. CASE cache'[i] = cache[i]
    BY <2>1 DEF FreshInv, CachesFresh, Cached
  <2>2. CASE cache'[i] = NoCache
    BY <2>0, <2>2 DEF NoCache, Cached
  <2>3. ASSUME NEW v, cache'[i] = [ring |-> v, until |-> clock + CacheTtl],
               View(v, clock + CacheTtl, ring)
        PROVE  /\ cache'[i].until <= clock + CacheTtl
               /\ Cached(i)' => View(cache'[i].ring, cache'[i].until, ring)
    BY <2>0, <2>3
  <2> QED BY <2>0, <2>1, <2>2, <2>3 DEF Remembered
<1> QED BY <1>1, <1>2, <1>3 DEF FreshInv
(* What a step may leave in the caches beside what was there.              *)
Caches(v) ==
  \/ cache' = cache
  \/ \E i \in Isolates : cache' = [cache EXCEPT ![i] = NoCache]
  \/ \E i \in Isolates : cache' = Remembered(i, v) /\ View(v, clock + CacheTtl, ring)

LEMMA GotoFresh ==
  ASSUME Timely, TypeInv, RingInv, FreshInv, UNCHANGED <<clock, ring, jwks, signed>>,
         NEW p \in Jobs, NEW pc \in Pcs, Goto(p, pc), job[p].pc # "idle", Caches(job[p].seen),
         NEW a, a = IF pc \in {"kvDelete", "kvClear"} THEN job[p].back ELSE pc,
         \/ a = Ahead(job[p]) \/ a \in {"lease", "end"}
         \/ a \in {"recheck", "poll"} /\ job[p].kind = "load"
         \/ a = "rotate" /\ job[p].kind = "cron"
         \/ a = "write" /\ (Rotates(job[p]) \/ job[p].legacy)
         \/ a = "return" /\ 0 < job[p].seen.version
  PROVE  FreshInv'
<1>1. PICK y \in JobRecords(nextKid) :
           /\ job' = [job EXCEPT ![p] = y]
           /\ y.pc = pc /\ y.kind = job[p].kind /\ y.at = job[p].at /\ y.seen = job[p].seen
           /\ y.legacy = job[p].legacy /\ y.back = job[p].back
           /\ y.deadline = job[p].deadline
  BY GotoFields
<1>2. Ahead(y) = a
  BY <1>1 DEF Ahead
<1>3. JobFresh(job[p])
  BY DEF FreshInv
<1>4. Rotates(y) => Rotates(job[p]) \/ y.kind = "cron"
  BY <1>1, <1>2 DEF Rotates
<1>5. JobFresh(y)
  BY <1>1, <1>2, <1>3, <1>4 DEF JobFresh
<1> QED BY <1>1, <1>5, SameRingFresh DEF Caches

LEMMA LoadedFields ==
  ASSUME TypeInv, NEW p \in Jobs, NEW pc, Loaded(p, pc)
  PROVE  \E y : /\ job' = [job EXCEPT ![p] = y]
                /\ y.pc \in {pc, "kvDelete"} /\ y.kind = job[p].kind /\ y.at = job[p].at
                /\ y.seen = ring /\ y.legacy = job[p].legacy /\ y.back = pc
                /\ y.deadline = job[p].deadline
<1>1. job[p] \in JobRecords(nextKid)
  BY DEF TypeInv
<1>2. PICK now \in {pc, "kvDelete"} :
        job' = [job EXCEPT ![p].seen = ring, ![p].pc = now, ![p].back = pc]
  <2>1. CASE ring # NoRing /\ marker
    BY <2>1 DEF Loaded
  <2>2. CASE ~(ring # NoRing /\ marker)
    <3>1. job' = [job EXCEPT ![p].seen = ring, ![p].pc = pc, ![p].back = pc]
      BY <2>2 DEF Loaded
    <3> QED BY <3>1
  <2> QED BY <2>1, <2>2
<1> DEFINE y == [job[p] EXCEPT !.seen = ring, !.pc = now, !.back = pc]
<1>3. /\ y.pc = now /\ y.kind = job[p].kind /\ y.at = job[p].at /\ y.seen = ring
      /\ y.legacy = job[p].legacy /\ y.back = pc /\ y.deadline = job[p].deadline
  BY <1>1 DEF JobRecords
<1>4. job' = [job EXCEPT ![p] = y]
  BY <1>2 DEF TypeInv
<1> HIDE DEF y
<1> QED BY <1>3, <1>4

(* The row as it is now is known in full.                                  *)
LEMMA RowKnown ==
  ASSUME TypeInv, RingInv, FreshInv, 0 < ring.version, NEW u \in Nat
  PROVE  View(ring, u, ring)
<1>1. ring # NoRing /\ nextKid \in Nat /\ ring \in Keyrings(nextKid)
  BY DEF NoRing, TypeInv
<1> QED BY <1>1, ViewOfItself DEF RingInv, RingHolds, FreshInv

LEMMA LoadedFresh ==
  ASSUME Timely, TypeInv, RingInv, FreshInv, UNCHANGED <<clock, ring, jwks, signed, cache>>,
         NEW p \in Jobs, NEW pc \in {"due", "legacy", "write", "initLegacy", "return"},
         Loaded(p, pc), job[p].pc \in {"status", "rotate", "recheck", "poll"},
         pc \in {"legacy", "write"} => job[p].pc = "rotate",
         pc = "initLegacy" => ring = NoRing /\ job[p].pc = "recheck", pc = "return" => ring # NoRing
  PROVE  FreshInv'
<1>1. PICK y : /\ job' = [job EXCEPT ![p] = y]
               /\ y.pc \in {pc, "kvDelete"} /\ y.kind = job[p].kind /\ y.at = job[p].at
               /\ y.seen = ring /\ y.legacy = job[p].legacy /\ y.back = pc
               /\ y.deadline = job[p].deadline
  BY LoadedFields
<1>2. Ahead(y) = pc /\ Ahead(job[p]) = job[p].pc
  BY <1>1 DEF Ahead
<1>3. JobFresh(job[p]) /\ JobHolds(job[p]) /\ RingHolds
  BY DEF FreshInv, RingInv
<1>4. y.deadline + CacheTtl \in Nat
  BY <1>1, ConstantsAssumption DEF TypeInv, JobRecords
<1>5. 0 < y.seen.version => View(y.seen, y.deadline + CacheTtl, ring)
  BY <1>1, <1>4, RowKnown
<1>6. Rotates(y) => Rotates(job[p])
  BY <1>1, <1>2 DEF Rotates
<1>7. ring = NoRing => ring.pending = NoKid
  BY DEF NoRing
<1>8. y.kind # "ready"
  BY <1>1, <1>2, <1>3 DEF JobHolds, TimeHolds
<1>9. ring = NoRing \/ 0 < ring.version
  BY <1>3 DEF RingHolds
<1>10. Ahead(y) = "initLegacy" => y.kind = "load"
  BY <1>1, <1>2, <1>3 DEF JobFresh
<1>11. JobFresh(y)
  BY <1>1, <1>2, <1>3, <1>5, <1>6, <1>7, <1>8, <1>9, <1>10 DEF JobFresh
<1> QED BY <1>1, <1>11, SameRingFresh

LEMMA EndFresh ==
  ASSUME Timely, TypeInv, FreshInv, UNCHANGED <<clock, ring, jwks, signed, cache>>,
         NEW p \in Jobs, job' = [job EXCEPT ![p] = NoJob]
  PROVE  FreshInv'
<1>1. NoJob.pc = "idle" /\ NoJob.kind = "load" /\ Ahead(NoJob) = "idle"
  BY DEF NoJob, Ahead
<1>2. JobFresh(NoJob)
  BY <1>1 DEF JobFresh, Rotates
<1> QED BY <1>2, SameRingFresh

LEMMA FoundFresh ==
  ASSUME Timely, TypeInv, RingInv, FreshInv, UNCHANGED <<clock, ring, jwks, signed, cache>>,
         NEW p \in Jobs, job[p].pc \in {"legacy", "initLegacy"},
         job' = [job EXCEPT ![p].seen = LegacyRing, ![p].legacy = TRUE, ![p].pc = "mark"]
  PROVE  FreshInv'
<1>1. job[p] \in JobRecords(nextKid)
  BY DEF TypeInv
<1> DEFINE y == [job[p] EXCEPT !.seen = LegacyRing, !.legacy = TRUE, !.pc = "mark"]
<1>2. /\ y.pc = "mark" /\ y.kind = job[p].kind /\ y.at = job[p].at /\ y.seen = LegacyRing
  BY <1>1 DEF JobRecords
<1>3. job' = [job EXCEPT ![p] = y]
  BY <1>1
<1> HIDE DEF y
<1>4. Ahead(y) = "mark" /\ LegacyRing.version = 0
  BY <1>2 DEF Ahead, LegacyRing
<1>5. y.kind # "ready" /\ (y.kind = "cron" => OnGrid(y.at))
  BY <1>2 DEF RingInv, JobHolds, TimeHolds, FreshInv, JobFresh, Ahead
<1>6. JobFresh(y)
  BY <1>2, <1>4, <1>5 DEF JobFresh, Rotates
<1> QED BY <1>3, <1>6, SameRingFresh

LEMMA FirstFresh ==
  ASSUME Timely, TypeInv, FreshInv, UNCHANGED <<clock, ring, jwks, signed, cache>>,
         NEW p \in Jobs, job[p].pc = "initLegacy",
         job' = [job EXCEPT ![p].pc = "rotate", ![p].at = clock, ![p].releasing = TRUE]
  PROVE  FreshInv'
<1>1. job[p] \in JobRecords(nextKid)
  BY DEF TypeInv
<1> DEFINE y == [job[p] EXCEPT !.pc = "rotate", !.at = clock, !.releasing = TRUE]
<1>2. /\ y.pc = "rotate" /\ y.kind = job[p].kind /\ y.seen = job[p].seen
      /\ y.deadline = job[p].deadline
  BY <1>1 DEF JobRecords
<1>3. job' = [job EXCEPT ![p] = y]
  BY <1>1
<1> HIDE DEF y
<1>4. Ahead(y) = "rotate" /\ Ahead(job[p]) = "initLegacy" /\ JobFresh(job[p])
  BY <1>2 DEF Ahead, FreshInv
<1>5. JobFresh(y)
  BY <1>2, <1>4 DEF JobFresh
<1> QED BY <1>3, <1>5, SameRingFresh

LEMMA ReadyFresh ==
  ASSUME Timely, TypeInv, RingInv, FreshInv, NEW p \in Jobs, ReadyMark(p) \/ ReadyStart(p)
  PROVE  FreshInv'
<1>1. job[p] \in JobRecords(nextKid) /\ NoJob \in JobRecords(nextKid) /\ NoJob.seen = NoRing
  BY FirstRings DEF TypeInv, NoJob
<1>2. CASE ReadyMark(p)
  <2> DEFINE y == [job[p] EXCEPT !.pc = "kvDelete", !.back = "end"]
  <2>1. /\ y.pc = "kvDelete" /\ y.back = "end" /\ y.kind = job[p].kind /\ y.seen = job[p].seen
        /\ y.deadline = job[p].deadline /\ y.at = job[p].at
    BY <1>1 DEF JobRecords
  <2>2. job' = [job EXCEPT ![p] = y]
    BY <1>1, <1>2 DEF ReadyMark
  <2> HIDE DEF y
  <2>3. Ahead(y) = "end" /\ JobFresh(job[p]) /\ job[p].pc # "idle"
    BY <1>2, <2>1 DEF Ahead, FreshInv, ReadyMark
  <2>4. JobFresh(y)
    BY <2>1, <2>3 DEF JobFresh, Rotates
  <2> QED BY <1>2, <2>2, <2>4, SameRingFresh DEF ReadyMark
<1>3. CASE ReadyStart(p)
  <2> DEFINE y == [NoJob EXCEPT !.pc = "readyMark", !.kind = "ready",
                                !.deadline = clock + LoadLatency]
  <2>1. y.pc = "readyMark" /\ y.kind = "ready" /\ y.seen = NoRing
    BY <1>1 DEF JobRecords
  <2>2. job' = [job EXCEPT ![p] = y]
    BY <1>3 DEF ReadyStart
  <2> HIDE DEF y
  <2>3. Ahead(y) = "readyMark" /\ NoRing.version = 0
    BY <2>1 DEF Ahead, NoRing
  <2>4. JobFresh(y)
    BY <2>1, <2>3 DEF JobFresh, Rotates
  <2> QED BY <1>3, <2>2, <2>4, SameRingFresh DEF ReadyStart
<1> QED BY <1>2, <1>3

LEMMA CronStartFresh ==
  ASSUME Timely, TypeInv, FreshInv, NEW p \in Jobs, NEW i \in Isolates, CronStart(p, i)
  PROVE  FreshInv'
<1> DEFINE at == (clock \div CronPeriod) * CronPeriod
           y == [NoJob EXCEPT !.pc = "status", !.kind = "cron", !.iso = i, !.at = at,
                              !.deadline = at + CronDelay]
<1>1. job' = [job EXCEPT ![p] = y]
  BY DEF CronStart
<1>2. NoJob \in JobRecords(nextKid) /\ NoJob.seen = NoRing
  BY FirstRings DEF TypeInv, NoJob
<1>3. OnGrid(at)
  BY ScheduledOnGrid DEF TypeInv
<1> HIDE DEF at
<1>4. y.pc = "status" /\ y.kind = "cron" /\ y.at = at /\ y.seen = NoRing
  BY <1>2 DEF JobRecords
<1> HIDE DEF y
<1>5. Ahead(y) = "status" /\ NoRing.version = 0
  BY <1>4 DEF Ahead, NoRing
<1>6. JobFresh(y)
  BY <1>3, <1>4, <1>5 DEF JobFresh, Rotates
<1> QED BY <1>1, <1>6, SameRingFresh DEF CronStart

LEMMA EnsureStartFresh ==
  ASSUME Timely, TypeInv, RingInv, FreshInv, NEW p \in Jobs, NEW i \in Isolates, EnsureStart(p, i)
  PROVE  FreshInv'
<1>1. PICK pc \in {"lease", "kvDelete", "return"} :
        /\ job' = [job EXCEPT ![p] =
             [NoJob EXCEPT !.iso = i, !.deadline = clock + LoadLatency, !.seen = ring, !.pc = pc,
                           !.back = "return"]]
        /\ pc # "lease" => ring # NoRing
  <2>1. CASE ring = NoRing
    BY <2>1 DEF EnsureStart
  <2>2. CASE ring # NoRing /\ marker
    BY <2>2 DEF EnsureStart
  <2>3. CASE ring # NoRing /\ ~marker
    BY <2>3 DEF EnsureStart
  <2> QED BY <2>1, <2>2, <2>3
<1> DEFINE y == [NoJob EXCEPT !.iso = i, !.deadline = clock + LoadLatency, !.seen = ring,
                              !.pc = pc, !.back = "return"]
<1>2. NoJob \in JobRecords(nextKid) /\ NoJob.kind = "load"
  BY FirstRings DEF TypeInv, NoJob
<1>3. job' = [job EXCEPT ![p] = y]
  BY <1>1
<1>4. /\ y.pc = pc /\ y.kind = "load" /\ y.seen = ring /\ y.back = "return"
      /\ y.deadline = clock + LoadLatency
  BY <1>2 DEF JobRecords
<1> HIDE DEF y
<1>5. Ahead(y) \in {"lease", "return"} /\ (Ahead(y) = "return" => ring # NoRing)
  BY <1>1, <1>4 DEF Ahead
<1>6. y.deadline + CacheTtl \in Nat /\ (ring # NoRing => 0 < ring.version)
  BY <1>4, ConstantsAssumption DEF TypeInv, RingInv, RingHolds
<1>7. JobFresh(y)
  BY <1>4, <1>5, <1>6, RowKnown DEF JobFresh, Rotates
<1> QED BY <1>3, <1>7, SameRingFresh DEF EnsureStart
(* What a job has read may go into the cache of its isolate.               *)
LEMMA SeenRemembered ==
  ASSUME Timely, TypeInv, RingInv, FreshInv, NEW p \in Jobs, job[p].pc # "idle",
         0 < job[p].seen.version
  PROVE  View(job[p].seen, clock + CacheTtl, ring)
<1>1. PICK x \in JobRecords(nextKid) : x = job[p]
  BY DEF TypeInv
<1>2. JobHolds(x) /\ JobFresh(x) /\ x.at <= clock
  BY <1>1 DEF RingInv, FreshInv, TypeInv
<1>3. x.deadline + CacheTtl \in Nat /\ clock + CacheTtl <= x.deadline + CacheTtl
  BY <1>1, <1>2, JobReach
<1>4. View(x.seen, x.deadline + CacheTtl, ring)
  BY <1>1, <1>2 DEF JobFresh
<1>5. nextKid \in Nat /\ ring \in Keyrings(nextKid) /\ clock + CacheTtl \in Nat
  BY ConstantsAssumption DEF TypeInv
<1>6. View(x.seen, clock + CacheTtl, ring)
  BY <1>3, <1>4, <1>5, ViewSooner
<1> QED BY <1>1, <1>6

LEMMA JobStepFresh ==
  ASSUME Timely, TypeInv, TypeInv', RingInv, FreshInv, NEW p \in Jobs,
         Step(p) \/ PersistError(p) \/ Crash(p) \/ ReadyStart(p)
  PROVE  FreshInv'
<1>q. /\ JobHolds(job[p]) /\ JobFresh(job[p]) /\ RingHolds /\ job[p].iso \in Isolates
      /\ job[p].back \in Pcs /\ job[p].kind \in {"load", "cron", "ready"}
  BY DEF RingInv, FreshInv, TypeInv, JobRecords
<1>c. cache' = cache => Caches(job[p].seen)
  BY DEF Caches
<1>1. CASE CronStatus(p) \/ RotateLoad(p) \/ InitRecheck(p) \/ (InitPoll(p) /\ ring # NoRing)
  <2>1. \E pc \in {"due", "legacy", "write", "initLegacy", "return"} :
          /\ Loaded(p, pc) /\ job[p].pc \in {"status", "rotate", "recheck", "poll"}
          /\ pc \in {"legacy", "write"} => job[p].pc = "rotate"
          /\ pc = "initLegacy" => ring = NoRing /\ job[p].pc = "recheck"
          /\ pc = "return" => ring # NoRing
    BY <1>1 DEF CronStatus, RotateLoad, InitRecheck, InitPoll
  <2>2. UNCHANGED <<clock, ring, jwks, signed, cache>>
    BY <1>1 DEF CronStatus, RotateLoad, InitRecheck, InitPoll
  <2> QED BY <2>1, <2>2, LoadedFresh
<1>2. CASE CronDue(p)
  <2>1. job[p].pc = "due" /\ UNCHANGED <<clock, ring, jwks, signed>>
    BY <1>2 DEF CronDue
  <2>2. PICK pc \in {"lease", "end"} : Goto(p, pc)
    BY <1>2 DEF CronDue
  <2>3. Caches(job[p].seen)
    <3>1. CASE job[p].seen = NoRing
      BY <1>2, <1>q, <3>1 DEF CronDue, Caches
    <3>2. CASE job[p].seen # NoRing
      <4>1. 0 < job[p].seen.version
        BY <1>q, <2>1, <3>2 DEF JobFresh, Ahead
      <4>2. View(job[p].seen, clock + CacheTtl, ring)
        BY <2>1, <4>1, SeenRemembered
      <4> QED BY <1>2, <1>q, <3>2, <4>2 DEF CronDue, Caches
    <3> QED BY <3>1, <3>2
  <2> QED BY <2>1, <2>2, <2>3, GotoFresh DEF Pcs
<1>3. CASE CronLease(p) \/ InitLease(p) \/ (InitPoll(p) /\ ring = NoRing)
  <2>1. PICK pc \in {"rotate", "recheck", "poll", "end"} :
          /\ Goto(p, pc) /\ job[p].pc # "idle"
          /\ pc = "rotate" => job[p].kind = "cron"
          /\ pc \in {"recheck", "poll"} => job[p].kind = "load"
    BY <1>3 DEF CronLease, InitLease, InitPoll
  <2>2. UNCHANGED <<clock, ring, jwks, signed, cache>>
    BY <1>3 DEF CronLease, InitLease, InitPoll
  <2> QED BY <1>c, <2>1, <2>2, GotoFresh DEF Pcs
<1>4. CASE CronEnd(p) \/ LoadEnd(p) \/ Crash(p)
  BY <1>4, EndFresh DEF CronEnd, LoadEnd, Crash
<1>5. CASE (RotateLegacy(p) /\ kv = Copies) \/ (InitLegacy(p) /\ kv = Copies)
  BY <1>5, FoundFresh DEF RotateLegacy, InitLegacy
<1>6. CASE InitLegacy(p) /\ kv # Copies
  BY <1>6, FirstFresh DEF InitLegacy
<1>7. CASE (RotateLegacy(p) /\ kv # Copies) \/ Mark(p)
  <2>1. Goto(p, "write") /\ job[p].pc # "idle" /\ UNCHANGED <<clock, ring, jwks, signed, cache>>
    BY <1>7 DEF RotateLegacy, Mark
  <2>2. Rotates(job[p]) \/ job[p].legacy
    BY <1>7, <1>q DEF RotateLegacy, Mark, Rotates, Ahead, JobHolds, MigrationHolds
  <2> QED BY <1>c, <2>1, <2>2, GotoFresh DEF Pcs
<1>8. CASE Persist(p) /\ ~VersionMatches(p)
  <2>1. Goto(p, "end") /\ job[p].pc # "idle" /\ UNCHANGED <<clock, ring, jwks, signed, cache>>
    BY <1>8 DEF Persist, Stored
  <2> QED BY <1>c, <2>1, GotoFresh DEF Pcs
<1>9. CASE PersistNothing(p)
  <2>1. /\ Goto(p, "return") /\ job[p].pc # "idle" /\ TooEarly(job[p].seen, job[p].at)
        /\ UNCHANGED <<clock, ring, jwks, signed, cache>>
    BY <1>9 DEF PersistNothing
  <2>2. 0 < job[p].seen.version
    BY <1>q, <2>1 DEF TooEarly, JobHolds, SeenHolds, NoRing, LegacyRing
  <2> QED BY <1>c, <2>1, <2>2, GotoFresh DEF Pcs
<1>10. CASE Return(p)
  <2>1. job[p].pc = "return" /\ Goto(p, "end") /\ UNCHANGED <<clock, ring, jwks, signed>>
    BY <1>10 DEF Return
  <2>2. 0 < job[p].seen.version
    BY <1>q, <2>1 DEF JobFresh, Ahead
  <2>3. Caches(job[p].seen)
    BY <1>10, <1>q, <2>1, <2>2, SeenRemembered DEF Return, Caches
  <2> QED BY <2>1, <2>3, GotoFresh DEF Pcs
<1>11. CASE KvDelete(p) \/ KvClear(p)
  <2>1. /\ job[p].pc \in {"kvDelete", "kvClear"} /\ UNCHANGED <<clock, ring, jwks, signed, cache>>
        /\ Ahead(job[p]) = job[p].back /\ job[p].back \notin {"kvDelete", "kvClear"}
    BY <1>11, <1>q DEF KvDelete, KvClear, Ahead, JobHolds, MigrationHolds
  <2>2. PICK pc \in {job[p].back, "kvClear"} : Goto(p, pc)
    BY <1>11 DEF KvDelete, KvClear
  <2>3. (IF pc \in {"kvDelete", "kvClear"} THEN job[p].back ELSE pc) = Ahead(job[p])
    BY <2>1, <2>2
  <2>4. pc \in Pcs /\ job[p].pc # "idle"
    BY <1>q, <2>1 DEF Pcs
  <2> QED BY <1>c, <2>1, <2>2, <2>3, <2>4, GotoFresh
<1>12. CASE ReleaseKey(p)
  BY <1>12 DEF ReleaseKey, FreshInv, CachesFresh, Cached, JwksFresh, SignedFresh, JobFresh
<1> QED BY <1>1, <1>2, <1>3, <1>4, <1>5, <1>6, <1>7, <1>8, <1>9, <1>10, <1>11, <1>12, PersistFresh,
           ReadyFresh DEF Step

-----------------------------------------------------------------------------
(* Signing, the document, the clock.                                       *)

LEMMA SignFresh ==
  ASSUME Timely, TypeInv, FreshInv, NEW i \in Isolates, Sign(i)
  PROVE  FreshInv'
<1> DEFINE a == cache[i].ring.active
           u == cache[i].until
<1>1. /\ signed' = [k \in DOMAIN signed \cup {a} |-> IF k = a THEN clock ELSE signed[k]]
      /\ UNCHANGED <<clock, ring, cache, job, jwks>> /\ Cached(i)
  BY DEF Sign
<1>2. /\ View(cache[i].ring, u, ring) /\ u \in Nat /\ clock \in Nat /\ clock < u
      /\ TokenTtl \in Nat /\ Grace \in Nat /\ nextKid \in Nat /\ ring \in Keyrings(nextKid)
  BY <1>1, Lifetimes DEF FreshInv, CachesFresh, Cached, TypeInv, CacheRecords
<1>3. Lasts(ring, a, u - 1 + TokenTtl)
  BY <1>2 DEF View
<1> HIDE DEF a, u
<1>4. Lasts(ring, a, clock + TokenTtl)
  <2>1. a \in Used(ring) /\ ring.keys[a].retiredAt \in Int
    BY <1>2, <1>3, RetiredTimes DEF Lasts, Used
  <2> QED BY <1>2, <1>3, <2>1 DEF Lasts
<1>5. SignedFresh'
  <2> SUFFICES ASSUME NEW k \in DOMAIN signed'
               PROVE  /\ signed'[k] \in Nat /\ signed'[k] <= clock
                      /\ clock < signed'[k] + TokenTtl => Lasts(ring, k, signed'[k] + TokenTtl)
    BY <1>1 DEF SignedFresh
  <2>1. CASE k = a
    BY <1>1, <1>2, <1>4, <2>1
  <2>2. CASE k # a
    BY <1>1, <2>2 DEF FreshInv, SignedFresh
  <2> QED BY <2>1, <2>2
<1> QED BY <1>1, <1>5 DEF FreshInv, CachesFresh, Cached, JwksFresh, JobFresh

LEMMA FetchFresh ==
  ASSUME Timely, TypeInv, RingInv, FreshInv, NEW i \in Isolates, FetchJwks(i)
  PROVE  FreshInv'
<1> DEFINE v == cache[i].ring
           u == cache[i].until
<1>1. /\ jwks' = [kids |-> Published(v, clock), until |-> clock + JwksAge]
      /\ UNCHANGED <<clock, ring, cache, job, signed>> /\ Cached(i)
  BY DEF FetchJwks
<1>2. /\ View(v, u, ring) /\ u \in Nat /\ clock \in Nat /\ clock < u /\ JwksAge \in Nat
      /\ nextKid \in Nat /\ ring \in Keyrings(nextKid) /\ Grace \in Nat
  BY <1>1, Lifetimes DEF FreshInv, CachesFresh, Cached, TypeInv, CacheRecords
<1>3. ring # NoRing
  BY <1>2, NobodyKnows
<1> HIDE DEF v, u
<1>4. ASSUME NEW k \in Used(ring)
      PROVE  \/ k \in Published(v, clock)
             \/ Retired(ring.keys[k]) /\ Grace <= clock - ring.keys[k].retiredAt
  <2>1. Knows(v, ring, k) /\ ring.keys[k].retiredAt \in Int
    BY <1>2, <1>4, RetiredTimes DEF View, Used
  <2> QED BY <1>2, <2>1 DEF Knows, Shows, Published, Retired
<1>5. ASSUME ring.pending # NoKid, ring.pending \notin Published(v, clock)
      PROVE  Waits(ring, clock + JwksAge)
  <2>1. Waits(ring, u - 1 + JwksAge)
    BY <1>2, <1>5 DEF View, Shows, Published
  <2> QED BY <1>2, <2>1 DEF Waits
<1>6. JwksFresh'
  <2>1. jwks'.until = clock + JwksAge /\ jwks'.kids = Published(v, clock)
    BY <1>1
  <2>2. Document(jwks', clock, ring)
    BY <1>3, <1>4, <1>5, <2>1 DEF Document
  <2> QED BY <1>1, <1>2, <2>1, <2>2 DEF JwksFresh
<1> QED BY <1>1, <1>6 DEF FreshInv, CachesFresh, Cached, SignedFresh, JobFresh

LEMMA TickFresh ==
  ASSUME Timely, TypeInv, FreshInv, Tick
  PROVE  FreshInv'
<1>1. /\ clock \in Nat /\ clock' = clock + 1 /\ UNCHANGED <<ring, job>> /\ nextKid \in Nat
      /\ ring \in Keyrings(nextKid) /\ CacheTtl \in Nat /\ JwksAge \in Nat /\ TokenTtl \in Nat
      /\ cache \in [Isolates -> CacheRecords(nextKid)] /\ Grace \in Nat
  BY Lifetimes DEF Tick, TypeInv
<1>2. CachesFresh'
  <2> SUFFICES ASSUME NEW i \in Isolates
               PROVE  /\ cache'[i].until <= clock' + CacheTtl
                      /\ Cached(i)' => View(cache'[i].ring, cache'[i].until, ring)
    BY <1>1 DEF CachesFresh
  <2>1. cache'[i] = cache[i] \/ cache'[i] = NoCache
    BY DEF Tick
  <2>2. CASE cache'[i] = NoCache
    BY <1>1, <2>2 DEF NoCache, Cached
  <2>3. CASE cache'[i] = cache[i]
    <3>1. cache[i].until \in Nat /\ cache[i].until <= clock + CacheTtl
      BY <1>1 DEF FreshInv, CachesFresh, CacheRecords
    <3>2. Cached(i)' => Cached(i)
      BY <1>1, <2>3, <3>1 DEF Cached
    <3> QED BY <1>1, <2>3, <3>1, <3>2 DEF FreshInv, CachesFresh
  <2> QED BY <2>1, <2>2, <2>3
<1>3. JwksFresh'
  <2>1. jwks' = jwks \/ jwks' = [kids |-> {}, until |-> 0]
    BY DEF Tick
  <2>2. CASE jwks' = [kids |-> {}, until |-> 0]
    BY <1>1, <2>2 DEF JwksFresh, Document
  <2>3. CASE jwks' = jwks
    <3>1. jwks.until \in Nat /\ jwks.until <= clock + JwksAge /\ Document(jwks, clock, ring)
      BY DEF FreshInv, JwksFresh
    <3>2. \A k \in Used(ring) : ring.keys[k].retiredAt \in Int
      BY <1>1, RetiredTimes DEF Used
    <3>3. Document(jwks, clock', ring)
      BY <1>1, <3>1, <3>2 DEF Document
    <3> QED BY <1>1, <2>3, <3>1, <3>3 DEF JwksFresh
  <2> QED BY <2>1, <2>2, <2>3
<1>4. SignedFresh'
  <2> SUFFICES ASSUME NEW k \in DOMAIN signed'
               PROVE  /\ signed'[k] \in Nat /\ signed'[k] <= clock'
                      /\ clock' < signed'[k] + TokenTtl => Lasts(ring, k, signed'[k] + TokenTtl)
    BY <1>1 DEF SignedFresh
  <2>1. k \in DOMAIN signed /\ signed'[k] = signed[k]
    BY DEF Tick
  <2> QED BY <1>1, <2>1 DEF FreshInv, SignedFresh
<1> QED BY <1>1, <1>2, <1>3, <1>4 DEF FreshInv, JobFresh

LEMMA InitFresh ==
  ASSUME Init
  PROVE  FreshInv
<1>1. /\ clock = 0 /\ cache = [i \in Isolates |-> NoCache] /\ job = [p \in Jobs |-> NoJob]
      /\ signed = [k \in {} |-> 0] /\ jwks = [kids |-> {}, until |-> 0]
  BY DEF Init
<1>2. Ordered(ring)
  BY DEF Init, Ordered, Used, NoRing, LegacyRing, NoKid, LegacyKid
<1>3. NoJob.pc = "idle" /\ NoJob.kind = "load" /\ Ahead(NoJob) = "idle"
  BY DEF NoJob, Ahead
<1>4. JobFresh(NoJob)
  BY <1>3 DEF JobFresh, Rotates
<1>5. CachesFresh /\ JwksFresh /\ SignedFresh
  BY <1>1, ConstantsAssumption DEF CachesFresh, Cached, NoCache, JwksFresh, Document, SignedFresh
<1> QED BY <1>1, <1>2, <1>4, <1>5 DEF FreshInv

LEMMA StepFresh ==
  ASSUME Timely, TypeInv, RingInv, FreshInv, [Next]_vars
  PROVE  FreshInv'
<1>1. TypeInv'
  BY StepTypes
<1>2. CASE UNCHANGED vars
  BY <1>2 DEF vars, FreshInv, CachesFresh, Cached, JwksFresh, SignedFresh, JobFresh
<1> QED BY <1>1, <1>2, JobStepFresh, CronStartFresh, EnsureStartFresh, SignFresh, FetchFresh,
           TickFresh DEF Next

(* What signs now, and what signed a token still in use, is in every        *)
(* document and every cached keyring.                                      *)
LEMMA FreshVerifiable ==
  ASSUME Timely, TypeInv, RingInv, FreshInv
  PROVE  TokensVerifiable
<1> SUFFICES ASSUME NEW k \in DOMAIN signed, clock < signed[k] + TokenTtl
             PROVE  /\ clock < jwks.until => k \in jwks.kids
                    /\ \A i \in Isolates : Cached(i) => k \in Published(cache[i].ring, clock)
  BY DEF TokensVerifiable
<1>1. /\ signed[k] \in Nat /\ Lasts(ring, k, signed[k] + TokenTtl) /\ clock \in Nat
      /\ TokenTtl \in Nat /\ Grace \in Nat /\ nextKid \in Nat /\ ring \in Keyrings(nextKid)
  BY Lifetimes DEF FreshInv, SignedFresh, TypeInv
<1>2. k \in Used(ring) /\ k \in DOMAIN ring.keys /\ ring.keys[k].retiredAt \in Int
  BY <1>1, RetiredTimes DEF Lasts, Used
<1>3. Retired(ring.keys[k]) => clock - ring.keys[k].retiredAt < Grace
  <2>1. CASE k = ring.active
    <3>1. ring # NoRing
      BY <1>1, NobodyKnows
    <3> QED BY <2>1, <3>1 DEF RingInv, RingHolds, Sound
  <2>2. CASE k # ring.active
    BY <1>1, <1>2, <2>2 DEF Lasts
  <2> QED BY <2>1, <2>2
<1>4. ASSUME clock < jwks.until PROVE k \in jwks.kids
  BY <1>1, <1>2, <1>3, <1>4 DEF FreshInv, JwksFresh, Document
<1>5. ASSUME NEW i \in Isolates, Cached(i) PROVE k \in Published(cache[i].ring, clock)
  <2>1. Knows(cache[i].ring, ring, k)
    BY <1>2, <1>5 DEF FreshInv, CachesFresh, View
  <2> QED BY <1>2, <1>3, <2>1 DEF Knows, Shows, Published, Retired
<1> QED BY <1>4, <1>5

(* A token in use is verifiable by every relying party that holds a JWKS    *)
(* document it may still use and by every isolate with a cached keyring,    *)
(* for every number of isolates and of concurrent jobs, with crashes,       *)
(* errors and racing first boots, as long as the lifetimes are Timely.      *)
THEOREM TokensStayVerifiable == ASSUME Timely PROVE Spec => []TokensVerifiable
<1>1. Init => TypeInv /\ RingInv /\ FreshInv
  BY InitTypes, InitRing, InitFresh
<1>2. TypeInv /\ RingInv /\ FreshInv /\ [Next]_vars => (TypeInv /\ RingInv /\ FreshInv)'
  BY StepTypes, StepRing, StepFresh
<1>3. TypeInv /\ RingInv /\ FreshInv => TokensVerifiable
  BY FreshVerifiable
<1> QED BY <1>1, <1>2, <1>3, PTL DEF Spec
=============================================================================
