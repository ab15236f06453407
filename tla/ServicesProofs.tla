--------------------------- MODULE ServicesProofs ---------------------------
(***************************************************************************)
(* Proofs about RateLimit for every limit, window and grace, and about      *)
(* Delivery for every set of messages, number of consumers and of retries,  *)
(* and every size of a deletion.                                           *)
(***************************************************************************)
EXTENDS RateLimit, Delivery, TLAPS

-----------------------------------------------------------------------------
(* The rate limiter.                                                       *)

RateTypeInv ==
  /\ windowStart \in Nat /\ windowStart <= time /\ time \in Window .. MaxTime
  /\ hits \in 0 .. Limit + 1 /\ alarmAt \in Nat /\ retryAt \in Nat
  /\ notices \in Nat

(* What the last denial announced is the end of the window it was counted  *)
(* in: until then no other window begins.                                  *)
RetryInv == retryAt # 0 => retryAt = windowStart + Window

LEMMA MinOfTwo ==
  ASSUME NEW a \in Nat, NEW b \in Nat
  PROVE  Min({a, b}) = IF a <= b THEN a ELSE b
<1> DEFINE m == IF a <= b THEN a ELSE b
<1>1. m \in {a, b} /\ \A y \in {a, b} : m <= y
  OBVIOUS
<1>2. \A x \in {a, b} : (\A y \in {a, b} : x <= y) => x = m
  OBVIOUS
<1> HIDE DEF m
<1>3. Min({a, b}) = m
  BY <1>1, <1>2 DEF Min
<1> QED BY <1>3 DEF m

LEMMA CountIs ==
  ASSUME RateTypeInv
  PROVE  /\ Count \in 0 .. Limit + 1
         /\ NewWindow => Count = 1
         /\ ~NewWindow => Count = IF hits <= Limit THEN hits + 1 ELSE hits
<1>1. hits \in Nat /\ Limit \in Nat /\ hits + 1 \in Nat /\ Limit + 1 \in Nat /\ hits <= Limit + 1
  BY RateLimitAssumption DEF RateTypeInv
<1>2. Min({hits + 1, Limit + 1}) = IF hits + 1 <= Limit + 1 THEN hits + 1 ELSE Limit + 1
  BY <1>1, MinOfTwo
<1>3. Count = IF NewWindow THEN 1 ELSE IF hits + 1 <= Limit + 1 THEN hits + 1 ELSE Limit + 1
  BY <1>2 DEF Count
<1>4. CASE NewWindow
  BY <1>1, <1>3, <1>4
<1>5. CASE ~NewWindow
  BY <1>1, <1>3, <1>5
<1> QED BY <1>4, <1>5

LEMMA CheckHolds ==
  ASSUME RateTypeInv, RetryInv, DenialsHold, Check
  PROVE  RateTypeInv' /\ RetryInv' /\ DenialsHold'
<1>1. /\ windowStart \in Nat /\ time \in Nat /\ Limit \in Nat /\ Window \in Nat \ {0}
      /\ AlarmGrace \in Nat /\ hits \in Nat /\ hits <= Limit + 1 /\ windowStart <= time
      /\ time \in Window .. MaxTime /\ notices \in Nat /\ alarmAt \in Nat
  BY RateLimitAssumption DEF RateTypeInv
<1>2. /\ hits' = Count /\ time' = time
      /\ windowStart' = IF NewWindow THEN time ELSE windowStart
      /\ alarmAt' = IF NewWindow THEN NextAlarm ELSE alarmAt
      /\ retryAt' = IF Count <= Limit THEN 0 ELSE windowStart' + Window
      /\ notices' = (IF NewWindow THEN 0 ELSE notices) + (IF FirstDenied THEN 1 ELSE 0)
  BY DEF Check
<1>3. /\ hits' \in 0 .. Limit + 1
      /\ NewWindow => hits' = 1
      /\ ~NewWindow => hits' = IF hits <= Limit THEN hits + 1 ELSE hits
  BY <1>2, CountIs
<1>4. FirstDenied <=> hits' > Limit /\ (NewWindow \/ hits <= Limit)
  BY <1>2 DEF FirstDenied
<1>5. windowStart' \in Nat /\ windowStart' <= time' /\ retryAt' \in Nat
      /\ (retryAt' # 0 => retryAt' = windowStart' + Window)
  BY <1>1, <1>2
<1>6. notices' = IF hits' > Limit THEN 1 ELSE 0
  <2>1. notices = IF hits > Limit THEN 1 ELSE 0
    BY DEF DenialsHold
  <2>2. CASE NewWindow
    BY <1>1, <1>2, <1>3, <1>4, <2>2
  <2>3. CASE ~NewWindow
    BY <1>1, <1>2, <1>3, <1>4, <2>1, <2>3
  <2> QED BY <2>2, <2>3
<1>7. alarmAt' \in Nat
  BY <1>1, <1>2 DEF NextAlarm
<1>8. RateTypeInv' /\ RetryInv'
  BY <1>1, <1>2, <1>3, <1>5, <1>6, <1>7 DEF RateTypeInv, RetryInv
<1>9. DenialsHold'
  BY <1>1, <1>2, <1>5, <1>6 DEF DenialsHold, NewWindow
<1> QED BY <1>8, <1>9

LEMMA StepLimits ==
  ASSUME RateTypeInv, RetryInv, DenialsHold, [RateLimitNext]_rateLimitVars
  PROVE  RateTypeInv' /\ RetryInv' /\ DenialsHold'
<1>1. CASE Reset \/ RateAlarm
  <2>1. /\ windowStart' = 0 /\ hits' = 0 /\ notices' = 0 /\ retryAt' = 0 /\ time' = time
        /\ alarmAt' \in {0, alarmAt}
    BY <1>1 DEF Reset, RateAlarm, Cleared
  <2>2. RateTypeInv' /\ RetryInv'
    BY <2>1, RateLimitAssumption DEF RateTypeInv, RetryInv
  <2>3. DenialsHold'
    BY <2>1, RateLimitAssumption DEF DenialsHold
  <2> QED BY <2>2, <2>3
<1>2. CASE Passes
  <2>1. /\ time' = time + 1 /\ time < MaxTime
        /\ UNCHANGED <<windowStart, hits, alarmAt, notices, retryAt>>
    BY <1>2 DEF Passes
  <2>2. RateTypeInv' /\ RetryInv'
    BY <2>1, RateLimitAssumption DEF RateTypeInv, RetryInv
  <2>3. DenialsHold'
    BY <2>1, <2>2, RateLimitAssumption DEF DenialsHold, NewWindow, RateTypeInv, RetryInv
  <2> QED BY <2>2, <2>3
<1>3. CASE UNCHANGED rateLimitVars
  BY <1>3 DEF rateLimitVars, RateTypeInv, RetryInv, DenialsHold, NewWindow
<1> QED BY <1>1, <1>2, <1>3, CheckHolds DEF RateLimitNext

LEMMA RateInvariant == RateLimitSpec => [](RateTypeInv /\ RetryInv /\ DenialsHold)
<1>1. RateLimitInit => RateTypeInv /\ RetryInv /\ DenialsHold
  BY RateLimitAssumption DEF RateLimitInit, RateTypeInv, RetryInv, DenialsHold
<1>2. RateTypeInv /\ RetryInv /\ DenialsHold /\ [RateLimitNext]_rateLimitVars
        => (RateTypeInv /\ RetryInv /\ DenialsHold)'
  BY StepLimits
<1> QED BY <1>1, <1>2, PTL DEF RateLimitSpec

(* The counter saturates one above the limit (RateLimitDO.check), so that a *)
(* key that is denied is not written to again.                             *)
THEOREM LimiterTyped == RateLimitSpec => []RateLimitTypeOK
<1>1. RateTypeInv => RateLimitTypeOK
  BY RateLimitAssumption DEF RateTypeInv, RateLimitTypeOK
<1> QED BY <1>1, RateInvariant, PTL

(* However windows, resets and late alarms interleave with the requests, a  *)
(* window in which any is denied is announced once (shouldAuditRateLimit),  *)
(* and whoever waits as long as retry-after says finds a new window.        *)
THEOREM DenialsAnnounced == RateLimitSpec => []DenialsHold
BY RateInvariant, PTL

-----------------------------------------------------------------------------
(* The limit.  In a window the requests allowed last are the ones it has    *)
(* counted; those before them came no later than its beginning, and all but *)
(* as many as the limit came a window earlier.  A window that is over has   *)
(* that of its end: all but the last as many came a window ago.  An alarm   *)
(* is never due before the window it was set for, or any later one, is over. *)

Counted == IF hits > Limit THEN Limit ELSE hits

OverHolds == \A i \in 1..Len(granted) : i + Limit <= Len(granted) => granted[i] + Window <= time

RunningHolds ==
  \A i \in 1..Len(granted) : i + Counted <= Len(granted) =>
    /\ granted[i] <= windowStart
    /\ i + Counted + Limit <= Len(granted) => granted[i] + Window <= windowStart

WindowInv ==
  /\ granted \in Seq(Nat) /\ \A i \in 1..Len(granted) : granted[i] <= time
  /\ alarmAt # 0 => alarmAt >= windowStart + Window
  /\ NewWindow => OverHolds
  /\ ~NewWindow => RunningHolds

LEMMA RateNumbers ==
  ASSUME RateTypeInv, WindowInv
  PROVE  /\ windowStart \in Nat /\ time \in Nat /\ Limit \in Nat /\ Window \in Nat /\ Window > 0
         /\ hits \in Nat /\ alarmAt \in Nat /\ windowStart <= time /\ Window <= time
         /\ Counted \in Nat /\ Counted <= Limit /\ Len(granted) \in Nat
         /\ \A i \in 1..Len(granted) : i \in Nat /\ granted[i] \in Nat /\ granted[i] <= time
<1>1. Len(granted) \in Nat /\ \A i \in 1..Len(granted) : i \in Nat /\ granted[i] \in Nat /\ granted[i] <= time
  BY DEF WindowInv
<1> QED BY <1>1, RateLimitAssumption DEF RateTypeInv, Counted

(* One more request is allowed.                                            *)
LEMMA Grown ==
  ASSUME RateTypeInv, WindowInv, granted' = Append(granted, time)
  PROVE  /\ granted' \in Seq(Nat) /\ Len(granted') = Len(granted) + 1
         /\ \A i \in 1..Len(granted) : granted'[i] = granted[i]
         /\ granted'[Len(granted) + 1] = time
<1>1. time \in Nat /\ granted \in Seq(Nat)
  BY RateNumbers DEF WindowInv
<1> QED BY <1>1

LEMMA CheckLimits ==
  ASSUME RateTypeInv, RateTypeInv', WindowInv, LimitHolds, Check
  PROVE  WindowInv' /\ LimitHolds'
<1> DEFINE n == Len(granted)
<1>1. /\ windowStart \in Nat /\ time \in Nat /\ Limit \in Nat /\ Window \in Nat /\ Window > 0
      /\ hits \in Nat /\ alarmAt \in Nat /\ windowStart <= time /\ Window <= time
      /\ Counted \in Nat /\ Counted <= Limit /\ n \in Nat
      /\ \A i \in 1..n : i \in Nat /\ granted[i] \in Nat /\ granted[i] <= time
  BY RateNumbers
<1>2. /\ hits' = Count /\ time' = time
      /\ windowStart' = IF NewWindow THEN time ELSE windowStart
      /\ alarmAt' = IF NewWindow THEN NextAlarm ELSE alarmAt
      /\ granted' = IF Count <= Limit THEN Append(granted, time) ELSE granted
  BY DEF Check
<1>3. Count \in Nat /\ (NewWindow => Count = 1) /\ (~NewWindow => Count = IF hits <= Limit THEN hits + 1 ELSE hits)
  BY CountIs, RateLimitAssumption
<1>4. alarmAt' # 0 => alarmAt' >= windowStart' + Window
  BY <1>1, <1>2, RateLimitAssumption DEF NextAlarm, WindowInv
<1>5. ~NewWindow'
  BY <1>1, <1>2 DEF NewWindow
<1>6. \A i, j \in 1..n : j >= i + 2 * Limit => granted[j] >= granted[i] + Window
  BY DEF LimitHolds, WindowInv
<1>7. CASE Count <= Limit
  <2>1. /\ granted' \in Seq(Nat) /\ Len(granted') = n + 1
        /\ \A i \in 1..n : granted'[i] = granted[i]
        /\ granted'[n + 1] = time
    BY <1>2, <1>7, Grown
  <2>2. Counted' = Count
    BY <1>1, <1>2, <1>3, <1>7 DEF Counted
  <2>3. \A i \in 1..(n + 1) : i \in 1..n \/ i = n + 1
    BY <1>1
  <2>4. ASSUME NEW i \in 1..n, i + 2 * Limit <= n + 1 PROVE granted[i] + Window <= time
    <3>1. CASE NewWindow
      <4>1. i + Limit <= n
        BY <1>1, <1>3, <1>7, <2>4, <3>1
      <4> QED BY <2>4, <3>1, <4>1 DEF WindowInv, OverHolds
    <3>2. CASE ~NewWindow
      <4>1. Count = hits + 1 /\ Counted = hits
        BY <1>1, <1>3, <1>7, <3>2 DEF Counted
      <4>2. i + Counted <= n /\ i + Counted + Limit <= n
        BY <1>1, <1>7, <2>4, <4>1
      <4>3. granted[i] + Window <= windowStart
        BY <2>4, <3>2, <4>2 DEF WindowInv, RunningHolds
      <4> QED BY <1>1, <4>3
    <3> QED BY <3>1, <3>2
  <2>5. LimitHolds'
    <3>1. SUFFICES ASSUME NEW i \in 1..(n + 1), NEW j \in 1..(n + 1), j >= i + 2 * Limit
                   PROVE  granted'[j] >= granted'[i] + Window
      BY <2>1 DEF LimitHolds
    <3>2. CASE j \in 1..n
      <4>1. i \in 1..n
        BY <1>1, <3>1, <3>2
      <4> QED BY <1>6, <2>1, <3>1, <3>2, <4>1
    <3>3. CASE j = n + 1
      <4>1. Limit >= 1
        BY <1>1, <1>3, <1>7
      <4>2. i \in 1..n /\ i + 2 * Limit <= n + 1
        BY <1>1, <3>1, <3>3, <4>1
      <4> QED BY <1>1, <2>1, <2>4, <3>3, <4>2
    <3> QED BY <2>3, <3>2, <3>3
  <2>6. \A i \in 1..Len(granted') : granted'[i] <= time'
    BY <1>1, <1>2, <2>1, <2>3
  <2>7. RunningHolds'
    <3>1. SUFFICES ASSUME NEW i \in 1..(n + 1), i + Count <= n + 1
                   PROVE  /\ granted'[i] <= windowStart'
                          /\ i + Count + Limit <= n + 1 => granted'[i] + Window <= windowStart'
      BY <2>1, <2>2 DEF RunningHolds
    <3>2. CASE NewWindow
      <4>1. i \in 1..n /\ Count = 1 /\ windowStart' = time /\ granted'[i] = granted[i]
        BY <1>1, <1>2, <1>3, <2>1, <3>1, <3>2
      <4>2. i + Count + Limit <= n + 1 => i + Limit <= n
        BY <1>1, <4>1
      <4> QED BY <1>1, <3>2, <4>1, <4>2 DEF WindowInv, OverHolds
    <3>3. CASE ~NewWindow
      <4>1. Count = hits + 1 /\ Counted = hits /\ windowStart' = windowStart
        BY <1>1, <1>2, <1>3, <1>7, <3>3 DEF Counted
      <4>2. i \in 1..n /\ granted'[i] = granted[i] /\ i + Counted <= n
        BY <1>1, <2>1, <3>1, <4>1
      <4>3. i + Count + Limit <= n + 1 => i + Counted + Limit <= n
        BY <1>1, <4>1, <4>2
      <4> QED BY <3>3, <4>1, <4>2, <4>3 DEF WindowInv, RunningHolds
    <3> QED BY <3>2, <3>3
  <2> QED BY <1>4, <1>5, <2>1, <2>5, <2>6, <2>7 DEF WindowInv
<1>8. CASE ~(Count <= Limit)
  <2>1. granted' = granted /\ Counted' = Limit
    BY <1>1, <1>2, <1>3, <1>8 DEF Counted
  <2>2. RunningHolds'
    <3>1. SUFFICES ASSUME NEW i \in 1..n, i + Limit <= n
                   PROVE  /\ granted[i] <= windowStart'
                          /\ i + Limit + Limit <= n => granted[i] + Window <= windowStart'
      BY <2>1 DEF RunningHolds
    <3>2. CASE NewWindow
      BY <1>1, <1>2, <3>1, <3>2 DEF WindowInv, OverHolds
    <3>3. CASE ~NewWindow
      <4>1. Counted = Limit /\ windowStart' = windowStart
        BY <1>1, <1>2, <1>3, <1>8, <3>3 DEF Counted
      <4> QED BY <3>1, <3>3, <4>1 DEF WindowInv, RunningHolds
    <3> QED BY <3>2, <3>3
  <2>3. LimitHolds'
    BY <2>1 DEF LimitHolds
  <2> QED BY <1>2, <1>4, <1>5, <2>1, <2>2, <2>3 DEF WindowInv
<1> QED BY <1>7, <1>8

LEMMA StepWindows ==
  ASSUME RateTypeInv, RateTypeInv', WindowInv, LimitHolds, [RateLimitNext]_rateLimitVars
  PROVE  WindowInv' /\ LimitHolds'
<1>1. /\ windowStart \in Nat /\ time \in Nat /\ Limit \in Nat /\ Window \in Nat /\ Window > 0
      /\ hits \in Nat /\ alarmAt \in Nat /\ windowStart <= time /\ Window <= time
      /\ Counted \in Nat /\ Counted <= Limit /\ Len(granted) \in Nat
      /\ \A i \in 1..Len(granted) : i \in Nat /\ granted[i] \in Nat /\ granted[i] <= time
  BY RateNumbers
<1>2. CASE Reset
  <2>1. windowStart' = 0 /\ time' = time /\ granted' = << >> /\ alarmAt' \in {0, alarmAt}
    BY <1>2 DEF Reset, Cleared
  <2>2. granted' \in Seq(Nat) /\ Len(granted') = 0 /\ DOMAIN granted' = {}
    BY <2>1
  <2>3. alarmAt' # 0 => alarmAt' >= windowStart' + Window
    BY <1>1, <2>1 DEF WindowInv
  <2> QED BY <1>1, <2>1, <2>2, <2>3 DEF WindowInv, LimitHolds, NewWindow, OverHolds
<1>3. CASE RateAlarm
  <2>1. /\ windowStart' = 0 /\ alarmAt' = 0 /\ UNCHANGED <<time, granted>>
        /\ alarmAt # 0 /\ time >= alarmAt
    BY <1>3 DEF RateAlarm, Cleared
  <2>2. NewWindow /\ NewWindow'
    BY <1>1, <2>1 DEF WindowInv, NewWindow
  <2> QED BY <2>1, <2>2 DEF WindowInv, LimitHolds, OverHolds
<1>4. CASE Passes
  <2>1. time' = time + 1 /\ UNCHANGED <<windowStart, hits, alarmAt, granted>>
    BY <1>4 DEF Passes
  <2>2. \A i \in 1..Len(granted) : granted[i] <= time'
    BY <1>1, <2>1
  <2>3. CASE NewWindow
    <3>1. NewWindow' /\ OverHolds
      BY <1>1, <2>1, <2>3 DEF NewWindow, WindowInv
    <3>2. OverHolds'
      BY <1>1, <2>1, <3>1 DEF OverHolds
    <3> QED BY <2>1, <2>2, <3>1, <3>2 DEF WindowInv, LimitHolds
  <2>4. CASE ~NewWindow /\ ~NewWindow'
    <3>1. RunningHolds' = RunningHolds
      BY <2>1 DEF RunningHolds, Counted
    <3> QED BY <2>1, <2>2, <2>4, <3>1 DEF WindowInv, LimitHolds
  <2>5. CASE ~NewWindow /\ NewWindow'
    <3>1. windowStart + Window <= time'
      BY <1>1, <2>1, <2>5 DEF NewWindow
    <3>2. ASSUME NEW i \in 1..Len(granted), i + Limit <= Len(granted) PROVE granted[i] + Window <= time'
      <4>1. i + Counted <= Len(granted)
        BY <1>1, <3>2
      <4>2. granted[i] <= windowStart
        BY <2>5, <3>2, <4>1 DEF WindowInv, RunningHolds
      <4> QED BY <1>1, <2>1, <3>1, <4>2
    <3>3. OverHolds'
      BY <2>1, <3>2 DEF OverHolds
    <3> QED BY <2>1, <2>2, <2>5, <3>3 DEF WindowInv, LimitHolds
  <2> QED BY <2>3, <2>4, <2>5
<1>5. CASE UNCHANGED rateLimitVars
  BY <1>5 DEF rateLimitVars, WindowInv, LimitHolds, NewWindow, OverHolds, RunningHolds, Counted
<1> QED BY <1>2, <1>3, <1>4, <1>5, CheckLimits DEF RateLimitNext

(* Fixed windows (RateLimitDO.check) admit bursts across a boundary, but no *)
(* stretch of time as long as a window sees more than twice the limit,      *)
(* whatever late or kept alarms wipe.                                       *)
THEOREM TwiceTheLimitAtMost == RateLimitSpec => []LimitHolds
<1>1. RateLimitInit => WindowInv /\ LimitHolds
  <2>1. ASSUME RateLimitInit PROVE granted \in Seq(Nat) /\ Len(granted) = 0 /\ DOMAIN granted = {}
    BY <2>1 DEF RateLimitInit
  <2>2. ASSUME RateLimitInit PROVE NewWindow /\ alarmAt = 0
    BY <2>2, RateLimitAssumption DEF RateLimitInit, NewWindow
  <2> QED BY <2>1, <2>2 DEF WindowInv, LimitHolds, OverHolds
<1>2. RateTypeInv /\ RateTypeInv' /\ WindowInv /\ LimitHolds /\ [RateLimitNext]_rateLimitVars
        => (WindowInv /\ LimitHolds)'
  BY StepWindows
<1> QED BY <1>1, <1>2, RateInvariant, PTL DEF RateLimitSpec

-----------------------------------------------------------------------------
(* The queues.                                                             *)

Messages == Events \cup Mails

DeliveryTypeInv ==
  /\ told \subseteq Messages /\ queue \in [Messages -> 0 .. Absent] /\ dead \subseteq Messages
  /\ auditRows \subseteq Events \ Malformed /\ batch \in [Consumers -> SUBSET Messages]

(* Where a message is that its producer takes for safe.                    *)
Kept(x) == queue[x] # Absent \/ x \in dead \/ x \in auditRows \/ x \in expired

(* A message is kept or sent, and an e-mail is sent under its own id.       *)
KeptInv ==
  /\ \A x \in told : Kept(x) \/ <<x, Key(x)>> \in posted
  /\ \A p \in posted : p = <<p[1], Key(p[1])>>

LEMMA KeptImplies ==
  ASSUME DeliveryTypeInv, KeptInv
  PROVE  NothingLostNorRepeated
<1>1. ASSUME NEW x \in told PROVE x \in Queued \cup dead \cup auditRows \cup expired \/ Mailed(x)
  <2>1. x \in Messages
    BY DEF DeliveryTypeInv
  <2>2. CASE Kept(x)
    BY <2>1, <2>2 DEF Kept, Queued, Messages
  <2>3. CASE <<x, Key(x)>> \in posted
    <3>1. <<x, Key(x)>>[2] = Key(x)
      OBVIOUS
    <3>2. Key(x) \in {pair[2] : pair \in posted}
      BY <2>3, <3>1
    <3> QED BY <2>3, <3>2 DEF Mailed
  <2> QED BY <2>2, <2>3 DEF KeptInv
<1>2. \A p, q \in posted : p[1] = q[1] => p = q
  BY DEF KeptInv
<1> QED BY <1>1, <1>2 DEF NothingLostNorRepeated

LEMMA AbsentIs == Absent \in Nat /\ Absent = MaxRetries + 1 /\ MaxRetries \in Nat
                  /\ 0 # Absent
BY DeliveryAssumption DEF Absent

(* A consumer returns: the batch leaves the queue.                         *)
LEMMA Acknowledges ==
  ASSUME DeliveryTypeInv, NEW k \in Consumers, Acknowledged(k)
  PROVE  /\ queue' \in [Messages -> 0 .. Absent] /\ dead' = dead
         /\ batch' \in [Consumers -> SUBSET Messages]
         /\ \A x \in Messages \ batch[k] : queue'[x] = queue[x]
BY AbsentIs DEF Acknowledged, DeliveryTypeInv

(* A consumer throws: no message leaves the queue but for the dead letters. *)
LEMMA Fails ==
  ASSUME DeliveryTypeInv, NEW k \in Consumers, Failed(k)
  PROVE  /\ queue' \in [Messages -> 0 .. Absent] /\ dead' \subseteq Messages
         /\ batch' \in [Consumers -> SUBSET Messages]
         /\ dead \subseteq dead'
         /\ \A x \in Messages : queue[x] # Absent => queue'[x] # Absent \/ x \in dead'
<1>1. queue \in [Messages -> 0 .. Absent] /\ DOMAIN queue = Messages
      /\ batch[k] \subseteq Messages /\ dead \subseteq Messages
  BY DEF DeliveryTypeInv
<1>2. \A x \in Messages : queue[x] \in Nat /\ queue[x] <= MaxRetries + 1
  BY <1>1, AbsentIs
<1>3. \A x \in Messages :
        queue'[x] = IF x \in batch[k] /\ queue[x] # Absent THEN queue[x] + 1 ELSE queue[x]
  BY <1>1 DEF Failed
<1>4. queue' \in [Messages -> 0 .. Absent]
  <2>1. ASSUME NEW x \in Messages
        PROVE  (IF x \in batch[k] /\ queue[x] # Absent THEN queue[x] + 1 ELSE queue[x])
                 \in 0 .. Absent
    BY <1>1, <1>2, AbsentIs
  <2>2. queue' = [x \in Messages |->
                    IF x \in batch[k] /\ queue[x] # Absent THEN queue[x] + 1 ELSE queue[x]]
    BY <1>1 DEF Failed
  <2> QED BY <2>1, <2>2
<1>5. dead' = dead \cup {x \in batch[k] : queue[x] = MaxRetries}
      /\ batch' \in [Consumers -> SUBSET Messages]
  BY DEF Failed, DeliveryTypeInv
<1>6. ASSUME NEW x \in Messages, queue[x] # Absent PROVE queue'[x] # Absent \/ x \in dead'
  <2>1. CASE x \in batch[k] /\ queue[x] = MaxRetries
    BY <1>5, <2>1
  <2>2. CASE x \in batch[k] /\ queue[x] # MaxRetries
    BY <1>2, <1>3, <1>6, <2>2, AbsentIs
  <2>3. CASE x \notin batch[k]
    BY <1>3, <1>6, <2>3
  <2> QED BY <2>1, <2>2, <2>3
<1> QED BY <1>1, <1>4, <1>5, <1>6

(* What is kept stays kept in a step that forgets nothing.                 *)
LEMMA KeptStays ==
  ASSUME DeliveryTypeInv, KeptInv, told' = told, posted \subseteq posted',
         \A p \in posted' \ posted : p = <<p[1], Key(p[1])>>,
         \A x \in told : Kept(x) => Kept(x)' \/ <<x, Key(x)>> \in posted'
  PROVE  KeptInv'
<1>1. \A x : Key(x)' = Key(x)
  BY DEF Key
<1> QED BY <1>1 DEF KeptInv

LEMMA StoreKeeps ==
  ASSUME DeliveryTypeInv, KeptInv, NEW k \in Consumers, StoreBatch(k)
  PROVE  DeliveryTypeInv' /\ KeptInv'
<1>1. /\ Acknowledged(k) /\ auditRows' = auditRows \cup batch[k]
      /\ batch[k] \subseteq Events \ Malformed
      /\ UNCHANGED <<told, expired, posted>>
  BY DEF StoreBatch
<1>2. /\ queue' \in [Messages -> 0 .. Absent] /\ dead' = dead
      /\ batch' \in [Consumers -> SUBSET Messages]
      /\ \A x \in Messages \ batch[k] : queue'[x] = queue[x]
  BY <1>1, Acknowledges
<1>3. DeliveryTypeInv'
  BY <1>1, <1>2 DEF DeliveryTypeInv
<1>4. ASSUME NEW x \in told, Kept(x) PROVE Kept(x)'
  BY <1>1, <1>2, <1>4 DEF Kept, DeliveryTypeInv
<1>5. KeptInv'
  BY <1>1, <1>4, KeptStays
<1> QED BY <1>3, <1>5

LEMMA StoreFailKeeps ==
  ASSUME DeliveryTypeInv, KeptInv, NEW k \in Consumers, NEW committed \in BOOLEAN,
         StoreBatchFails(k, committed)
  PROVE  DeliveryTypeInv' /\ KeptInv'
<1>1. /\ Failed(k) /\ auditRows \subseteq auditRows'
      /\ UNCHANGED <<told, expired, posted>>
  BY DEF StoreBatchFails, StoreFailed
<1>2. auditRows' \subseteq Events \ Malformed
  BY DEF StoreBatchFails, DeliveryTypeInv
<1>3. /\ queue' \in [Messages -> 0 .. Absent] /\ dead' \subseteq Messages
      /\ batch' \in [Consumers -> SUBSET Messages]
      /\ dead \subseteq dead'
      /\ \A x \in Messages : queue[x] # Absent => queue'[x] # Absent \/ x \in dead'
  BY <1>1, Fails
<1>4. DeliveryTypeInv'
  BY <1>1, <1>2, <1>3 DEF DeliveryTypeInv
<1>5. ASSUME NEW x \in told, Kept(x) PROVE Kept(x)'
  BY <1>1, <1>3, <1>5 DEF Kept, DeliveryTypeInv
<1>6. KeptInv'
  BY <1>1, <1>5, KeptStays
<1> QED BY <1>4, <1>6

LEMMA SendKeeps ==
  ASSUME DeliveryTypeInv, KeptInv, NEW k \in Consumers,
         SendBatch(k) \/ \E taken \in SUBSET Mails : SendBatchFails(k, taken)
  PROVE  DeliveryTypeInv' /\ KeptInv'
<1>1. PICK taken :
        /\ posted' = posted \cup {<<x, Key(x)>> : x \in taken}
        /\ (taken = batch[k] /\ Acknowledged(k)) \/ Failed(k)
        /\ UNCHANGED <<told, auditRows, expired>>
  BY DEF SendBatch, SendBatchFails
<1>2. \A p \in posted' \ posted : p = <<p[1], Key(p[1])>>
  BY <1>1
<1>3. CASE taken = batch[k] /\ Acknowledged(k)
  <2>1. /\ queue' \in [Messages -> 0 .. Absent] /\ dead' = dead
        /\ batch' \in [Consumers -> SUBSET Messages]
        /\ \A x \in Messages \ batch[k] : queue'[x] = queue[x]
    BY <1>1, <1>3, Acknowledges
  <2>2. DeliveryTypeInv'
    BY <1>1, <2>1 DEF DeliveryTypeInv
  <2>3. ASSUME NEW x \in told, Kept(x) PROVE Kept(x)' \/ <<x, Key(x)>> \in posted'
    <3>1. CASE x \in batch[k]
      BY <1>1, <1>3, <3>1
    <3>2. CASE x \notin batch[k]
      BY <1>1, <2>1, <2>3, <3>2 DEF Kept, DeliveryTypeInv
    <3> QED BY <3>1, <3>2
  <2>4. KeptInv'
    BY <1>1, <1>2, <2>3, KeptStays
  <2> QED BY <2>2, <2>4
<1>4. CASE Failed(k)
  <2>1. /\ queue' \in [Messages -> 0 .. Absent] /\ dead' \subseteq Messages
        /\ batch' \in [Consumers -> SUBSET Messages]
        /\ dead \subseteq dead'
        /\ \A x \in Messages : queue[x] # Absent => queue'[x] # Absent \/ x \in dead'
    BY <1>1, <1>4, Fails
  <2>2. DeliveryTypeInv'
    BY <1>1, <2>1 DEF DeliveryTypeInv
  <2>3. ASSUME NEW x \in told, Kept(x) PROVE Kept(x)'
    BY <1>1, <2>1, <2>3 DEF Kept, DeliveryTypeInv
  <2>4. KeptInv'
    BY <1>1, <1>2, <2>3, KeptStays
  <2> QED BY <2>2, <2>4
<1> QED BY <1>1, <1>3, <1>4

(* A producer is told that its message is safe.                            *)
LEMMA TellKeeps ==
  ASSUME DeliveryTypeInv, KeptInv, NEW x \in Messages,
         Enqueue(x) \/ \E sent \in BOOLEAN : x \in Events /\ RecordDirectly(x, sent)
  PROVE  DeliveryTypeInv' /\ KeptInv'
<1>1. /\ told' = told \cup {x} /\ UNCHANGED <<dead, expired, posted, batch>>
      /\ auditRows \subseteq auditRows' /\ auditRows' \subseteq Events \ Malformed
      /\ queue' \in {queue, [queue EXCEPT ![x] = 0]}
      /\ queue' = [queue EXCEPT ![x] = 0] \/ x \in auditRows'
  BY DEF Enqueue, RecordDirectly, Fallback, DeliveryTypeInv
<1>2. queue' \in [Messages -> 0 .. Absent] /\ \A y \in Messages \ {x} : queue'[y] = queue[y]
  BY <1>1, AbsentIs DEF DeliveryTypeInv
<1>3. queue'[x] # Absent \/ x \in auditRows'
  BY <1>1, AbsentIs DEF DeliveryTypeInv
<1>4. DeliveryTypeInv'
  BY <1>1, <1>2 DEF DeliveryTypeInv
<1>5. ASSUME NEW y \in told' PROVE Kept(y)' \/ <<y, Key(y)>> \in posted
  <2>1. CASE y = x
    BY <1>3, <2>1 DEF Kept
  <2>2. CASE y # x
    BY <1>1, <1>2, <2>2 DEF Kept, KeptInv, DeliveryTypeInv
  <2> QED BY <2>1, <2>2
<1>6. KeptInv'
  <2>1. \A y : Key(y)' = Key(y)
    BY DEF Key
  <2> QED BY <1>1, <1>5, <2>1 DEF KeptInv
<1> QED BY <1>4, <1>6

LEMMA StepDelivery ==
  ASSUME DeliveryTypeInv, KeptInv, [DeliveryNext]_deliveryVars
  PROVE  DeliveryTypeInv' /\ KeptInv'
<1>1. ASSUME NEW x \in Messages, Replay(x) PROVE DeliveryTypeInv' /\ KeptInv'
  <2>1. /\ dead' = dead \ {x} /\ queue' = [queue EXCEPT ![x] = 0]
        /\ UNCHANGED <<told, auditRows, expired, posted, batch>>
    BY <1>1 DEF Replay
  <2>2. /\ queue' \in [Messages -> 0 .. Absent] /\ queue'[x] # Absent
        /\ \A y \in Messages \ {x} : queue'[y] = queue[y]
    BY <2>1, AbsentIs DEF DeliveryTypeInv
  <2>3. DeliveryTypeInv'
    BY <2>1, <2>2 DEF DeliveryTypeInv
  <2>4. ASSUME NEW y \in told, Kept(y) PROVE Kept(y)'
    BY <2>1, <2>2, <2>4 DEF Kept, DeliveryTypeInv
  <2> QED BY <2>1, <2>3, <2>4, KeptStays
<1>2. ASSUME NEW e \in Events, Expire(e) PROVE DeliveryTypeInv' /\ KeptInv'
  <2>1. /\ expired' = expired \cup {e}
        /\ UNCHANGED <<told, queue, dead, auditRows, posted, batch>>
    BY <1>2 DEF Expire
  <2>2. DeliveryTypeInv'
    BY <2>1 DEF DeliveryTypeInv
  <2>3. \A y \in told : Kept(y) => Kept(y)'
    BY <2>1 DEF Kept
  <2> QED BY <2>1, <2>2, <2>3, KeptStays
<1>3. ASSUME NEW rows \in SUBSET Events, DeleteExpired(rows) PROVE DeliveryTypeInv' /\ KeptInv'
  <2>1. /\ auditRows' = auditRows \ rows /\ rows \subseteq expired
        /\ UNCHANGED <<told, queue, dead, expired, posted, batch>>
    BY <1>3 DEF DeleteExpired
  <2>2. DeliveryTypeInv'
    BY <2>1 DEF DeliveryTypeInv
  <2>3. \A y \in told : Kept(y) => Kept(y)'
    BY <2>1 DEF Kept
  <2> QED BY <2>1, <2>2, <2>3, KeptStays
<1>4. ASSUME NEW k \in Consumers, NEW messages \in SUBSET Messages, TakeBatch(k, messages)
      PROVE  DeliveryTypeInv' /\ KeptInv'
  <2>1. /\ batch' \in [Consumers -> SUBSET Messages]
        /\ UNCHANGED <<told, queue, dead, auditRows, expired, posted>>
    BY <1>4 DEF TakeBatch, DeliveryTypeInv
  <2>2. DeliveryTypeInv'
    BY <2>1 DEF DeliveryTypeInv
  <2>3. \A y \in told : Kept(y) => Kept(y)'
    BY <2>1 DEF Kept
  <2> QED BY <2>1, <2>2, <2>3, KeptStays
<1>5. CASE UNCHANGED deliveryVars
  <2>1. UNCHANGED <<told, queue, dead, auditRows, expired, posted, batch>>
    BY <1>5 DEF deliveryVars
  <2>2. DeliveryTypeInv'
    BY <2>1 DEF DeliveryTypeInv
  <2>3. \A y \in told : Kept(y) => Kept(y)'
    BY <2>1 DEF Kept
  <2> QED BY <2>1, <2>2, <2>3, KeptStays
<1>6. Messages = Events \cup Mails /\ Events \subseteq Messages
  BY DEF Messages
<1>7. ASSUME NEW k \in Consumers, Consume(k) PROVE DeliveryTypeInv' /\ KeptInv'
  BY <1>4, <1>6, <1>7, StoreKeeps, StoreFailKeeps, SendKeeps DEF Consume
<1> QED BY <1>1, <1>2, <1>3, <1>5, <1>6, <1>7, TellKeeps DEF DeliveryNext

LEMMA DeliveryInvariant == DeliverySpec => [](DeliveryTypeInv /\ KeptInv)
<1>1. DeliveryInit => DeliveryTypeInv /\ KeptInv
  <2> SUFFICES ASSUME DeliveryInit PROVE DeliveryTypeInv /\ KeptInv
    OBVIOUS
  <2>1. DeliveryTypeInv
    BY AbsentIs DEF DeliveryInit, DeliveryTypeInv, Messages
  <2>2. KeptInv
    BY DEF DeliveryInit, KeptInv
  <2> QED BY <2>1, <2>2
<1>2. DeliveryTypeInv /\ KeptInv /\ [DeliveryNext]_deliveryVars => (DeliveryTypeInv /\ KeptInv)'
  BY StepDelivery
<1> QED BY <1>1, <1>2, PTL DEF DeliverySpec

(* The queues, the dead letters, the rows and the batches keep their types; *)
(* no event that does not parse gets into audit_logs.                       *)
THEOREM QueuesTyped == DeliverySpec => []DeliveryTypeOK
<1>1. DeliveryTypeInv => DeliveryTypeOK
  <2> SUFFICES ASSUME DeliveryTypeInv PROVE DeliveryTypeOK
    OBVIOUS
  <2>1. DOMAIN queue = Messages /\ Messages = Events \cup Mails
    BY DEF DeliveryTypeInv, Messages
  <2> QED BY <2>1 DEF DeliveryTypeInv, DeliveryTypeOK
<1> QED BY <1>1, DeliveryInvariant, PTL

(* Whatever fails and however batches overlap, a message whose producer was *)
(* told that it is safe (recordAudit, enqueueEmail) is stored, sent, queued *)
(* or dead-lettered until its retention is over, and the provider sees one  *)
(* idempotency key for an e-mail (deliverQueuedEmail).                      *)
THEOREM NothingLost == DeliverySpec => []NothingLostNorRepeated
BY DeliveryInvariant, KeptImplies, PTL
=============================================================================
