------------------------------ MODULE RateLimit ------------------------------
(***************************************************************************)
(* The object that counts requests for one key in fixed windows             *)
(* (RateLimitDO), asked by checkRateLimit and reset by a successful login   *)
(* or an operator.  Its input gate runs one call at a time.  The clock      *)
(* starts late enough for the epoch to be in the past.                      *)
(***************************************************************************)
EXTENDS Naturals, Sequences, FiniteSetsExt

CONSTANTS
  Limit, Window,     \* of checkRateLimit
  AlarmGrace,        \* how long after a window the alarm is set
  MaxTime            \* bound on the clock

ASSUME RateLimitAssumption ==
  /\ Limit \in Nat /\ Window \in Nat \ {0} /\ AlarmGrace \in Nat
  /\ MaxTime \in Nat /\ Window <= MaxTime

VARIABLES
  windowStart, hits, \* storage: windowStart, count
  alarmAt,           \* the alarm of the object, 0 for none
  time,
  granted,           \* when requests were allowed, since the last reset
  notices,           \* denials announced since the last window or reset
  retryAt            \* when the last request that was denied may come again, 0 for none

rateLimitVars == <<windowStart, hits, alarmAt, time, granted, notices, retryAt>>

RateLimitInit ==
  /\ windowStart = 0 /\ hits = 0 /\ alarmAt = 0 /\ time = Window
  /\ granted = << >> /\ notices = 0 /\ retryAt = 0

NewWindow == time - windowStart >= Window

(* Slip: the alarm of the window before is kept.                           *)
AlarmOnce == IF alarmAt = 0 THEN time + Window + AlarmGrace ELSE alarmAt

NextAlarm == time + Window + AlarmGrace

(* Saturating, so that a denied key is not written to again.               *)
Count == IF NewWindow THEN 1 ELSE Min({hits + 1, Limit + 1})

(* Slip: every denial is the first one.                                    *)
AnyDenied == Count > Limit

FirstDenied == Count > Limit /\ (NewWindow \/ hits <= Limit)

Check ==
  /\ hits' = Count
  /\ windowStart' = IF NewWindow THEN time ELSE windowStart
  /\ alarmAt' = IF NewWindow THEN NextAlarm ELSE alarmAt
  /\ granted' = IF Count <= Limit THEN Append(granted, time) ELSE granted
  /\ notices' = (IF NewWindow THEN 0 ELSE notices) + (IF FirstDenied THEN 1 ELSE 0)
  /\ retryAt' = IF Count <= Limit THEN 0 ELSE windowStart' + Window
  /\ UNCHANGED time

(* deleteAll may or may not take the alarm with it.                        *)
Cleared ==
  /\ windowStart' = 0 /\ hits' = 0 /\ notices' = 0 /\ retryAt' = 0

Reset ==
  /\ Cleared /\ alarmAt' \in {0, alarmAt} /\ granted' = << >>
  /\ UNCHANGED time

(* The alarm comes at its time or later.                                   *)
RateAlarm ==
  /\ alarmAt # 0 /\ time >= alarmAt /\ Cleared /\ alarmAt' = 0
  /\ UNCHANGED <<time, granted>>

Passes ==
  /\ time < MaxTime /\ time' = time + 1
  /\ UNCHANGED <<windowStart, hits, alarmAt, granted, notices, retryAt>>

RateLimitNext == Check \/ Reset \/ RateAlarm \/ Passes
RateLimitSpec == RateLimitInit /\ [][RateLimitNext]_rateLimitVars

-----------------------------------------------------------------------------
(* The variables have their types.                                         *)
RateLimitTypeOK ==
  /\ windowStart \in 0..MaxTime /\ hits \in 0..(Limit + 1) /\ alarmAt \in Nat /\ time \in Window..MaxTime

(* However windows end, alarms come late and new windows begin, any stretch *)
(* of time as long as a window sees no more than two windows' worth of      *)
(* requests allowed, unless the counter was reset: a request and the one    *)
(* that many later are at least a window apart.                            *)
LimitHolds ==
  \A i, j \in DOMAIN granted : j >= i + 2 * Limit => granted[j] >= granted[i] + Window

(* A window in which requests are denied is announced to the audit log once *)
(* (shouldAuditRateLimit), however many are, and whoever waits as long as   *)
(* retry-after says finds a new window.                                    *)
DenialsHold ==
  /\ notices = (IF hits > Limit THEN 1 ELSE 0)
  /\ retryAt # 0 /\ time >= retryAt => NewWindow
=============================================================================
