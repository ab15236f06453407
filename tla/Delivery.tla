------------------------------ MODULE Delivery ------------------------------
(***************************************************************************)
(* The two queues: audit events on their way to D1, and e-mails on their    *)
(* way to the provider.  A queue delivers a message at least once, in       *)
(* batches, until the consumer returns for a batch that holds it; a batch   *)
(* that fails is tried again as a whole, and a message that has failed too  *)
(* often goes to the dead-letter queue.  Sanitising and the contents of     *)
(* messages are left out; some messages do not parse.                       *)
(***************************************************************************)
EXTENDS Naturals, FiniteSets

CONSTANTS
  Events, Mails,        \* audit events and e-mails, by their ids
  Malformed,            \* those that do not parse
  Consumers,            \* concurrent invocations of the consumer
  MaxRetries,           \* max_retries of both queues
  DeleteBatch,          \* maintenanceBatchSize times the batches of a run
  MaxReplays            \* bound on replays from a dead-letter queue

ASSUME DeliveryAssumption ==
  /\ Events \cap Mails = {} /\ Malformed \subseteq Events \cup Mails
  /\ MaxRetries \in Nat /\ DeleteBatch \in Nat \ {0} /\ MaxReplays \in Nat

VARIABLES
  told,       \* the messages whose producer was told that they are safe
  queue,      \* how often each message in a queue has failed; Absent for none
  dead,       \* the dead-letter queues
  auditRows,  \* audit_logs
  expired,    \* the events that are older than the retention
  posted,     \* what the provider took: <<e-mail, idempotency key>>
  batch,      \* the batch each consumer is at
  replays

deliveryVars == <<told, queue, dead, auditRows, expired, posted, batch, replays>>

Absent == MaxRetries + 1
Queued == {x \in Events \cup Mails : queue[x] # Absent}

DeliveryInit ==
  /\ told = {} /\ queue = [x \in Events \cup Mails |-> Absent] /\ dead = {} /\ auditRows = {}
  /\ expired = {} /\ posted = {} /\ batch = [k \in Consumers |-> {}] /\ replays = 0

Fresh(x) == x \notin told /\ x \notin Queued /\ x \notin dead /\ x \notin auditRows

-----------------------------------------------------------------------------
(* recordAudit and enqueueEmail.                                           *)

Enqueue(x) ==
  /\ Fresh(x) /\ queue' = [queue EXCEPT ![x] = 0] /\ told' = told \cup {x}
  /\ UNCHANGED <<dead, auditRows, expired, posted, batch, replays>>

(* Slip: an event that could not be sent is dropped.                       *)
Dropped(e) == auditRows

(* The queue is unavailable, or seems to be: the event is written to D1 at  *)
(* once.                                                                   *)
Fallback(e) == auditRows \cup {e}

RecordDirectly(e, sent) ==
  /\ Fresh(e) /\ e \notin Malformed /\ auditRows' = Fallback(e) /\ told' = told \cup {e}
  /\ queue' = IF sent THEN [queue EXCEPT ![e] = 0] ELSE queue
  /\ UNCHANGED <<dead, expired, posted, batch, replays>>

-----------------------------------------------------------------------------
(* The consumer.  One queue's messages never mix with the other's, but one  *)
(* message may be handed out twice.                                        *)

TakeBatch(k, messages) ==
  /\ batch[k] = {} /\ messages # {} /\ messages \subseteq Queued
  /\ messages \subseteq Events \/ messages \subseteq Mails
  /\ batch' = [batch EXCEPT ![k] = messages]
  /\ UNCHANGED <<told, queue, dead, auditRows, expired, posted, replays>>

Acknowledged(k) ==
  /\ queue' = [x \in DOMAIN queue |-> IF x \in batch[k] THEN Absent ELSE queue[x]]
  /\ dead' = dead /\ batch' = [batch EXCEPT ![k] = {}]

(* The handler threw, or died: every message of the batch has failed once   *)
(* more.                                                                   *)
Failed(k) ==
  /\ queue' = [x \in DOMAIN queue |->
                IF x \in batch[k] /\ queue[x] # Absent THEN queue[x] + 1 ELSE queue[x]]
  /\ dead' = dead \cup {x \in batch[k] : queue[x] = MaxRetries}
  /\ batch' = [batch EXCEPT ![k] = {}]

(* Slip: a failure to store is logged and the batch is done.               *)
AcknowledgedAnyway(k) == Acknowledged(k)

StoreFailed(k) == Failed(k)

(* insertAuditBatch: INSERT OR IGNORE, all or nothing.                      *)
StoreBatch(k) ==
  /\ batch[k] # {} /\ batch[k] \subseteq Events \ Malformed
  /\ auditRows' = auditRows \cup batch[k] /\ Acknowledged(k)
  /\ UNCHANGED <<told, expired, posted, replays>>

StoreBatchFails(k, committed) ==
  /\ batch[k] # {} /\ batch[k] \subseteq Events /\ (committed => batch[k] \cap Malformed = {})
  /\ auditRows' = (IF committed THEN auditRows \cup batch[k] ELSE auditRows) /\ StoreFailed(k)
  /\ UNCHANGED <<told, expired, posted, replays>>

(* deliverQueuedEmail gives the id of the message as idempotency key.       *)
Key(x) == <<x, 0>>

(* The e-mails of a batch go out in parallel; the batch is done when all    *)
(* have been taken.                                                        *)
SendBatch(k) ==
  /\ batch[k] # {} /\ batch[k] \subseteq Mails \ Malformed
  /\ posted' = posted \cup {<<x, Key(x)>> : x \in batch[k]} /\ Acknowledged(k)
  /\ UNCHANGED <<told, auditRows, expired, replays>>

(* The provider refused some, its answer came too late, or the consumer was *)
(* cut off; it may have taken any of them by then, or all.                  *)
SendBatchFails(k, taken) ==
  /\ batch[k] # {} /\ batch[k] \subseteq Mails /\ taken \subseteq batch[k] \ Malformed
  /\ posted' = posted \cup {<<x, Key(x)>> : x \in taken} /\ Failed(k)
  /\ UNCHANGED <<told, auditRows, expired, replays>>

-----------------------------------------------------------------------------
(* The runbook: messages are sent again from a dead-letter queue.           *)
Replay(x) ==
  /\ x \in dead /\ replays < MaxReplays /\ replays' = replays + 1
  /\ dead' = dead \ {x} /\ queue' = [queue EXCEPT ![x] = 0]
  /\ UNCHANGED <<told, auditRows, expired, posted, batch>>

(* deleteExpiredAuditLogs: the oldest rows past the retention, so many.     *)
Expire(e) ==
  /\ e \in told \ expired /\ expired' = expired \cup {e}
  /\ UNCHANGED <<told, queue, dead, auditRows, posted, batch, replays>>

DeleteExpired(rows) ==
  /\ rows # {} /\ rows \subseteq auditRows \cap expired
  /\ \/ Cardinality(rows) = DeleteBatch
     \/ Cardinality(rows) < DeleteBatch /\ rows = auditRows \cap expired
  /\ auditRows' = auditRows \ rows
  /\ UNCHANGED <<told, queue, dead, expired, posted, batch, replays>>

-----------------------------------------------------------------------------
Consume(k) ==
  \/ \E messages \in SUBSET (Events \cup Mails) : TakeBatch(k, messages)
  \/ StoreBatch(k) \/ (\E committed \in BOOLEAN : StoreBatchFails(k, committed))
  \/ SendBatch(k) \/ (\E taken \in SUBSET Mails : SendBatchFails(k, taken))

DeliveryNext ==
  \/ \E x \in Events \cup Mails : Enqueue(x) \/ Replay(x)
  \/ \E e \in Events : Expire(e) \/ \E sent \in BOOLEAN : RecordDirectly(e, sent)
  \/ \E k \in Consumers : Consume(k)
  \/ \E rows \in SUBSET Events : DeleteExpired(rows)

(* The platform hands out messages, in the end every one, and runs the      *)
(* consumer until it returns, throws or is cut off.                        *)
DeliveryFairness ==
  /\ \A k \in Consumers : WF_deliveryVars(Consume(k))
  /\ \A x \in Events \cup Mails, k \in Consumers :
       SF_deliveryVars(\E messages \in SUBSET (Events \cup Mails) : x \in messages /\ TakeBatch(k, messages))

DeliverySpec == DeliveryInit /\ [][DeliveryNext]_deliveryVars /\ DeliveryFairness

-----------------------------------------------------------------------------
(* The variables have their types.                                         *)
DeliveryTypeOK ==
  /\ told \subseteq Events \cup Mails /\ queue \in [Events \cup Mails -> 0..Absent] /\ dead \subseteq DOMAIN queue
  /\ auditRows \subseteq Events \ Malformed /\ \A k \in Consumers : batch[k] \subseteq DOMAIN queue

Mailed(x) == \E key \in {pair[2] : pair \in posted} : <<x, key>> \in posted

(* security/audit.ts: an event that was recorded is never lost silently.    *)
(* Whatever fails, it is in D1, in the queue or in the dead-letter queue    *)
(* until its retention is over; and so is an e-mail until it is sent.       *)
(* email/sender.ts, "a stable, idempotent job": however its batch fails,    *)
(* the provider sees one idempotency key for an e-mail.                     *)
NothingLostNorRepeated ==
  /\ \A x \in told : x \in Queued \cup dead \cup auditRows \cup expired \/ Mailed(x)
  /\ \A p, q \in posted : p[1] = q[1] => p = q

(* Every event and every e-mail that was accepted is stored, sent or dead-  *)
(* lettered in the end.                                                    *)
EventuallySettled ==
  \A x \in Events \cup Mails : x \in told ~> (x \in dead \cup auditRows \cup expired \/ Mailed(x))
=============================================================================
