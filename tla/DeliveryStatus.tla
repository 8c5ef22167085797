-------------------------- MODULE DeliveryStatus ----------------------------
(***************************************************************************)
(* The status a sender sees: send with its direct attempt and its fallback *)
(* on the retry queue of the own Server, the recipient's receipt, and      *)
(* sync's poll for given-up deliveries (client.rs), over the dials of the  *)
(* queue (RetryQueue has its timing).  The recipient is Local-only, and    *)
(* its Olm session in step, so it accepts an envelope the first time.      *)
(***************************************************************************)
EXTENDS Naturals

CONSTANTS
  Msgs,         \* messages the user sends
  HasServer,    \* TRUE if the sender has an own Server
  MaxAttempts,  \* MAX_RETRY_ATTEMPTS
  MaxLost,      \* bound on answers lost and envelopes delayed
  MaxDropped,   \* bound on receipts and polls' answers that are lost
  MaxKills      \* bound on the sender's app being killed

VARIABLES
  call,      \* sender: how far send has come
  row,       \* sender: status of the row in messages
  queue,     \* node: retry_entries
  attempts,  \* node: failed dials of each
  failed,    \* node: failed_deliveries
  applying,  \* sender: ids a poll has returned
  inbox,     \* recipient: messages stored
  receipts,  \* recipient: receipts on their way
  late,      \* envelopes of direct attempts that timed out but still arrive
  lost, dropped, kills

sender    == <<call, row, applying>>
node      == <<queue, attempts, failed>>
recipient == <<inbox, receipts>>
bounds    == <<lost, dropped, kills>>
statusVars == <<sender, node, recipient, late, bounds>>

Calls == {"idle", "direct", "schedule", "insert_Sent", "insert_Delivered", "done",
          "error", "killed"}

StatusTypeOK ==
  /\ call \in [Msgs -> Calls]
  /\ row \in [Msgs -> {"none", "Sent", "Delivered", "Failed"}]
  /\ applying \subseteq Msgs
  /\ queue \subseteq Msgs /\ failed \subseteq Msgs
  /\ inbox \subseteq Msgs /\ receipts \subseteq Msgs /\ late \subseteq Msgs
  /\ lost \in Nat

StatusInit ==
  /\ call = [m \in Msgs |-> "idle"]
  /\ row = [m \in Msgs |-> "none"]
  /\ applying = {}
  /\ queue = {} /\ failed = {} /\ attempts = [m \in Msgs |-> 0]
  /\ inbox = {} /\ receipts = {} /\ late = {}
  /\ lost = 0 /\ dropped = 0 /\ kills = 0
-----------------------------------------------------------------------------
Goto(m, c) == call' = [call EXCEPT ![m] = c]

\* The recipient stores a new message and spawns a receipt for it.
Stores(m) ==
  /\ m \notin inbox
  /\ inbox' = inbox \cup {m}
  /\ receipts' = receipts \cup {m}

Loses == lost < MaxLost /\ lost' = lost + 1
Drops == dropped < MaxDropped /\ dropped' = dropped + 1

\* deliver gets send_lock, encrypts and starts its direct attempt.
send(m) ==
  /\ call[m] = "idle"
  /\ \A n \in Msgs : call[n] \notin {"direct", "schedule"}
  /\ Goto(m, "direct")
  /\ UNCHANGED <<row, applying, node, recipient, late, bounds>>

\* The direct attempt is acknowledged.
DirectOk(m) ==
  /\ call[m] = "direct"
  /\ Stores(m)
  /\ Goto(m, "insert_Delivered")
  /\ UNCHANGED <<row, applying, node, late, bounds>>

\* It fails: nobody answers; the message is stored and the answer lost; or the
\* envelope arrives after the timeout.  deliver falls back on the own Server.
DirectFails(m) ==
  /\ call[m] = "direct"
  /\ Goto(m, IF HasServer THEN "schedule" ELSE "error")
  /\ \/ UNCHANGED <<recipient, late, lost>>
     \/ Loses /\ Stores(m) /\ UNCHANGED late
     \/ Loses /\ late' = late \cup {m} /\ UNCHANGED recipient
  /\ UNCHANGED <<row, applying, node, dropped, kills>>

LateArrival(m) ==
  /\ m \in late
  /\ late' = late \ {m}
  /\ Stores(m) \/ (m \in inbox /\ UNCHANGED recipient)
  /\ UNCHANGED <<sender, node, bounds>>

\* schedule_retry is answered Ok.
ScheduleOk(m) ==
  /\ call[m] = "schedule"
  /\ queue' = queue \cup {m}
  /\ attempts' = [attempts EXCEPT ![m] = 0]
  /\ Goto(m, "insert_Sent")
  /\ UNCHANGED <<row, applying, failed, recipient, late, bounds>>

\* Mutant: the entry is queued although the call is refused.
ScheduleFails_Queued(m) ==
  /\ call[m] = "schedule"
  /\ queue' = queue \cup {m}
  /\ attempts' = [attempts EXCEPT ![m] = 0]
  /\ Goto(m, "error")
  /\ UNCHANGED <<row, applying, failed, recipient, late, bounds>>

\* It fails, or only its answer is lost: send returns the direct attempt's error.
ScheduleFails(m) ==
  /\ call[m] = "schedule"
  /\ \/ UNCHANGED <<queue, attempts, lost>>
     \/ /\ Loses
        /\ queue' = queue \cup {m}
        /\ attempts' = [attempts EXCEPT ![m] = 0]
  /\ Goto(m, "error")
  /\ UNCHANGED <<row, applying, failed, recipient, late, dropped, kills>>

\* insert_message, after deliver has returned and released the lock.
Insert(m) ==
  /\ call[m] \in {"insert_Sent", "insert_Delivered"}
  /\ row' = [row EXCEPT ![m] = IF call[m] = "insert_Sent" THEN "Sent" ELSE "Delivered"]
  /\ Goto(m, "done")
  /\ UNCHANGED <<applying, node, recipient, late, bounds>>
-----------------------------------------------------------------------------
\* Mutant: an acknowledged entry stays in the queue.
DialOk_KeepsRow(m) ==
  /\ m \in queue
  /\ Stores(m)
  /\ UNCHANGED <<sender, node, late, bounds>>

\* A dial of the queue is acknowledged: mark_delivered.
DialOk(m) ==
  /\ m \in queue
  /\ Stores(m)
  /\ queue' = queue \ {m}
  /\ attempts' = [attempts EXCEPT ![m] = 0]
  /\ UNCHANGED <<sender, failed, late, bounds>>

\* Mutant: giving up is not recorded.
mark_failed_NotRecorded(m) ==
  \/ /\ attempts[m] + 1 >= MaxAttempts
     /\ queue' = queue \ {m}
     /\ attempts' = [attempts EXCEPT ![m] = 0]
     /\ UNCHANGED failed
  \/ /\ attempts[m] + 1 < MaxAttempts
     /\ attempts' = [attempts EXCEPT ![m] = @ + 1]
     /\ UNCHANGED <<queue, failed>>

mark_failed(m) ==
  \/ /\ attempts[m] + 1 >= MaxAttempts
     /\ queue' = queue \ {m}
     /\ failed' = failed \cup {m}
     /\ attempts' = [attempts EXCEPT ![m] = 0]
  \/ /\ attempts[m] + 1 < MaxAttempts
     /\ attempts' = [attempts EXCEPT ![m] = @ + 1]
     /\ UNCHANGED <<queue, failed>>

\* A dial fails: nobody answers, or the recipient has the message already and
\* cannot decrypt it again; or the message is stored and the answer lost.
DialFails(m) ==
  /\ m \in queue
  /\ mark_failed(m)
  /\ \/ UNCHANGED <<recipient, lost>>
     \/ Loses /\ Stores(m)
  /\ UNCHANGED <<sender, late, dropped, kills>>

\* PollFailedDeliveries, at the end of a sync: drained, and the answer applied
\* or lost.
Poll ==
  /\ failed # {}
  /\ applying = {}
  /\ failed' = {}
  /\ \/ applying' = failed /\ UNCHANGED dropped
     \/ Drops /\ UNCHANGED applying
  /\ UNCHANGED <<call, row, queue, attempts, recipient, late, lost, kills>>

\* set_message_status_by_msg_id: whatever the status was; no row, no effect.
MarkFailed(m) ==
  /\ m \in applying
  /\ applying' = applying \ {m}
  /\ row' = [row EXCEPT ![m] = IF @ = "none" THEN @ ELSE "Failed"]
  /\ UNCHANGED <<call, node, recipient, late, bounds>>

\* Mutant: a receipt confirms every message of the contact.
ReceiptArrives_All(m) ==
  /\ m \in receipts
  /\ receipts' = receipts \ {m}
  /\ row' = [n \in Msgs |-> IF row[n] = "none" THEN "none" ELSE "Delivered"]
  /\ UNCHANGED <<call, applying, node, inbox, late, bounds>>

\* The receipt arrives: set_message_status.
ReceiptArrives(m) ==
  /\ m \in receipts
  /\ receipts' = receipts \ {m}
  /\ row' = [row EXCEPT ![m] = IF @ = "none" THEN @ ELSE "Delivered"]
  /\ UNCHANGED <<call, applying, node, inbox, late, bounds>>

\* It cannot be delivered, and is not tried again.
ReceiptLost(m) ==
  /\ m \in receipts
  /\ receipts' = receipts \ {m}
  /\ Drops
  /\ UNCHANGED <<sender, node, inbox, late, lost, kills>>

\* The sender's app is killed: its calls end, a poll's answer is forgotten.
Kill ==
  /\ kills < MaxKills
  /\ kills' = kills + 1
  /\ call' = [m \in Msgs |-> IF call[m] \in {"idle", "done", "error"} THEN call[m] ELSE "killed"]
  /\ applying' = {}
  /\ dropped' = IF applying = {} THEN dropped ELSE dropped + 1
  /\ UNCHANGED <<row, node, recipient, late, lost>>

StatusNext ==
  \/ \E m \in Msgs : send(m) \/ DirectOk(m) \/ DirectFails(m) \/ LateArrival(m)
  \/ \E m \in Msgs : ScheduleOk(m) \/ ScheduleFails(m) \/ Insert(m)
  \/ \E m \in Msgs : DialOk(m) \/ DialFails(m)
  \/ Poll
  \/ \E m \in Msgs : MarkFailed(m) \/ ReceiptArrives(m) \/ ReceiptLost(m)
  \/ Kill

StatusSpec == StatusInit /\ [][StatusNext]_statusVars

\* A direct attempt ends by its timeout, a call to the own Server by the
\* transport's; the sweep keeps dialling; an app in the foreground keeps syncing.
Fairness ==
  /\ \A m \in Msgs :
       /\ WF_statusVars(DirectOk(m) \/ DirectFails(m))
       /\ WF_statusVars(ScheduleOk(m) \/ ScheduleFails(m))
       /\ WF_statusVars(Insert(m))
       /\ WF_statusVars(DialOk(m) \/ DialFails(m))
       /\ WF_statusVars(MarkFailed(m))
       /\ WF_statusVars(ReceiptArrives(m) \/ ReceiptLost(m))
  /\ WF_statusVars(Poll)

FairSpec == StatusSpec /\ Fairness
-----------------------------------------------------------------------------
\* A message shown as delivered is in the recipient's store, whichever of the
\* direct answer, a receipt or a lost answer came first (send, handle_decrypted).
DeliveredIsReceived == \A m \in Msgs : row[m] = "Delivered" => m \in inbox

\* While answers arrive, a message marked "failed to deliver" has not been
\* received (the poll at the end of sync against the dials of the queue).
FailedNotReceived == lost = 0 => \A m \in Msgs : row[m] = "Failed" => m \notin inbox

\* While answers arrive, a send that returned an error has left nothing behind:
\* neither stored by the recipient nor waiting in the queue, so sending again
\* cannot duplicate it.
FailureLeavesNoTrace ==
  lost = 0 => \A m \in Msgs : call[m] = "error" => m \notin inbox \cup queue

\* What will still settle the status of m.
Open(m) == m \in queue \cup failed \cup applying \cup receipts

\* A row that shows "sent" while its outcome is open comes to show another
\* status, by a receipt or by the poll, unless one of these comes to nothing: a
\* receipt or a poll's answer is lost, or the app is killed while it applies one.
\* A kill at any other time does no harm.
OpenResolves ==
  \A m \in Msgs :
    (row[m] = "Sent" /\ Open(m)) ~> (row[m] # "Sent" \/ dropped > 0)

\* A row that shows "sent" of a message the recipient has comes to show another
\* status: its receipt was sent, and nothing is lost.
ReceivedResolves == \A m \in Msgs : (row[m] = "Sent" /\ m \in inbox) ~> (row[m] # "Sent")
=============================================================================
