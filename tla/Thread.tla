------------------------------- MODULE Thread -------------------------------
(***************************************************************************)
(* The order of the messages in a thread: every device stamps what it      *)
(* sends and what it receives with its own Lamport clock (lamport.rs), and *)
(* shows a thread in the order of those stamps (messages_for_contact).     *)
(* A stamp is taken and the row inserted by separate calls to the store,   *)
(* with a delivery between them on the sender's side.                      *)
(***************************************************************************)
EXTENDS Naturals

CONSTANTS
  Devices,
  Msgs,        \* chat messages
  From, To,    \* their sender and recipient
  Ordered,     \* recipients that read a Server mailbox, one sync at a time
  MaxKills,    \* bound on apps being killed
  MaxReceipts, \* bound on receipts and pointer updates sent
  Restorable   \* devices that may be replaced, once, by way of a backup

ASSUME ConstantsAssumption ==
  /\ From \in [Msgs -> Devices]
  /\ To \in [Msgs -> Devices]
  /\ \A m \in Msgs : From[m] # To[m]
  /\ Ordered \subseteq Devices
  /\ MaxKills \in Nat /\ MaxReceipts \in Nat

VARIABLES
  clock,      \* local_clock of each device
  stamp,      \* the clock's value for a message on each device, 0 if none
  stored,     \* rows in messages of each device
  sending,    \* messages in deliver, whose sender holds send_lock
  inserting,  \* messages delivered and not yet inserted by their sender
  wire,       \* messages on their way
  ahead,      \* those of its sender already accepted when a message was sent
  observed,   \* messages stamped and not yet inserted by their recipient
  seen,       \* history: the sender's rows when a message was stamped
  restored,   \* devices replaced
  kills, receipts

progress == <<sending, inserting, wire, ahead, observed>>
rest     == <<restored, kills, receipts>>
vars     == <<clock, stamp, stored, progress, seen, rest>>

TypeOK ==
  /\ clock \in [Devices -> Nat]
  /\ stamp \in [Devices -> [Msgs -> Nat]]
  /\ stored \in [Devices -> SUBSET Msgs]
  /\ sending \subseteq Msgs /\ inserting \subseteq Msgs
  /\ sending \cap inserting = {}
  /\ wire \subseteq Msgs /\ observed \subseteq Msgs
  /\ ahead \in [Msgs -> SUBSET Msgs] /\ seen \in [Msgs -> SUBSET Msgs]
  /\ restored \subseteq Devices
  /\ kills \in 0..MaxKills /\ receipts \in 0..MaxReceipts

Init ==
  /\ clock = [d \in Devices |-> 0]
  /\ stamp = [d \in Devices |-> [m \in Msgs |-> 0]]
  /\ stored = [d \in Devices |-> {}]
  /\ sending = {} /\ inserting = {} /\ wire = {} /\ observed = {}
  /\ ahead = [m \in Msgs |-> {}] /\ seen = [m \in Msgs |-> {}]
  /\ restored = {} /\ kills = 0 /\ receipts = 0
-----------------------------------------------------------------------------
\* The clock of d moves to v, which is the stamp of m.
Stamp(d, m, v) ==
  /\ clock' = [clock EXCEPT ![d] = v]
  /\ stamp' = [stamp EXCEPT ![d][m] = v]

\* Mutant: the value before the advance is returned.
tick_Before(d, m) ==
  /\ clock' = [clock EXCEPT ![d] = @ + 1]
  /\ stamp' = [stamp EXCEPT ![d][m] = clock[d]]

tick(d, m) == Stamp(d, m, clock[d] + 1)

\* Mutant: the larger value is taken over as it is.
observe_NoAdvance(d, m, remote) ==
  Stamp(d, m, IF clock[d] > remote THEN clock[d] ELSE remote)

\* Mutant: the remote value is taken over even if it is behind.
observe_Behind(d, m, remote) == Stamp(d, m, remote + 1)

observe(d, m, remote) ==
  Stamp(d, m, (IF clock[d] > remote THEN clock[d] ELSE remote) + 1)

Insert(d, m) == stored' = [stored EXCEPT ![d] = @ \cup {m}]

\* deliver takes send_lock, stamps the message and starts its delivery.
Deliver(m) ==
  LET d == From[m]
  IN  /\ stamp[d][m] = 0
      /\ \A n \in sending : From[n] # d
      /\ tick(d, m)
      /\ sending' = sending \cup {m}
      /\ wire' = wire \cup {m}
      /\ ahead' = [ahead EXCEPT ![m] =
           {n \in wire \cap (stored[d] \cup inserting) : From[n] = d}]
      /\ seen' = [seen EXCEPT ![m] = stored[d]]
      /\ UNCHANGED <<stored, inserting, observed, rest>>

\* deliver returns and releases the lock.
Delivered(m) ==
  /\ m \in sending
  /\ sending' = sending \ {m}
  /\ inserting' = inserting \cup {m}
  /\ UNCHANGED <<clock, stamp, stored, wire, ahead, observed, seen, rest>>

\* deliver fails: no row; the message was lost, or only its answer was.
DeliveryFails(m) ==
  /\ m \in sending
  /\ sending' = sending \ {m}
  /\ wire' \in {wire, wire \ {m}}
  /\ UNCHANGED <<clock, stamp, stored, inserting, ahead, observed, seen, rest>>

\* send inserts the row.
InsertSent(m) ==
  /\ m \in inserting
  /\ inserting' = inserting \ {m}
  /\ Insert(From[m], m)
  /\ UNCHANGED <<clock, stamp, sending, wire, ahead, observed, seen, rest>>

\* deliver of a receipt or a pointer update: it advances the clock as well, and
\* its recipient does not observe the value.
SendOther(d) ==
  /\ receipts < MaxReceipts
  /\ receipts' = receipts + 1
  /\ \A n \in sending : From[n] # d
  /\ clock' = [clock EXCEPT ![d] = @ + 1]
  /\ UNCHANGED <<stamp, stored, progress, seen, restored, kills>>

\* m reaches its recipient: directly in any order, through a Server mailbox by
\* blob id, so after every message whose write was answered before m was sent.
Arrives(m) ==
  /\ m \in wire
  /\ To[m] \in Ordered => ahead[m] \cap wire = {}

\* handle_decrypted: observe_lamport with the sender's stamp ...
Observe(m) ==
  /\ Arrives(m)
  /\ wire' = wire \ {m}
  /\ observe(To[m], m, stamp[From[m]][m])
  /\ observed' = observed \cup {m}
  /\ UNCHANGED <<stored, sending, inserting, ahead, seen, rest>>

\* ... and insert_message.
InsertReceived(m) ==
  /\ m \in observed
  /\ observed' = observed \ {m}
  /\ Insert(To[m], m)
  /\ UNCHANGED <<clock, stamp, sending, inserting, wire, ahead, seen, rest>>

\* What d was doing is forgotten.
Forget(d) ==
  /\ sending' = {m \in sending : From[m] # d}
  /\ inserting' = {m \in inserting : From[m] # d}
  /\ observed' = {m \in observed : To[m] # d}

\* The app of d is killed.
Kill(d) ==
  /\ kills < MaxKills
  /\ kills' = kills + 1
  /\ Forget(d)
  /\ UNCHANGED <<clock, stamp, stored, wire, ahead, seen, restored, receipts>>

\* The identity moves to a new device by a backup that is up to date: the rows
\* are restored with their stamps, the clock starts at 0.
Restore(d) ==
  /\ d \in Restorable \ restored
  /\ restored' = restored \cup {d}
  /\ Forget(d)
  /\ clock' = [clock EXCEPT ![d] = 0]
  /\ UNCHANGED <<stamp, stored, wire, ahead, seen, kills, receipts>>

Next ==
  \/ \E m \in Msgs : Deliver(m) \/ Delivered(m) \/ DeliveryFails(m) \/ InsertSent(m)
  \/ \E m \in Msgs : Observe(m) \/ InsertReceived(m)
  \/ \E d \in Devices : SendOther(d) \/ Kill(d) \/ Restore(d)

Spec == Init /\ [][Next]_vars
-----------------------------------------------------------------------------
\* m comes before n in the rows of d.
Before(d, m, n) == stamp[d][m] < stamp[d][n]

\* The stamps of the rows are all different on a device that was not replaced:
\* messages_for_contact sorts by nothing else, so the thread has one order.
OneOrder ==
  \A d \in Devices \ restored : \A m, n \in stored[d] : m # n => stamp[d][m] # stamp[d][n]

\* A message comes after every message of its recipient that was in the
\* sender's thread when it was sent, on both devices, however messages
\* overtook each other and whether or not the other device was replaced.
RepliesFollow ==
  \A d \in Devices \ restored : \A m \in stored[d] : \A n \in seen[m] \cap stored[d] :
     From[n] # From[m] => Before(d, n, m)

\* A message comes after every message that was in the sender's thread when it
\* was sent, its sender's own included, on every device that reads a Server
\* mailbox, one sync at a time: sync handles blobs by id.
MailboxOrder ==
  \A d \in Ordered \ restored : \A m \in stored[d] : \A n \in seen[m] \cap stored[d] :
     Before(d, n, m)

\* The same on every device.
CausalOrder ==
  \A d \in Devices : \A m \in stored[d] : \A n \in seen[m] \cap stored[d] : Before(d, n, m)
=============================================================================
