----------------------------- MODULE StoreProofs -----------------------------
(***************************************************************************)
(* Proofs about what a device keeps: the messages of a thread in their     *)
(* order (Thread), and the store itself, created, opened and restored      *)
(* (DeviceStore). The two share no state; each is proved for any value of  *)
(* its constants.                                                          *)
(***************************************************************************)
EXTENDS Thread, DeviceStore, TLAPS

(***************************************************************************)
(* Thread: for any devices and messages, any number of kills and           *)
(* replacements, and messages that overtake each other.                    *)
(***************************************************************************)
\* A clock is never behind a stamp it has given, until the device is replaced.
ClockAhead ==
  \A d \in Devices \ restored : \A m \in Msgs : stamp[d][m] <= clock[d]

\* It gives no stamp twice.
StampsDiffer ==
  \A d \in Devices \ restored : \A m, n \in Msgs :
     m # n /\ stamp[d][m] # 0 => stamp[d][m] # stamp[d][n]

\* Only the sender and then the recipient stamp a message, each of them once.
StampedInTurn ==
  \A m \in Msgs :
     /\ \A d \in Devices : stamp[d][m] # 0 => d \in {From[m], To[m]} /\ stamp[From[m]][m] # 0
     /\ m \in wire => stamp[From[m]][m] # 0 /\ stamp[To[m]][m] = 0

\* Rows, and messages about to become rows, have their stamp.
RowsStamped ==
  /\ \A d \in Devices : \A m \in stored[d] : stamp[d][m] # 0
  /\ \A m \in inserting \cup sending : stamp[From[m]][m] # 0
  /\ \A m \in observed : stamp[To[m]][m] # 0
  /\ \A m \in Msgs : \A n \in seen[m] : stamp[From[m]][n] # 0

\* RepliesFollow of every stamp, that of a row or not.
StampsFollow ==
  \A d \in Devices \ restored : \A m \in Msgs : \A n \in seen[m] :
     From[n] # From[m] /\ stamp[d][m] # 0 => stamp[d][n] < stamp[d][m]

OrderInv == ClockAhead /\ StampsDiffer /\ StampedInTurn /\ RowsStamped /\ StampsFollow
-----------------------------------------------------------------------------
\* What a new stamp changes, pointwise (Stamp).
LEMMA StampEffect ==
  ASSUME TypeOK, NEW d \in Devices, NEW m \in Msgs, NEW v \in Nat, Stamp(d, m, v)
  PROVE  /\ clock' \in [Devices -> Nat]
         /\ stamp' \in [Devices -> [Msgs -> Nat]]
         /\ clock'[d] = v
         /\ \A e \in Devices : e # d => clock'[e] = clock[e]
         /\ stamp'[d][m] = v
         /\ \A e \in Devices, n \in Msgs : <<e, n>> # <<d, m>> => stamp'[e][n] = stamp[e][n]
BY Zenon DEF TypeOK, Stamp

\* An observed value is ahead of the clock (lamport::observe).
LEMMA ObserveEffect ==
  ASSUME TypeOK, NEW d \in Devices, NEW m \in Msgs, NEW r \in Nat, observe(d, m, r)
  PROVE  \E v \in Nat : v > clock[d] /\ Stamp(d, m, v)
BY DEF TypeOK, observe

\* Deliver and Observe put a stamp that is ahead of the clock on a message
\* that has none on that device.
LEMMA NewStamp ==
  ASSUME TypeOK, StampedInTurn, NEW m \in Msgs, Deliver(m) \/ Observe(m)
  PROVE  \E d \in Devices, v \in Nat :
            /\ Stamp(d, m, v) /\ v > clock[d] /\ stamp[d][m] = 0
            /\ Deliver(m) => d = From[m]
            /\ Observe(m) => d = To[m]
<1>1. CASE Deliver(m)
  <2>1. clock[From[m]] + 1 \in Nat /\ From[m] \in Devices
    BY ConstantsAssumption DEF TypeOK, ConstantsAssumption
  <2>2. Stamp(From[m], m, clock[From[m]] + 1) /\ stamp[From[m]][m] = 0
    BY <1>1, Zenon DEF Deliver, tick
  <2>3. ~ Observe(m)
    BY <2>2, Zenon DEF Observe, Arrives, StampedInTurn
  <2> QED BY <2>1, <2>2, <2>3 DEF TypeOK
<1>2. CASE Observe(m) /\ ~ Deliver(m)
  <2>1. m \in wire /\ To[m] \in Devices /\ stamp[From[m]][m] \in Nat
    BY <1>2, ConstantsAssumption DEF Observe, Arrives, TypeOK, ConstantsAssumption
  <2>2. PICK v \in Nat : v > clock[To[m]] /\ Stamp(To[m], m, v)
    BY <1>2, <2>1, ObserveEffect, Zenon DEF Observe
  <2> QED BY <1>2, <2>1, <2>2, Zenon DEF StampedInTurn
<1> QED BY <1>1, <1>2, Zenon
-----------------------------------------------------------------------------
\* Every step preserves TypeOK; a message that is being inserted has a stamp, so
\* it is not sent again.
LEMMA TypeStep == TypeOK /\ RowsStamped /\ [Next]_vars => TypeOK'
<1> SUFFICES ASSUME TypeOK, RowsStamped, [Next]_vars PROVE TypeOK'
  BY Zenon
<1> USE ConstantsAssumption DEF TypeOK, ConstantsAssumption
<1>1. ASSUME NEW m \in Msgs, Deliver(m) PROVE TypeOK'
  <2>1. clock' \in [Devices -> Nat] /\ stamp' \in [Devices -> [Msgs -> Nat]]
    BY <1>1, StampEffect DEF Deliver, tick
  <2>2. m \notin inserting
    BY <1>1, Zenon DEF Deliver, RowsStamped
  <2> QED BY <1>1, <2>1, <2>2, Zenon DEF Deliver, rest
<1>2. ASSUME NEW m \in Msgs, Delivered(m) PROVE TypeOK'
  BY <1>2, Zenon DEF Delivered, rest
<1>3. ASSUME NEW m \in Msgs, DeliveryFails(m) PROVE TypeOK'
  BY <1>3, Zenon DEF DeliveryFails, rest
<1>4. ASSUME NEW m \in Msgs, InsertSent(m) PROVE TypeOK'
  BY <1>4, Zenon DEF InsertSent, Insert, rest
<1>5. ASSUME NEW m \in Msgs, Observe(m) PROVE TypeOK'
  <2>1. clock' \in [Devices -> Nat] /\ stamp' \in [Devices -> [Msgs -> Nat]]
    BY <1>5, StampEffect, ObserveEffect DEF Observe
  <2> QED BY <1>5, <2>1, Zenon DEF Observe, rest
<1>6. ASSUME NEW m \in Msgs, InsertReceived(m) PROVE TypeOK'
  BY <1>6, Zenon DEF InsertReceived, Insert, rest
<1>7. ASSUME NEW d \in Devices, Kill(d) PROVE TypeOK'
  BY <1>7 DEF Kill, Forget
<1>8. ASSUME NEW d \in Devices, Restore(d) PROVE TypeOK'
  BY <1>8, Zenon DEF Restore, Forget
<1>9. ASSUME NEW d \in Devices, SendOther(d) PROVE TypeOK'
  BY <1>9 DEF SendOther, progress
<1>10. CASE UNCHANGED vars
  BY <1>10, Zenon DEF vars, progress, rest
<1> QED BY <1>1, <1>2, <1>3, <1>4, <1>5, <1>6, <1>7, <1>8, <1>9, <1>10, Zenon DEF Next

-----------------------------------------------------------------------------
\* Steps that neither stamp a message nor set a clock back preserve the
\* invariant.
LEMMA QuietStep ==
  ASSUME TypeOK, OrderInv, UNCHANGED <<stamp, seen, restored>>,
         \A d \in Devices : clock'[d] \in Nat /\ clock'[d] >= clock[d],
         wire' \subseteq wire,
         sending' \subseteq sending, inserting' \subseteq inserting \cup sending,
         observed' \subseteq observed,
         \A d \in Devices : \A m \in stored'[d] : stamp[d][m] # 0
  PROVE  OrderInv'
<1> USE DEF OrderInv
<1>1. (StampsDiffer /\ StampsFollow)'
  BY Zenon DEF StampsDiffer, StampsFollow
<1>2. StampedInTurn'
  BY Zenon DEF StampedInTurn
<1>3. RowsStamped'
  BY Zenon DEF RowsStamped
<1>4. ClockAhead'
  BY DEF ClockAhead, TypeOK
<1> QED BY <1>1, <1>2, <1>3, <1>4, Zenon

\* A new stamp preserves it.
LEMMA StampingStep ==
  ASSUME TypeOK, OrderInv, NEW m \in Msgs, Deliver(m) \/ Observe(m)
  PROVE  OrderInv'
<1> USE ConstantsAssumption DEF OrderInv, ConstantsAssumption
<1>1. PICK d \in Devices, v \in Nat :
        /\ Stamp(d, m, v) /\ v > clock[d] /\ stamp[d][m] = 0
        /\ Deliver(m) => d = From[m]
        /\ Observe(m) => d = To[m]
  BY NewStamp, Zenon
<1>2. /\ clock'[d] = v
      /\ \A e \in Devices : e # d => clock'[e] = clock[e]
      /\ stamp'[d][m] = v
      /\ \A e \in Devices, n \in Msgs : <<e, n>> # <<d, m>> => stamp'[e][n] = stamp[e][n]
  BY <1>1, StampEffect
<1>3. /\ clock \in [Devices -> Nat] /\ stamp \in [Devices -> [Msgs -> Nat]]
      /\ stored \in [Devices -> SUBSET Msgs] /\ seen \in [Msgs -> SUBSET Msgs]
      /\ restored' = restored /\ stored' = stored /\ inserting' = inserting
      /\ sending' \subseteq sending \cup {m} /\ observed' \subseteq observed \cup {m}
      /\ wire \subseteq Msgs /\ sending \subseteq Msgs /\ inserting \subseteq Msgs
      /\ observed \subseteq Msgs
  BY Zenon DEF TypeOK, Deliver, Observe, rest
<1>4. \A e \in Devices, n \in Msgs : stamp[e][n] # 0 => stamp'[e][n] = stamp[e][n]
  BY <1>1, <1>2, Zenon
<1>5. stamp'[From[m]][m] # 0 /\ (Observe(m) => stamp'[To[m]][m] # 0)
  BY <1>1, <1>2, <1>3, <1>4 DEF Observe, Arrives, StampedInTurn
<1>6. ClockAhead'
  <2> SUFFICES ASSUME NEW e \in Devices, e \notin restored, NEW n \in Msgs
               PROVE  stamp'[e][n] <= clock'[e]
    BY <1>3, Zenon DEF ClockAhead
  <2>1. stamp[e][n] <= clock[e] /\ stamp[e][n] \in Nat /\ clock[e] \in Nat
    BY <1>3 DEF ClockAhead
  <2>2. CASE e = d /\ n = m
    BY <1>2, <2>2
  <2>3. CASE e = d /\ n # m
    BY <1>1, <1>2, <2>1, <2>3
  <2>4. CASE e # d
    BY <1>2, <2>1, <2>4, Zenon
  <2> QED BY <2>2, <2>3, <2>4, Zenon
<1>7. StampsDiffer'
  <2> SUFFICES ASSUME NEW e \in Devices, e \notin restored, NEW n \in Msgs, NEW k \in Msgs,
                      n # k, stamp'[e][n] # 0
               PROVE  stamp'[e][n] # stamp'[e][k]
    BY <1>3, Zenon DEF StampsDiffer
  <2>1. \A l \in Msgs : stamp[e][l] <= clock[e] /\ stamp[e][l] \in Nat /\ clock[e] \in Nat
    BY <1>3 DEF ClockAhead
  <2>2. CASE e = d /\ n = m
    BY <1>1, <1>2, <2>1, <2>2
  <2>3. CASE e = d /\ k = m
    BY <1>1, <1>2, <2>1, <2>3
  <2>4. CASE e # d \/ m \notin {n, k}
    BY <1>2, <2>4 DEF StampsDiffer
  <2> QED BY <2>2, <2>3, <2>4, Zenon
<1>8. StampedInTurn'
  <2>1. ASSUME NEW n \in Msgs, NEW e \in Devices, stamp'[e][n] # 0
        PROVE  e \in {From[n], To[n]} /\ stamp'[From[n]][n] # 0
    <3>1. CASE n = m /\ e = d
      BY <1>1, <1>5, <3>1, Zenon
    <3>2. CASE n # m \/ e # d
      <4>1. stamp[e][n] # 0
        BY <1>2, <2>1, <3>2, Zenon
      <4>2. e \in {From[n], To[n]} /\ stamp[From[n]][n] # 0
        BY <4>1, Zenon DEF StampedInTurn
      <4> QED BY <1>4, <4>2, Zenon
    <3> QED BY <3>1, <3>2, Zenon
  <2>2. ASSUME NEW n \in Msgs, n \in wire'
        PROVE  stamp'[From[n]][n] # 0 /\ stamp'[To[n]][n] = 0
    <3>1. CASE Deliver(m)
      <4>1. n \in wire \/ n = m
        BY <2>2, <3>1, Zenon DEF Deliver
      <4>2. n # m => n \in wire /\ stamp'[To[n]][n] = stamp[To[n]][n]
        BY <4>1, <1>2, Zenon
      <4>3. stamp[To[m]][m] = 0 /\ To[m] # d
        BY <1>1, <3>1, Zenon DEF StampedInTurn
      <4> QED BY <1>2, <1>4, <1>5, <4>1, <4>2, <4>3 DEF StampedInTurn
    <3>2. CASE Observe(m)
      <4>1. n \in wire /\ n # m
        BY <2>2, <3>2, Zenon DEF Observe
      <4> QED BY <1>2, <1>4, <4>1 DEF StampedInTurn
    <3> QED BY <3>1, <3>2, Zenon
  <2> QED BY <2>1, <2>2, Zenon DEF StampedInTurn
<1>9. RowsStamped'
  <2>1. \A n \in inserting' \cup sending' : stamp'[From[n]][n] # 0
    BY <1>3, <1>4, <1>5 DEF RowsStamped
  <2>2. \A n \in observed' : stamp'[To[n]][n] # 0
    <3>1. CASE Deliver(m)
      BY <1>3, <1>4, <3>1 DEF RowsStamped, Deliver
    <3>2. CASE Observe(m)
      BY <1>3, <1>4, <1>5, <3>2 DEF RowsStamped, Observe
    <3> QED BY <3>1, <3>2, Zenon
  <2>3. \A e \in Devices : \A n \in stored'[e] : stamp'[e][n] # 0
    BY <1>3, <1>4 DEF RowsStamped
  <2>4. \A n \in Msgs : \A k \in seen'[n] : stamp'[From[n]][k] # 0
    <3>1. CASE Deliver(m)
      BY <1>3, <1>4, <3>1 DEF RowsStamped, Deliver
    <3>2. CASE Observe(m)
      BY <1>3, <1>4, <3>2 DEF RowsStamped, Observe
    <3> QED BY <3>1, <3>2, Zenon
  <2> QED BY <2>1, <2>2, <2>3, <2>4, Zenon DEF RowsStamped
<1>10. StampsFollow'
  <2> SUFFICES ASSUME NEW e \in Devices, e \notin restored, NEW n \in Msgs, NEW k \in seen'[n],
                      From[k] # From[n], stamp'[e][n] # 0
               PROVE  stamp'[e][k] < stamp'[e][n]
    BY <1>3, Zenon DEF StampsFollow
  <2>1. k \in Msgs /\ k # n
    BY <1>3, ZenonT(30) DEF Deliver, Observe
  <2>2. CASE n = m /\ e = d
    <3>1. stamp'[e][k] = stamp[e][k] /\ stamp'[e][n] = v
      BY <1>2, <2>1, <2>2, Zenon
    <3>2. stamp[e][k] <= clock[e] /\ v > clock[e]
      BY <1>1, <2>1, <2>2, Zenon DEF ClockAhead
    <3>3. stamp[e][k] \in Nat /\ clock[e] \in Nat
      BY <1>3, <2>1
    <3> QED BY <3>1, <3>2, <3>3
  <2>3. CASE n = m /\ e # d
    \* m was stamped on e before, so it has not been delivered just now.
    <3>1. stamp[e][m] # 0 /\ stamp'[e][k] = stamp[e][k]
      BY <1>2, <2>1, <2>3, Zenon
    <3>2. ~ Deliver(m)
      BY <3>1, Zenon DEF StampedInTurn, Deliver
    <3>3. k \in seen[m]
      BY <2>3, <3>2, Zenon DEF Observe
    <3> QED BY <1>2, <2>1, <2>3, <3>1, <3>3, Zenon DEF StampsFollow
  <2>4. CASE n # m
    <3>1. k \in seen[n]
      BY <1>3, <2>4, Zenon DEF Deliver, Observe
    <3>2. stamp'[e][n] = stamp[e][n]
      BY <1>2, <2>4, Zenon
    \* k was stamped by n's sender before, so by its own recipient.
    <3>3. stamp[From[n]][k] # 0 /\ From[n] = To[k] /\ stamp[From[k]][k] # 0
      BY <3>1, <2>1 DEF RowsStamped, StampedInTurn
    <3>4. ~ (k = m /\ e = d)
      BY <1>1, <3>3, Zenon
    <3> QED BY <1>2, <2>1, <3>1, <3>2, <3>4, Zenon DEF StampsFollow
  <2> QED BY <2>2, <2>3, <2>4, Zenon
<1> QED BY <1>6, <1>7, <1>8, <1>9, <1>10, Zenon

\* Every step preserves the invariant.
LEMMA OrderStep == TypeOK /\ OrderInv /\ [Next]_vars => OrderInv'
<1> SUFFICES ASSUME TypeOK, OrderInv, [Next]_vars PROVE OrderInv'
  BY Zenon
<1> USE ConstantsAssumption DEF ConstantsAssumption
<1>0. /\ \A d \in Devices : clock[d] \in Nat /\ clock[d] >= clock[d]
      /\ \A d \in Devices : \A m \in stored[d] : stamp[d][m] # 0
  BY DEF TypeOK, OrderInv, RowsStamped
<1>1. ASSUME NEW m \in Msgs, Deliver(m) \/ Observe(m) PROVE OrderInv'
  BY <1>1, StampingStep, Zenon
<1>2. ASSUME NEW m \in Msgs, Delivered(m) \/ DeliveryFails(m) PROVE OrderInv'
  BY <1>0, <1>2, QuietStep, Zenon DEF Delivered, DeliveryFails, rest
<1>3. ASSUME NEW m \in Msgs, InsertSent(m) PROVE OrderInv'
  <2>1. \A d \in Devices : \A n \in stored'[d] : stamp[d][n] # 0
    BY <1>3, Zenon DEF InsertSent, Insert, OrderInv, RowsStamped, TypeOK
  <2>2. /\ UNCHANGED <<clock, stamp, seen, restored, wire, sending, observed>>
        /\ inserting' \subseteq inserting
    BY <1>3, Zenon DEF InsertSent, rest
  <2> QED BY <1>0, <2>1, <2>2, QuietStep, Zenon
<1>4. ASSUME NEW m \in Msgs, InsertReceived(m) PROVE OrderInv'
  <2>1. \A d \in Devices : \A n \in stored'[d] : stamp[d][n] # 0
    BY <1>4, Zenon DEF InsertReceived, Insert, OrderInv, RowsStamped, TypeOK
  <2>2. /\ UNCHANGED <<clock, stamp, seen, restored, wire, sending, inserting>>
        /\ observed' \subseteq observed
    BY <1>4, Zenon DEF InsertReceived, rest
  <2> QED BY <1>0, <2>1, <2>2, QuietStep, Zenon
<1>5. ASSUME NEW d \in Devices, Kill(d) PROVE OrderInv'
  BY <1>0, <1>5, QuietStep, Zenon DEF Kill, Forget
<1>6. ASSUME NEW d \in Devices, Restore(d) PROVE OrderInv'
  <2> USE <1>6 DEF OrderInv, Restore, Forget
  <2>1. (ClockAhead /\ StampsDiffer /\ StampsFollow)'
    BY DEF ClockAhead, StampsDiffer, StampsFollow, TypeOK
  <2>2. StampedInTurn'
    BY Zenon DEF StampedInTurn
  <2>3. RowsStamped'
    BY Zenon DEF RowsStamped
  <2> QED BY <2>1, <2>2, <2>3, Zenon
<1>7. ASSUME NEW d \in Devices, SendOther(d) PROVE OrderInv'
  <2>1. \A e \in Devices : clock'[e] \in Nat /\ clock'[e] >= clock[e]
    BY <1>7 DEF SendOther, TypeOK
  <2> QED BY <1>0, <1>7, <2>1, QuietStep, Zenon DEF SendOther, progress
<1>8. CASE UNCHANGED vars
  BY <1>0, <1>8, QuietStep, Zenon DEF vars, progress, rest
<1> QED BY <1>1, <1>2, <1>3, <1>4, <1>5, <1>6, <1>7, <1>8, Zenon DEF Next

\* The inductive invariant holds: Init establishes it, OrderStep preserves it.
LEMMA Invariant == Spec => [](TypeOK /\ OrderInv)
<1>1. Init => TypeOK /\ OrderInv
  BY ConstantsAssumption DEF ConstantsAssumption, Init, TypeOK, OrderInv, ClockAhead,
     StampsDiffer, StampedInTurn, RowsStamped, StampsFollow
<1>2. TypeOK /\ OrderInv /\ [Next]_vars => (TypeOK /\ OrderInv)'
  BY TypeStep, OrderStep, Zenon DEF OrderInv
<1> QED BY <1>1, <1>2, PTL DEF Spec
-----------------------------------------------------------------------------
\* What a message's sender had in its thread and is still on its way, has been
\* accepted before it.
SeenAhead ==
  \A m \in Msgs :
     /\ m \notin seen[m]
     /\ \A n \in seen[m] \cap wire : From[n] = From[m] => n \in ahead[m]

\* A message that was accepted is not sent again, and it has left a Server
\* mailbox once a message behind it has.
AheadGone ==
  \A m \in Msgs :
     /\ \A n \in ahead[m] : stamp[From[n]][n] # 0
     /\ To[m] \in Ordered /\ stamp[To[m]][m] # 0 => ahead[m] \cap wire = {}

\* MailboxOrder of every stamp, that of a row or not.
MailStampsFollow ==
  \A d \in Ordered \ restored : \A m \in Msgs : \A n \in seen[m] :
     stamp[d][m] # 0 => stamp[d][n] < stamp[d][m]

MailInv == SeenAhead /\ AheadGone /\ MailStampsFollow

\* A step that stamps nothing and puts nothing on the wire preserves it.
LEMMA MailQuietStep ==
  ASSUME TypeOK, MailInv, UNCHANGED <<stamp, seen, ahead>>,
         wire' \subseteq wire, restored \subseteq restored'
  PROVE  MailInv'
BY Zenon DEF MailInv, SeenAhead, AheadGone, MailStampsFollow

\* A new stamp preserves it: a message that a mailbox still holds is ahead of
\* the one that was seen to follow it.
LEMMA MailStampingStep ==
  ASSUME TypeOK, OrderInv, MailInv, NEW m \in Msgs, Deliver(m) \/ Observe(m)
  PROVE  MailInv'
<1> USE ConstantsAssumption DEF OrderInv, MailInv, ConstantsAssumption
<1>1. PICK d \in Devices, v \in Nat :
        /\ Stamp(d, m, v) /\ v > clock[d] /\ stamp[d][m] = 0
        /\ Deliver(m) => d = From[m]
        /\ Observe(m) => d = To[m]
  BY NewStamp, Zenon
<1>2. /\ stamp'[d][m] = v
      /\ \A e \in Devices, n \in Msgs : <<e, n>> # <<d, m>> => stamp'[e][n] = stamp[e][n]
  BY <1>1, StampEffect
<1>3. /\ clock \in [Devices -> Nat] /\ stamp \in [Devices -> [Msgs -> Nat]]
      /\ stored \in [Devices -> SUBSET Msgs] /\ seen \in [Msgs -> SUBSET Msgs]
      /\ ahead \in [Msgs -> SUBSET Msgs] /\ wire \subseteq Msgs
      /\ restored' = restored
  BY Zenon DEF TypeOK, Deliver, Observe, rest
<1>4. \A e \in Devices, n \in Msgs : stamp[e][n] # 0 => stamp'[e][n] = stamp[e][n]
  BY <1>1, <1>2, Zenon
\* What is in a sender's thread has been stamped by its own sender.
<1>5. \A n \in Msgs : \A k \in seen[n] : k \in Msgs /\ stamp[From[k]][k] # 0
  BY <1>3 DEF RowsStamped, StampedInTurn
<1>6. \A n \in Msgs : n \notin seen'[n]
  <2>1. CASE Deliver(m)
    <3>1. m \notin stored[From[m]]
      BY <2>1, Zenon DEF Deliver, RowsStamped
    <3> QED BY <1>3, <2>1, <3>1, Zenon DEF Deliver, SeenAhead
  <2>2. CASE Observe(m)
    BY <2>2, Zenon DEF Observe, SeenAhead
  <2> QED BY <2>1, <2>2, Zenon
<1>7. SeenAhead'
  <2>1. CASE Deliver(m)
    <3> SUFFICES ASSUME NEW n \in Msgs, NEW k \in seen'[n], k \in wire', From[k] = From[n]
                 PROVE  k \in ahead'[n]
      BY <1>6, Zenon DEF SeenAhead
    <3>1. CASE n = m
      <4>1. k \in stored[From[m]]
        BY <1>3, <2>1, <3>1, Zenon DEF Deliver
      <4>2. k # m
        BY <2>1, <4>1, Zenon DEF Deliver, RowsStamped
      <4> QED BY <1>3, <2>1, <3>1, <4>1, <4>2, Zenon DEF Deliver
    <3>2. CASE n # m
      <4>1. k \in seen[n] /\ ahead'[n] = ahead[n]
        BY <1>3, <2>1, <3>2, Zenon DEF Deliver
      <4>2. k # m
        BY <1>5, <2>1, <4>1, Zenon DEF Deliver
      <4> QED BY <2>1, <4>1, <4>2, Zenon DEF Deliver, SeenAhead
    <3> QED BY <3>1, <3>2, Zenon
  <2>2. CASE Observe(m)
    BY <2>2, Zenon DEF Observe, SeenAhead
  <2> QED BY <2>1, <2>2, Zenon
<1>8. AheadGone'
  <2> SUFFICES ASSUME NEW n \in Msgs
               PROVE  /\ \A k \in ahead'[n] : stamp'[From[k]][k] # 0
                      /\ To[n] \in Ordered /\ stamp'[To[n]][n] # 0 => ahead'[n] \cap wire' = {}
    BY Zenon DEF AheadGone
  <2>1. \A k \in ahead[n] : k \in Msgs /\ stamp[From[k]][k] # 0 /\ stamp'[From[k]][k] # 0
    BY <1>3, <1>4, Zenon DEF AheadGone
  <2>2. CASE Deliver(m) /\ n = m
    <3>1. ahead'[m] \subseteq wire
      BY <1>3, <2>2, Zenon DEF Deliver
    <3>2. stamp'[To[m]][m] = 0
      BY <1>1, <1>2, <2>2 DEF StampedInTurn
    <3> QED BY <1>3, <1>4, <2>2, <3>1, <3>2 DEF StampedInTurn
  <2>3. CASE Deliver(m) /\ n # m
    <3>1. ahead'[n] = ahead[n] /\ stamp'[To[n]][n] = stamp[To[n]][n] /\ wire' = wire \cup {m}
      BY <1>2, <1>3, <2>3, Zenon DEF Deliver
    <3>2. m \notin ahead[n]
      BY <2>1, <2>3, Zenon DEF Deliver
    <3> QED BY <2>1, <3>1, <3>2, Zenon DEF AheadGone
  <2>4. CASE Observe(m)
    <3>1. ahead' = ahead /\ wire' \subseteq wire
      BY <2>4, Zenon DEF Observe
    <3>2. n # m => stamp'[To[n]][n] = stamp[To[n]][n]
      BY <1>2, Zenon
    <3>3. To[m] \in Ordered => ahead[m] \cap wire = {}
      BY <2>4, Zenon DEF Observe, Arrives
    <3> QED BY <2>1, <3>1, <3>2, <3>3, Zenon DEF AheadGone
  <2> QED BY <2>2, <2>3, <2>4, Zenon
<1>9. MailStampsFollow'
  <2> SUFFICES ASSUME NEW e \in Devices, e \in Ordered, e \notin restored, NEW n \in Msgs,
                      NEW k \in seen'[n], stamp'[e][n] # 0
               PROVE  stamp'[e][k] < stamp'[e][n]
    BY <1>3, Zenon DEF MailStampsFollow
  <2>1. k \in Msgs
    <3>1. CASE Deliver(m)
      BY <1>3, <3>1, Zenon DEF Deliver
    <3>2. CASE Observe(m)
      BY <1>3, <3>2, Zenon DEF Observe
    <3> QED BY <3>1, <3>2, Zenon
  <2>2. k # n
    BY <1>6, Zenon
  <2>3. CASE n = m /\ e = d
    <3>1. stamp'[e][k] = stamp[e][k] /\ stamp'[e][n] = v
      BY <1>2, <2>1, <2>2, <2>3, Zenon
    <3>2. stamp[e][k] <= clock[e] /\ v > clock[e]
      BY <1>1, <2>1, <2>3, Zenon DEF ClockAhead
    <3>3. stamp[e][k] \in Nat /\ clock[e] \in Nat
      BY <1>3, <2>1
    <3> QED BY <3>1, <3>2, <3>3
  <2>4. CASE n = m /\ e # d
    <3>1. stamp[e][m] # 0 /\ stamp'[e][k] = stamp[e][k] /\ stamp'[e][m] = stamp[e][m]
      BY <1>2, <2>1, <2>2, <2>4, Zenon
    <3>2. ~ Deliver(m)
      BY <3>1, Zenon DEF StampedInTurn, Deliver
    <3>3. k \in seen[m]
      BY <2>4, <3>2, Zenon DEF Observe
    <3> QED BY <2>4, <3>1, <3>3, Zenon DEF MailStampsFollow
  <2>5. CASE n # m
    <3>1. k \in seen[n]
      BY <1>3, <2>5, Zenon DEF Deliver, Observe
    <3>2. stamp'[e][n] = stamp[e][n] /\ stamp[e][n] # 0
      BY <1>2, <2>5, Zenon
    <3>3. ~ (k = m /\ e = d)
      <4> SUFFICES ASSUME k = m, e = d PROVE FALSE
        BY Zenon
      <4>1. Observe(m) /\ m \in wire /\ e = To[m]
        BY <1>1, <1>5, <3>1, ZenonT(30) DEF Deliver, Observe, Arrives
      <4>2. e \in {From[n], To[n]} /\ stamp[From[n]][m] # 0
        BY <3>1, <3>2, Zenon DEF StampedInTurn, RowsStamped
      <4>3. From[n] = From[m] /\ e = To[n]
        BY <4>1, <4>2, Zenon DEF StampedInTurn
      <4>4. m \in ahead[n]
        BY <3>1, <4>1, <4>3, Zenon DEF SeenAhead
      <4> QED BY <3>2, <4>1, <4>3, <4>4, Zenon DEF AheadGone
    <3> QED BY <1>2, <2>1, <3>1, <3>2, <3>3, Zenon DEF MailStampsFollow
  <2> QED BY <2>3, <2>4, <2>5, Zenon
<1> QED BY <1>7, <1>8, <1>9, Zenon

\* Every step preserves it.
LEMMA MailStep == TypeOK /\ OrderInv /\ MailInv /\ [Next]_vars => MailInv'
<1> SUFFICES ASSUME TypeOK, OrderInv, MailInv, [Next]_vars PROVE MailInv'
  BY Zenon
<1>1. ASSUME NEW m \in Msgs, Deliver(m) \/ Observe(m) PROVE MailInv'
  BY <1>1, MailStampingStep, Zenon
<1>2. ASSUME NEW m \in Msgs, Delivered(m) \/ DeliveryFails(m) PROVE MailInv'
  BY <1>2, MailQuietStep, Zenon DEF Delivered, DeliveryFails, rest
<1>3. ASSUME NEW m \in Msgs, InsertSent(m) \/ InsertReceived(m) PROVE MailInv'
  BY <1>3, MailQuietStep, Zenon DEF InsertSent, InsertReceived, rest
<1>4. ASSUME NEW d \in Devices, SendOther(d) \/ Kill(d) \/ Restore(d) PROVE MailInv'
  BY <1>4, MailQuietStep, Zenon DEF SendOther, Kill, Restore, progress
<1>5. CASE UNCHANGED vars
  BY <1>5, MailQuietStep, Zenon DEF vars, progress, rest
<1> QED BY <1>1, <1>2, <1>3, <1>4, <1>5, Zenon DEF Next
-----------------------------------------------------------------------------
\* Every variable keeps its type, and a message that is being inserted is not in
\* delivery.
THEOREM TypeCorrect == Spec => []TypeOK
BY Invariant, PTL

\* The thread of a device that was not replaced has one order: tick and observe
\* never give a device the same value twice.
THEOREM ThreadHasOneOrder == Spec => []OneOrder
<1>1. TypeOK /\ OrderInv => OneOrder
  BY Zenon DEF TypeOK, OrderInv, StampsDiffer, RowsStamped, OneOrder
<1> QED BY <1>1, Invariant, PTL

\* A reply comes after what it replies to, on both devices, for every order in
\* which messages arrive.
THEOREM RepliesAfter == Spec => []RepliesFollow
<1>1. TypeOK /\ OrderInv => RepliesFollow
  BY Zenon DEF TypeOK, OrderInv, StampsFollow, RowsStamped, RepliesFollow, Before
<1> QED BY <1>1, Invariant, PTL

\* On a device that reads a Server mailbox, one sync at a time, a message comes
\* after everything that was in its sender's thread: sync handles blobs by id and
\* observe stamps them in that order.
THEOREM MailboxKeepsOrder == Spec => []MailboxOrder
<1>1. Init => MailInv
  BY Zenon DEF Init, MailInv, SeenAhead, AheadGone, MailStampsFollow
<1>2. TypeOK /\ OrderInv /\ MailInv => MailboxOrder
  BY ConstantsAssumption, Zenon
  DEF ConstantsAssumption, TypeOK, OrderInv, MailInv, MailStampsFollow,
     RowsStamped, MailboxOrder, Before
<1> QED BY <1>1, <1>2, Invariant, MailStep, PTL DEF Spec
-----------------------------------------------------------------------------
(***************************************************************************)
(* DeviceStore: a file has the key of a phrase somebody has, since only a  *)
(* creation writes with a phrase that is not saved, and what a creation    *)
(* finds in the file is its own. The first restore writes into empty       *)
(* tables, and after k calls of restore_into they hold what Partial says.  *)
(***************************************************************************)
\* What goes on, as far as the status of the app tells.
FlowShape ==
  /\ flow = [kind |-> flow.kind, phrase |-> flow.phrase, at |-> flow.at, done |-> flow.done]
  /\ file = [key |-> file.key, version |-> file.version, applied |-> file.applied]
  /\ flow.done \in Nat /\ file.version \in Nat /\ begun \in Nat
  /\ row \in [Items -> Nat]
  /\ used \subseteq Phrases /\ known \cup lost \subseteq used
  /\ keychain \in used \cup {None}
  /\ status = "loading" <=> flow.at # "none"
  /\ status \in {"off", "error", "needs-identity"} => flow.kind = "none"
  /\ status \notin {"off", "error", "needs-identity"} => flow.kind # "none"
  /\ status = "needs-identity" => keychain = None
  /\ status = "ready" => keychain = flow.phrase /\ keychain # None

\* Whose phrase a call works with.
FlowInv ==
  flow.at # "none" =>
    /\ flow.kind = "open" => flow.phrase = keychain /\ keychain # None
    /\ flow.kind # "open" => keychain = None
    /\ flow.kind = "create" => flow.phrase \in used
    /\ flow.kind \notin {"open", "create"} => flow.phrase \in known
    /\ flow.at = "fetch" => flow.kind \in {"restore", "import"}
    /\ flow.at \in {"script", "own_addr"} => flow.kind \in {"restore", "import"} /\ begun # 0
    /\ flow.at = "account" => flow.kind \notin {"restore", "import"}

\* Whose key the file has, and what a creation finds in it: its own statements.
FileInv ==
  /\ file.key # None =>
       \/ \E p \in known \cup {keychain} \cup lost : file.key = Key(p)
       \/ flow.at # "none" /\ file.key = Key(flow.phrase)
  /\ flow.at \in {"account", "script", "own_addr", "save"} =>
       file.key \in {None, Key(flow.phrase)}
  /\ file.applied \subseteq Nat \X Nat /\ (file.key = None => file.applied = {})
  /\ flow.at = "migrate" /\ flow.kind = "create" /\ file.key = Key(flow.phrase) =>
       \A s \in file.applied :
         s[1] <= file.version \/ (s[1] = file.version + 1 /\ s[2] <= flow.done)

\* next_write_n after k calls of restore_into.
Counted(k) == IF k <= 6 THEN 0 ELSE IF k <= 6 + Writes THEN k - 6 ELSE Writes

\* The tables after k calls.
Partial(k) ==
  /\ \A i \in Items \ {"account", "n"} :
       row[i] = IF \E j \in 1..k : Script[j] = i THEN 1 ELSE 0
  /\ k # 0 => row["account"] = 1
  /\ row["n"] = Counted(k)

Whole(kind) == IF kind = "restore" THEN [Restored EXCEPT !["own_addr"] = 2] ELSE Restored

RowInv ==
  /\ begun = 0 /\ keychain = None => \A i \in Items \ {"account"} : row[i] = 0
  /\ begun = 1 /\ flow.at = "script" => flow.done \in 0..Len(Script) /\ Partial(flow.done)
  /\ begun = 1 /\ flow.at = "own_addr" => flow.kind = "restore" /\ row = Restored
  /\ begun = 1 /\ flow.at = "save" /\ flow.kind \in {"restore", "import"} =>
       row = Whole(flow.kind)
  /\ RestoredWhole
-----------------------------------------------------------------------------
\* What the ways to end and to move on make of a call.
LEMMA FlowEffect ==
  ASSUME FlowShape
  PROVE  /\ \A at : Goto(at) =>
              flow' = [kind |-> flow.kind, phrase |-> flow.phrase, at |-> at, done |-> 0]
         /\ NoFlow.kind = "none" /\ NoFlow.at = "none" /\ NoFlow.done = 0
         /\ NoFlow = [kind |-> NoFlow.kind, phrase |-> NoFlow.phrase, at |-> NoFlow.at,
                      done |-> NoFlow.done]
  BY ZenonT(30) DEF FlowShape, Goto, NoFlow

\* Calls start, move on and end as the status says.
LEMMA FlowStep ==
  ASSUME FlowShape, FlowInv, [DeviceNext]_deviceVars
  PROVE  FlowShape' /\ FlowInv'
<1> USE DEF FlowShape, FlowInv
<1>1. CASE openExisting
  BY <1>1, FlowEffect DEF openExisting, Begin, history
<1>2. CASE createIdentity
  BY <1>2, FlowEffect DEF createIdentity, Begin
<1>3. CASE restoreFromPhrase
  BY <1>3, FlowEffect DEF restoreFromPhrase, Begin, history
<1>4. CASE importFromBackup
  BY <1>4, FlowEffect DEF importFromBackup, Begin, history
<1>5. CASE Fetch
  BY <1>5, FlowEffect DEF Fetch, Fail, history
<1>6. CASE WrongKey
  BY <1>6, FlowEffect DEF WrongKey, Fail, history
<1>7. CASE Apply
  <2>1. /\ file' = [key |-> file'.key, version |-> file'.version, applied |-> file'.applied]
        /\ file'.version = file.version /\ UNCHANGED <<keychain, row, known, history>>
    BY <1>7, Zenon DEF Apply
  <2>2. CASE Fail
    BY <1>7, <2>1, <2>2, FlowEffect DEF Apply, Fail, history
  <2>3. CASE flow' = [flow EXCEPT !.done = @ + 1] /\ UNCHANGED status
    BY <1>7, <2>1, <2>3 DEF history
  <2> QED
    BY <1>7, <2>2, <2>3, Zenon DEF Apply
<1>8. CASE SetVersion
  BY <1>8, FlowEffect DEF SetVersion, history
<1>9. CASE Migrated
  BY <1>9, FlowEffect DEF Migrated
<1>10. CASE LoadAccount
  BY <1>10, FlowEffect DEF LoadAccount, history, Items, Fields
<1>11. CASE RestoreNext
  <2>1. row' \in [Items -> Nat] /\ UNCHANGED <<keychain, file, known, history>>
    BY <1>11 DEF RestoreNext, Write
  <2>2. CASE Fail
    BY <1>11, <2>1, <2>2, FlowEffect DEF RestoreNext, Fail, history
  <2>3. CASE flow' = [flow EXCEPT !.done = @ + 1] /\ UNCHANGED status
    BY <1>11, <2>1, <2>3 DEF history
  <2> QED
    BY <1>11, <2>2, <2>3, Zenon DEF RestoreNext
<1>12. CASE RestoreDone
  BY <1>12, FlowEffect DEF RestoreDone, history
<1>13. CASE SetOwnAddr
  <2>1. row' \in [Items -> Nat]
    BY <1>13, Zenon DEF SetOwnAddr
  <2> QED
    BY <1>13, <2>1, FlowEffect DEF SetOwnAddr, history
<1>14. CASE Ready
  BY <1>14, FlowEffect, StoreAssumption DEF Ready, history, StoreAssumption
<1>15. CASE WriteDown
  BY <1>15, Zenon DEF WriteDown, history
<1>16. CASE Close
  BY <1>16, FlowEffect DEF Close, history
<1>17. ASSUME NEW st \in {"off", "error"}, Stop(st) PROVE FlowShape' /\ FlowInv'
  BY <1>17, FlowEffect DEF Stop
<1>18. CASE UNCHANGED deviceVars
  BY <1>18, Zenon DEF deviceVars, history
<1> QED
  BY <1>1, <1>2, <1>3, <1>4, <1>5, <1>6, <1>7, <1>8, <1>9, <1>10, <1>11, <1>12, <1>13,
     <1>14, <1>15, <1>16, <1>17, <1>18, Zenon DEF DeviceNext, Step

\* Different phrases have different keys.
LEMMA KeysDiffer == \A p, q : Key(p) = Key(q) => p = q
  BY Zenon DEF Key, Identity

\* The key is that of a phrase somebody has, or that is being made.
LEMMA FileStep ==
  ASSUME FlowShape, FlowInv, FileInv, [DeviceNext]_deviceVars
  PROVE  FileInv'
<1> USE DEF FlowShape, FlowInv, FileInv
<1>1. CASE openExisting
  BY <1>1, FlowEffect DEF openExisting, Begin, history
<1>2. CASE createIdentity
  <2>1. PICK p \in Phrases \ used :
          flow' = [kind |-> "create", phrase |-> p, at |-> "migrate", done |-> 0]
    BY <1>2, Zenon DEF createIdentity, Begin
  <2>2. /\ flow.at = "none" /\ file.key # Key(p)
        /\ UNCHANGED <<keychain, file, known, lost>>
    BY <1>2, <2>1, KeysDiffer, StoreAssumption, Zenon DEF createIdentity, StoreAssumption
  <2>3. flow'.at = "migrate" /\ flow'.phrase = p
    BY <2>1, Zenon
  <2> QED
    BY <2>2, <2>3, Zenon
<1>3. CASE restoreFromPhrase
  BY <1>3, FlowEffect DEF restoreFromPhrase, Begin, history
<1>4. CASE importFromBackup
  BY <1>4, FlowEffect DEF importFromBackup, Begin, history
<1>5. CASE Fetch
  BY <1>5, FlowEffect DEF Fetch, Fail, history
<1>6. CASE WrongKey
  BY <1>6, FlowEffect, Zenon DEF WrongKey, Fail, history, Readable
<1>7. CASE Apply
  <2>1. flow.at = "migrate" /\ Readable /\ UNCHANGED <<keychain, known, lost>>
    BY <1>7, Zenon DEF Apply, history
  <2>2. CASE Statement \in file.applied /\ Fail /\ UNCHANGED file
    <3>1. file.key = Key(flow.phrase)
      BY <2>1, <2>2, Zenon DEF Readable
    <3>2. flow.kind # "create"
      BY <2>1, <2>2, <3>1 DEF Statement
    <3> QED
      BY <2>1, <2>2, <3>1, <3>2, FlowEffect, Zenon DEF Fail
  <2>3. CASE /\ file' = [file EXCEPT !.key = Key(flow.phrase), !.applied = @ \cup {Statement}]
             /\ flow' = [flow EXCEPT !.done = @ + 1]
    <3>1. /\ file'.key = Key(flow.phrase) /\ file'.applied = file.applied \cup {Statement}
          /\ file'.version = file.version
          /\ flow'.at = "migrate" /\ flow'.phrase = flow.phrase /\ flow'.kind = flow.kind
          /\ flow'.done = flow.done + 1
      BY <2>1, <2>3, Zenon
    <3>2. Key(flow.phrase) # None
      <4>1. flow.phrase \in Phrases
        BY <2>1, Zenon
      <4> QED
        BY <4>1, StoreAssumption, Zenon DEF StoreAssumption
    <3>3. ASSUME flow.kind = "create", NEW s \in file'.applied
          PROVE  s[1] <= file'.version \/ (s[1] = file'.version + 1 /\ s[2] <= flow'.done)
      <4>1. CASE s \in file.applied
        <5>1. file.key = Key(flow.phrase)
          BY <2>1, <4>1, Zenon DEF Readable
        <5>2. \/ s[1] <= file.version
              \/ s[1] = file.version + 1 /\ s[2] <= flow.done
          BY <2>1, <3>3, <4>1, <5>1, Zenon
        <5>3. s[2] \in Nat
          BY <4>1, Zenon
        <5> QED
          BY <3>1, <5>2, <5>3
      <4>2. CASE s = Statement
        BY <3>1, <4>2 DEF Statement
      <4> QED
        BY <3>1, <3>3, <4>1, <4>2, Zenon
    <3>4. file'.applied \subseteq Nat \X Nat
      BY <3>1 DEF Statement
    <3> QED
      BY <2>1, <3>1, <3>2, <3>3, <3>4, Zenon
  <2> QED
    BY <1>7, <2>2, <2>3, Zenon DEF Apply
<1>8. CASE SetVersion
  <2>1. /\ flow.at = "migrate" /\ UNCHANGED <<keychain, known, lost>>
        /\ file'.version = file.version + 1
        /\ file'.key = file.key /\ file'.applied = file.applied
        /\ flow'.at = flow.at /\ flow'.phrase = flow.phrase /\ flow'.kind = flow.kind
    BY <1>8, Zenon DEF SetVersion, history
  <2>2. ASSUME flow.kind = "create", file.key = Key(flow.phrase), NEW s \in file.applied
        PROVE  s[1] <= file'.version
    <3>1. s[1] \in Nat
      BY Zenon
    <3> QED
      BY <2>1, <2>2, <3>1
  <2> QED
    BY <2>1, <2>2, Zenon
<1>9. CASE Migrated
  BY <1>9, FlowEffect DEF Migrated, Readable
<1>10. CASE LoadAccount
  BY <1>10, FlowEffect DEF LoadAccount, history
<1>11. CASE RestoreNext
  BY <1>11, FlowEffect, Zenon DEF RestoreNext, Fail, history
<1>12. CASE RestoreDone
  BY <1>12, FlowEffect DEF RestoreDone, history
<1>13. CASE SetOwnAddr
  BY <1>13, FlowEffect DEF SetOwnAddr, history
<1>14. CASE Ready
  BY <1>14, FlowEffect DEF Ready, history
<1>15. CASE WriteDown
  BY <1>15, Zenon DEF WriteDown, history
<1>16. CASE Close
  BY <1>16, FlowEffect, Zenon DEF Close, history
<1>17. ASSUME NEW st \in {"off", "error"}, Stop(st) PROVE FileInv'
  BY <1>17, FlowEffect, Zenon DEF Stop
<1>18. CASE UNCHANGED deviceVars
  BY <1>18, Zenon DEF deviceVars, history
<1> QED
  BY <1>1, <1>2, <1>3, <1>4, <1>5, <1>6, <1>7, <1>8, <1>9, <1>10, <1>11, <1>12, <1>13,
     <1>14, <1>15, <1>16, <1>17, <1>18, ZenonT(30) DEF DeviceNext, Step

\* The sequence u is s, of length a, followed by t, of length b.
Joins(u, s, t, a, b) ==
  /\ u \in Seq(Items) /\ Len(u) = a + b
  /\ \A k \in 1..a : u[k] = s[k]
  /\ \A k \in 1..b : u[a + k] = t[k]

LEMMA Joined ==
  ASSUME NEW s \in Seq(Items), NEW t \in Seq(Items), NEW a, NEW b, Len(s) = a, Len(t) = b
  PROVE  Joins(s \o t, s, t, a, b)
<1>1. s \o t \in Seq(Items) /\ Len(s \o t) = Len(s) + Len(t)
  OBVIOUS
<1>2. ASSUME NEW k \in 1..Len(s) PROVE (s \o t)[k] = s[k]
  OBVIOUS
<1>3. ASSUME NEW k \in 1..Len(t) PROVE (s \o t)[Len(s) + k] = t[k]
  OBVIOUS
<1> QED
  BY <1>1, <1>2, <1>3, Zenon DEF Joins

\* restore_into writes the fields, next_write_n one by one, and the messages.
LEMMA ScriptAt ==
  /\ Len(Script) = 9 + Writes + Len(Messages)
  /\ /\ Script[1] = "account" /\ Script[2] = "own_addr" /\ Script[3] = "seq"
     /\ Script[4] = "contact" /\ Script[5] = "addr" /\ Script[6] = "secret"
  /\ \A k \in 7..(6 + Writes) : Script[k] = "n"
  /\ /\ Script[7 + Writes] = "session" /\ Script[8 + Writes] = "transport"
     /\ Script[9 + Writes] = "otk"
  /\ \A j \in 1..Len(Messages) : Script[9 + Writes + j] = Messages[j]
<1> DEFINE A == <<"account", "own_addr", "seq", "contact", "addr", "secret">>
           B == [i \in 1..Writes |-> "n"]
           C == <<"session", "transport", "otk">>
<1>1. A \in Seq(Items) /\ Len(A) = 6
  BY DEF Items, Fields
<1>2. B \in Seq(Items) /\ Len(B) = Writes
  <2>1. "n" \in Items
    BY Zenon DEF Items, Fields
  <2> QED
    BY <2>1, StoreAssumption DEF StoreAssumption
<1>3. C \in Seq(Items) /\ Len(C) = 3
  BY DEF Items, Fields
<1>4. Messages \in Seq(Items) /\ Writes \in Nat
  BY StoreAssumption DEF StoreAssumption
<1>6. Script = ((A \o B) \o C) \o Messages
  BY Zenon DEF Script
<1>7. /\ A[1] = "account" /\ A[2] = "own_addr" /\ A[3] = "seq"
      /\ A[4] = "contact" /\ A[5] = "addr" /\ A[6] = "secret"
      /\ \A i \in 1..Writes : B[i] = "n"
      /\ C[1] = "session" /\ C[2] = "transport" /\ C[3] = "otk"
  BY Zenon
<1> HIDE DEF A, B, C
<1>8. /\ A \o B \in Seq(Items) /\ Len(A \o B) = 6 + Writes
      /\ \A k \in 1..6 : (A \o B)[k] = A[k]
      /\ \A k \in 1..Writes : (A \o B)[6 + k] = B[k]
  <2>1. Joins(A \o B, A, B, 6, Writes)
    BY <1>1, <1>2, Joined, Zenon
  <2> QED
    BY <2>1, Zenon DEF Joins
<1> DEFINE D == A \o B
<1>9. /\ D \o C \in Seq(Items) /\ Len(D \o C) = (6 + Writes) + 3
      /\ \A k \in 1..(6 + Writes) : (D \o C)[k] = D[k]
      /\ \A k \in 1..3 : (D \o C)[6 + Writes + k] = C[k]
  <2>1. D \in Seq(Items) /\ Len(D) = 6 + Writes
    BY <1>8, Zenon
  <2> HIDE DEF D
  <2> QED
    <3>1. Joins(D \o C, D, C, 6 + Writes, 3)
      BY <1>3, <2>1, Joined, Zenon
    <3> QED
      BY <3>1, Zenon DEF Joins
<1> HIDE DEF D
<1> DEFINE E == D \o C
<1>10. /\ Len(E \o Messages) = 9 + Writes + Len(Messages)
       /\ \A k \in 1..(9 + Writes) : (E \o Messages)[k] = E[k]
       /\ \A k \in 1..Len(Messages) : (E \o Messages)[9 + Writes + k] = Messages[k]
  <2>1. E \in Seq(Items) /\ Len(E) = 9 + Writes
    BY <1>4, <1>9
  <2> DEFINE b == Len(Messages)
  <2>2. Len(Messages) = b
    BY Zenon
  <2> HIDE DEF E, b
  <2>3. /\ Len(E \o Messages) = (9 + Writes) + b
        /\ \A k \in 1..(9 + Writes) : (E \o Messages)[k] = E[k]
        /\ \A k \in 1..b : (E \o Messages)[9 + Writes + k] = Messages[k]
    <3>1. Joins(E \o Messages, E, Messages, 9 + Writes, b)
      BY <1>4, <2>1, <2>2, Joined, Zenon
    <3> QED
      BY <3>1, Zenon DEF Joins
  <2> QED
    BY <2>2, <2>3, Zenon
<1> HIDE DEF E
<1>11. Script = E \o Messages
  BY <1>6, Zenon DEF D, E
<1>12. /\ \A k \in 1..6 : Script[k] = A[k]
       /\ \A k \in 7..(6 + Writes) : Script[k] = B[k - 6]
       /\ \A k \in 1..3 : Script[6 + Writes + k] = C[k]
  <2>1. ASSUME NEW k \in 1..6 PROVE Script[k] = A[k]
    <3>1. k \in 1..(6 + Writes) /\ k \in 1..(9 + Writes)
      BY <1>4
    <3>2. Script[k] = E[k] /\ E[k] = D[k]
      BY <1>9, <1>10, <1>11, <3>1, Zenon DEF E
    <3> QED
      BY <1>8, <3>2, Zenon DEF D
  <2>2. ASSUME NEW k \in 7..(6 + Writes) PROVE Script[k] = B[k - 6]
    <3>1. /\ k - 6 \in 1..Writes /\ k = 6 + (k - 6)
          /\ k \in 1..(6 + Writes) /\ k \in 1..(9 + Writes)
      BY <1>4
    <3>2. (A \o B)[k] = B[k - 6]
      BY <1>8, <3>1, Zenon
    <3>3. Script[k] = E[k] /\ E[k] = D[k]
      BY <1>9, <1>10, <1>11, <3>1, Zenon DEF E
    <3> QED
      BY <3>2, <3>3, Zenon DEF D
  <2>3. ASSUME NEW k \in 1..3 PROVE Script[6 + Writes + k] = C[k]
    <3>1. 6 + Writes + k \in 1..(9 + Writes)
      BY <1>4
    <3> QED
      BY <1>9, <1>10, <1>11, <3>1, Zenon DEF E
  <2> QED
    BY <2>1, <2>2, <2>3, Zenon
<1>13. /\ Script[7 + Writes] = "session" /\ Script[8 + Writes] = "transport"
       /\ Script[9 + Writes] = "otk"
  <2>1. /\ 7 + Writes = 6 + Writes + 1 /\ 8 + Writes = 6 + Writes + 2
        /\ 9 + Writes = 6 + Writes + 3
    BY <1>4
  <2> QED
    BY <1>7, <1>12, <2>1
<1>14. \A k \in 7..(6 + Writes) : Script[k] = "n"
  BY <1>4, <1>7, <1>12
<1>15. /\ Len(Script) = 9 + Writes + Len(Messages)
       /\ \A j \in 1..Len(Messages) : Script[9 + Writes + j] = Messages[j]
  BY <1>10, <1>11, Zenon
<1>16. /\ Script[1] = "account" /\ Script[2] = "own_addr" /\ Script[3] = "seq"
       /\ Script[4] = "contact" /\ Script[5] = "addr" /\ Script[6] = "secret"
  BY <1>7, <1>12
<1> QED
  BY <1>13, <1>14, <1>15, <1>16, Zenon

\* It writes every item, and all but next_write_n once.
LEMMA ScriptWrites ==
  /\ Len(Script) \in Nat /\ Writes \in Nat /\ Len(Script) >= 9 + Writes
  /\ \A k \in 1..Len(Script) : /\ Script[k] \in Items
                               /\ Script[k] = "n" <=> k \in 7..(6 + Writes)
                               /\ Script[k] = "account" <=> k = 1
  /\ \A i \in Items \ {"n"} : \E k \in 1..Len(Script) : Script[k] = i
<1>1. /\ Len(Messages) \in Nat /\ Writes \in Nat
      /\ \A j \in 1..Len(Messages) : Messages[j] \in Items \ Fields
  BY StoreAssumption DEF StoreAssumption
<1>2. ASSUME NEW k \in 1..Len(Script)
      PROVE  /\ Script[k] \in Items
             /\ Script[k] = "n" <=> k \in 7..(6 + Writes)
             /\ Script[k] = "account" <=> k = 1
  <2>1. CASE k \in 1..6
    BY <1>1, <2>1, ScriptAt DEF Items, Fields
  <2>2. CASE k \in 7..(6 + Writes)
    BY <1>1, <2>2, ScriptAt, Zenon DEF Items, Fields
  <2>3. CASE k \in (7 + Writes)..(9 + Writes)
    <3>1. k = 7 + Writes \/ k = 8 + Writes \/ k = 9 + Writes
      BY <1>1, <2>3
    <3>2. Script[k] \in {"session", "transport", "otk"}
      BY <3>1, ScriptAt, Zenon
    <3> QED
      BY <1>1, <2>3, <3>2 DEF Items, Fields
  <2>4. CASE k > 9 + Writes
    <3> DEFINE j == k - (9 + Writes)
    <3>1. j \in 1..Len(Messages) /\ k = 9 + Writes + j
      BY <1>1, <2>4, ScriptAt
    <3>2. Script[k] = Messages[j]
      BY <3>1, ScriptAt, Zenon
    <3> QED
      BY <1>1, <2>4, <3>1, <3>2 DEF Fields
  <2> QED
    BY <1>1, <2>1, <2>2, <2>3, <2>4, ScriptAt
<1>3. ASSUME NEW i \in Items \ {"n"} PROVE \E k \in 1..Len(Script) : Script[k] = i
  <2>1. CASE i \in Fields
    <3>1. /\ 1 \in 1..Len(Script) /\ 2 \in 1..Len(Script) /\ 3 \in 1..Len(Script)
          /\ 4 \in 1..Len(Script) /\ 5 \in 1..Len(Script) /\ 6 \in 1..Len(Script)
          /\ 7 + Writes \in 1..Len(Script) /\ 8 + Writes \in 1..Len(Script)
          /\ 9 + Writes \in 1..Len(Script)
      BY <1>1, ScriptAt
    <3>2. CASE i \in {"account", "own_addr", "seq", "contact", "addr", "secret"}
      BY <3>1, <3>2, ScriptAt
    <3>3. CASE i \in {"session", "transport", "otk"}
      BY <3>1, <3>3, ScriptAt, Zenon
    <3> QED
      BY <2>1, <3>2, <3>3, Zenon DEF Fields
  <2>2. CASE i \notin Fields
    <3>1. PICK j \in 1..Len(Messages) : Messages[j] = i
      BY <2>2, StoreAssumption DEF Items, StoreAssumption
    <3>2. 9 + Writes + j \in 1..Len(Script)
      BY <1>1, ScriptAt
    <3> QED
      BY <3>1, <3>2, ScriptAt, Zenon
  <2> QED
    BY <2>1, <2>2, Zenon
<1> QED
  BY <1>1, <1>2, <1>3, ScriptAt

\* One more call of restore_into.
LEMMA PartialStep ==
  ASSUME FlowShape, NEW k \in 0..Len(Script), k < Len(Script), Partial(k),
         Write(Script[k + 1])
  PROVE  Partial(k + 1)'
<1> DEFINE i == Script[k + 1]
<1>1. k + 1 \in 1..Len(Script) /\ Writes \in Nat /\ k \in Nat
  BY ScriptWrites
<1>2. /\ i \in Items /\ (i = "n" <=> k + 1 \in 7..(6 + Writes))
      /\ (i = "account" <=> k + 1 = 1)
  BY <1>1, ScriptWrites, Zenon
<1>3. row' = [row EXCEPT ![i] = IF i = "n" THEN row[i] + 1 ELSE 1] /\ row \in [Items -> Nat]
  BY Zenon DEF Write, FlowShape
<1>4. \A j \in 1..(k + 1) : j \in 1..k \/ j = k + 1
  BY <1>1
<1>5. /\ \A j \in 1..k : j \in 1..(k + 1)
      /\ k + 1 \in 1..(k + 1)
  BY <1>1
<1>6. ASSUME NEW x \in Items \ {"account", "n"}
      PROVE  row'[x] = IF \E j \in 1..(k + 1) : Script[j] = x THEN 1 ELSE 0
  <2>1. row[x] = IF \E j \in 1..k : Script[j] = x THEN 1 ELSE 0
    BY Zenon DEF Partial
  <2>2. CASE x = i
    <3>1. row'[x] = 1
      BY <1>2, <1>3, <2>2, Zenon
    <3> QED
      BY <1>5, <2>2, <3>1, Zenon
  <2>3. CASE x # i
    <3>1. row'[x] = row[x]
      BY <1>2, <1>3, <2>3, Zenon
    <3>2. (\E j \in 1..(k + 1) : Script[j] = x) <=> (\E j \in 1..k : Script[j] = x)
      BY <1>4, <1>5, <2>3, Zenon
    <3> QED
      BY <2>1, <3>1, <3>2, Zenon
  <2> QED
    BY <2>2, <2>3, Zenon
<1>7. row'["account"] = 1
  <2>1. "account" \in Items
    BY Zenon DEF Items, Fields
  <2>2. CASE i = "account"
    BY <1>3, <2>1, <2>2, Zenon
  <2>3. CASE i # "account"
    <3>1. row["account"] = 1
      BY <1>1, <1>2, <2>3 DEF Partial
    <3> QED
      BY <1>3, <2>1, <2>3, <3>1, Zenon
  <2> QED
    BY <2>2, <2>3, Zenon
<1>8. row'["n"] = Counted(k + 1)
  <2>1. "n" \in Items /\ row["n"] = Counted(k)
    BY Zenon DEF Items, Fields, Partial
  <2>2. CASE i = "n"
    <3>1. row'["n"] = Counted(k) + 1
      BY <1>3, <2>1, <2>2, Zenon
    <3> QED
      BY <1>1, <1>2, <2>2, <3>1 DEF Counted
  <2>3. CASE i # "n"
    <3>1. row'["n"] = Counted(k)
      BY <1>3, <2>1, <2>3, Zenon
    <3> QED
      BY <1>1, <1>2, <2>3, <3>1 DEF Counted
  <2> QED
    BY <2>2, <2>3, Zenon
<1> QED
  BY <1>1, <1>6, <1>7, <1>8, Zenon DEF Partial, Counted

\* All calls of restore_into.
LEMMA PartialIsWhole ==
  ASSUME FlowShape, Partial(Len(Script))
  PROVE  row = Restored
<1>1. row \in [Items -> Nat] /\ Restored \in [Items -> Nat]
  BY ScriptWrites, Zenon DEF FlowShape, Restored
<1>2. ASSUME NEW i \in Items PROVE row[i] = Restored[i]
  <2>1. CASE i = "n"
    BY <1>1, <2>1, ScriptWrites DEF Partial, Counted, Restored
  <2>2. CASE i = "account"
    BY <1>1, <2>2, ScriptWrites DEF Partial, Restored
  <2>3. CASE i \notin {"account", "n"}
    <3>1. \E j \in 1..Len(Script) : Script[j] = i
      BY <2>3, ScriptWrites, Zenon
    <3>2. row[i] = 1
      BY <2>3, <3>1, Zenon DEF Partial
    <3> QED
      BY <2>3, <3>2, Zenon DEF Restored
  <2> QED
    BY <2>1, <2>2, <2>3, Zenon
<1> QED
  BY <1>1, <1>2

\* The first restore_into finds tables with nothing in them but an account, and
\* nothing else writes to them until it is done.
LEMMA RowStep ==
  ASSUME FlowShape, FlowInv, RowInv, [DeviceNext]_deviceVars
  PROVE  RowInv'
<1> USE DEF FlowShape, FlowInv, RowInv, RestoredWhole
<1>0. ASSUME UNCHANGED <<row, begun>>, keychain' = keychain,
             flow'.at \notin {"script", "own_addr", "save"}, status' # "ready"
      PROVE  RowInv'
  BY <1>0, Zenon
<1>1. CASE openExisting
  BY <1>0, <1>1, FlowEffect DEF openExisting, Begin, history
<1>2. CASE createIdentity
  BY <1>0, <1>2, FlowEffect DEF createIdentity, Begin
<1>3. CASE restoreFromPhrase
  BY <1>0, <1>3, FlowEffect DEF restoreFromPhrase, Begin, history
<1>4. CASE importFromBackup
  BY <1>0, <1>4, FlowEffect DEF importFromBackup, Begin, history
<1>5. CASE Fetch
  BY <1>0, <1>5, FlowEffect DEF Fetch, Fail, history
<1>6. CASE WrongKey
  BY <1>0, <1>6, FlowEffect, Zenon DEF WrongKey, Fail, history
<1>7. CASE Apply
  BY <1>0, <1>7, FlowEffect, Zenon DEF Apply, Fail, history
<1>8. CASE SetVersion
  BY <1>0, <1>8, FlowEffect, Zenon DEF SetVersion, history
<1>9. CASE Migrated
  <2>1. /\ UNCHANGED <<row, keychain, status>> /\ flow.at = "migrate" /\ flow'.done = 0
        /\ \/ flow'.at = "account" /\ begun' = begun
           \/ flow'.at = "script" /\ begun' = begun + 1 /\ flow.kind # "open"
    BY <1>9, FlowEffect DEF Migrated
  <2>2. ASSUME begun = 0, flow.kind # "open" PROVE Partial(0)'
    <3>1. \A i \in Items \ {"account"} : row[i] = 0
      BY <2>1, <2>2, Zenon
    <3>2. "n" \in Items
      BY Zenon DEF Items, Fields
    <3> QED
      BY <2>1, <3>1, <3>2, ScriptWrites DEF Partial, Counted
  <2>3. begun' = 1 /\ flow'.at = "script" => Partial(flow.done)'
    BY <2>1, <2>2
  <2>4. 0 \in 0..Len(Script)
    BY ScriptWrites
  <2> QED
    BY <2>1, <2>3, <2>4
<1>10. CASE LoadAccount
  <2>1. /\ flow'.at = "save" /\ flow'.kind = flow.kind /\ flow.at = "account"
        /\ UNCHANGED <<keychain, begun, status>>
    BY <1>10, FlowEffect DEF LoadAccount, history
  <2>2. \A i \in Items \ {"account"} : row'[i] = row[i]
    BY <1>10, Zenon DEF LoadAccount
  <2> QED
    BY <2>1, <2>2, Zenon
<1>11. CASE RestoreNext
  <2>1. /\ flow.at = "script" /\ flow.done < Len(Script) /\ begun # 0
        /\ UNCHANGED <<keychain, begun>>
    BY <1>11, Zenon DEF RestoreNext, history
  <2>2. CASE Fail
    BY <2>1, <2>2, FlowEffect, Zenon DEF Fail
  <2>3. CASE /\ Write(Script[flow.done + 1])
             /\ flow' = [flow EXCEPT !.done = @ + 1] /\ UNCHANGED status
    <3>1. flow'.at = "script" /\ flow'.done = flow.done + 1 /\ flow'.kind = flow.kind
      BY <2>1, <2>3, Zenon
    <3>2. PICK k \in Nat : k = flow.done
      BY Zenon
    <3>3. begun = 1 => Partial(flow.done)'
      <4>1. begun = 1 => Partial(k + 1)'
        BY <2>1, <2>3, <3>2, PartialStep, Zenon
      <4>2. flow'.done = k + 1
        BY <3>1, <3>2, Zenon
      <4> QED
        BY <4>1, <4>2, Zenon
    <3>4. flow.done + 1 \in 0..Len(Script)
      BY <2>1, ScriptWrites
    <3> QED
      BY <2>1, <2>3, <3>1, <3>3, <3>4, Zenon
  <2> QED
    BY <1>11, <2>2, <2>3, Zenon DEF RestoreNext
<1>12. CASE RestoreDone
  <2>1. /\ flow.at = "script" /\ flow.done = Len(Script) /\ begun # 0
        /\ UNCHANGED <<keychain, row, begun, status>>
        /\ flow'.kind = flow.kind
        /\ flow'.at = IF flow.kind = "restore" THEN "own_addr" ELSE "save"
    BY <1>12, FlowEffect DEF RestoreDone, history
  <2>2. begun = 1 => row = Restored
    BY <2>1, PartialIsWhole, Zenon
  <2> QED
    BY <2>1, <2>2, Zenon DEF Whole, Restored
<1>13. CASE SetOwnAddr
  <2>1. /\ flow.at = "own_addr" /\ flow'.at = "save" /\ flow'.kind = flow.kind
        /\ row' = [row EXCEPT !["own_addr"] = 2]
        /\ UNCHANGED <<keychain, begun, status>>
    BY <1>13, FlowEffect DEF SetOwnAddr, history
  <2>2. begun = 1 => row' = Whole(flow.kind)
    BY <2>1, Zenon DEF Whole
  <2> QED
    BY <2>1, <2>2, Zenon DEF Whole, Restored
<1>14. CASE Ready
  BY <1>14, FlowEffect, StoreAssumption DEF Ready, history, Whole, StoreAssumption
<1>15. CASE WriteDown
  BY <1>15, Zenon DEF WriteDown, history
<1>16. CASE Close
  BY <1>0, <1>16, FlowEffect, Zenon DEF Close, history
<1>17. ASSUME NEW st \in {"off", "error"}, Stop(st) PROVE RowInv'
  BY <1>0, <1>17, FlowEffect, Zenon DEF Stop
<1>18. CASE UNCHANGED deviceVars
  BY <1>18, Zenon DEF deviceVars, history, Partial
<1> QED
  BY <1>1, <1>2, <1>3, <1>4, <1>5, <1>6, <1>7, <1>8, <1>9, <1>10, <1>11, <1>12, <1>13,
     <1>14, <1>15, <1>16, <1>17, <1>18, ZenonT(30) DEF DeviceNext, Step

\* A first launch, or the first one of a new release.
LEMMA StoreInit == DeviceInit => FlowShape /\ FlowInv /\ FileInv /\ RowInv
<1> SUFFICES ASSUME DeviceInit PROVE FlowShape /\ FlowInv /\ FileInv /\ RowInv
  BY Zenon
<1>1. /\ flow.at = "none" /\ flow.kind = "none" /\ flow.done = 0
      /\ flow = [kind |-> flow.kind, phrase |-> flow.phrase, at |-> flow.at, done |-> flow.done]
  BY Zenon DEF DeviceInit, NoFlow
<1>2. CASE keychain = None /\ file = NoFile /\ row = Empty
  <2>1. file = [key |-> None, version |-> 0, applied |-> {}]
    BY <1>2, Zenon DEF NoFile
  <2> QED
    BY <1>1, <1>2, <2>1, StoreAssumption
    DEF DeviceInit, FlowShape, FlowInv, FileInv, RowInv, RestoredWhole, StoreAssumption, Empty
<1>3. ASSUME NEW v \in 1..Latest, keychain = Old, row = Restored,
             file = [key |-> Key(Old), version |-> v, applied |-> Through(v)]
      PROVE  FlowShape /\ FlowInv /\ FileInv /\ RowInv
  <2>1. Through(v) \subseteq Nat \X Nat /\ v \in Nat
    BY DEF Through
  <2>2. Restored \in [Items -> Nat]
    BY StoreAssumption, ZenonT(30) DEF Restored, StoreAssumption
  <2>3. FlowShape /\ FlowInv
    BY <1>1, <1>3, <2>1, <2>2, StoreAssumption
    DEF DeviceInit, FlowShape, FlowInv, StoreAssumption
  <2>4. FileInv
    BY <1>1, <1>3, <2>1, StoreAssumption, Zenon DEF DeviceInit, FileInv, StoreAssumption
  <2>5. RowInv
    BY <1>1, <1>3, StoreAssumption, Zenon DEF DeviceInit, RowInv, RestoredWhole, StoreAssumption
  <2> QED
    BY <2>3, <2>4, <2>5, Zenon
<1> QED
  BY <1>2, <1>3, Zenon DEF DeviceInit

\* The invariants together, for every behaviour.
LEMMA StoreInvariant == DeviceSpec => [](FlowShape /\ FlowInv /\ FileInv /\ RowInv)
<1>1. (FlowShape /\ FlowInv /\ FileInv /\ RowInv) /\ [DeviceNext]_deviceVars
        => (FlowShape /\ FlowInv /\ FileInv /\ RowInv)'
  BY FlowStep, FileStep, RowStep, Zenon
<1> QED
  BY <1>1, StoreInit, PTL DEF DeviceSpec

\* While no call is going on, the key of the file is that of the saved phrase, of one
\* the user has, or of a creation that was stopped before it saved its phrase
\* (createIdentity), whatever was killed or failed and tried again before.
THEOREM StoreSafe == DeviceSpec => []StoreReachable
<1>1. FlowShape /\ FileInv => StoreReachable
  BY Zenon DEF FlowShape, FileInv, StoreReachable
<1> QED
  BY <1>1, StoreInvariant, PTL

\* A device that is ready after the one restore_into it began has in its tables what
\* the bundle holds, for any Writes and Messages: each call of restore_into has been
\* made once, and what a creation that was stopped had left was empty.
THEOREM RestoreSafe == DeviceSpec => []RestoredWhole
<1>1. RowInv => RestoredWhole
  BY Zenon DEF RowInv
<1> QED
  BY <1>1, StoreInvariant, PTL
=============================================================================
