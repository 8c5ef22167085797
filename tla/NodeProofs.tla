----------------------------- MODULE NodeProofs ------------------------------
(***************************************************************************)
(* Proofs about Node, for any clients, slots, sizes and limits: what the   *)
(* node has confirmed survives crashes, every blob was paid for with a     *)
(* registration, and what the owner reads back is what was put there.  The *)
(* first two rest on the slot of an open transaction being the one thing   *)
(* that is in neither table, the third on the arithmetic of padding.       *)
(***************************************************************************)
EXTENDS Node, FiniteSetTheorems, WellFoundedInduction, TLAPS

\* The slot a transaction has deleted is not registered again meanwhile.
TxApart == tx.slot \notin slots

\* Slots that have a blob.
Filled == {blobs[i].slot : i \in DOMAIN blobs}

\* How many blobs a slot hash has.
Blobs(h) == {i \in DOMAIN blobs : blobs[i].slot = h}
-----------------------------------------------------------------------------
\* The filled slots are those of the blobs, whatever their order.
LEMMA FilledIsRange == Filled = {b.slot : b \in Range(blobs)}
  BY DEF Filled, Range

\* A blob with its delivered flag set either way is the same blob otherwise.
LEMMA Marked ==
  ASSUME NEW b \in Blob, NEW x \in BOOLEAN
  PROVE  [b EXCEPT !.delivered = x] \in Blob /\ [b EXCEPT !.delivered = x].slot = b.slot
  BY DEF Blob

\* The mailbox of a new node is a sequence of blobs.
LEMMA EmptyMailbox == <<>> \in Seq(Blob)
OBVIOUS

\* ack marks blobs and moves none.
LEMMA AckKeepsSlots ==
  ASSUME TypeOK, NEW ids \in SUBSET DOMAIN blobs, Ack(ids)
  PROVE  /\ DOMAIN blobs' = DOMAIN blobs
         /\ \A i \in DOMAIN blobs : blobs'[i] \in Blob /\ blobs'[i].slot = blobs[i].slot
<1>1. DOMAIN blobs' = DOMAIN blobs
  BY DEF Ack
<1>2. ASSUME NEW i \in DOMAIN blobs
      PROVE  blobs'[i] \in Blob /\ blobs'[i].slot = blobs[i].slot
  <2>1. blobs[i] \in Blob
    BY DEF TypeOK
  <2>2. (blobs[i].delivered \/ i \in ids) \in BOOLEAN
    OBVIOUS
  <2>3. blobs'[i] = [blobs[i] EXCEPT !.delivered = blobs[i].delivered \/ i \in ids]
    BY DEF Ack
  <2> QED
    BY <2>1, <2>2, <2>3, Marked, Zenon
<1> QED
  BY <1>1, <1>2

\* Every action keeps the variables in shape, and the open slot apart.
LEMMA TypeStep == TypeOK /\ TxApart /\ [Next]_vars => TypeOK' /\ TxApart'
<1> SUFFICES ASSUME TypeOK, TxApart, [Next]_vars PROVE TypeOK' /\ TxApart'
  OBVIOUS
<1> USE NodeAssumption DEF NodeAssumption, TypeOK, TxApart
<1>1. ASSUME NEW r \in Remotes, NEW h \in Hashes, RegisterSlot(r, h)
      PROVE  TypeOK' /\ TxApart'
  <2>1. /\ UNCHANGED <<durable, blobs, backup, tx, restarts>> /\ Idle
        /\ slots' = slots \/ slots' = slots \cup {h}
        /\ regs' = regs \/ regs' = [regs EXCEPT ![h] = @ + 1]
        /\ told' = told \/ told' = [told EXCEPT !.slots = @ \cup {h}]
    BY <1>1, Zenon DEF RegisterSlot
  <2>2. tx.slot = NoSlot
    BY <2>1, Zenon DEF Idle, NoTx
  <2>3. Idle'
    BY <2>1, Zenon DEF Idle
  <2>4. told' \in [slots : SUBSET Hashes, sent : SUBSET Hashes,
                   pushed : Bundles \cup {0}, unheard : BOOLEAN]
    <3>1. ASSUME told' = [told EXCEPT !.slots = @ \cup {h}]
          PROVE  told' \in [slots : SUBSET Hashes, sent : SUBSET Hashes,
                             pushed : Bundles \cup {0}, unheard : BOOLEAN]
      BY <3>1, Zenon
    <3> QED
      BY <2>1, <3>1, Zenon
  <2>5. regs' \in [Hashes -> Nat] /\ slots' \subseteq Hashes /\ NoSlot \notin slots'
    BY <2>1
  <2> QED
    BY <2>1, <2>2, <2>3, <2>4, <2>5, Zenon
<1>2. ASSUME NEW r \in Remotes, NEW h \in Hashes, NEW len \in Lengths, Write(r, h, len)
      PROVE  TypeOK' /\ TxApart'
  <2>1. /\ UNCHANGED <<durable, blobs, backup, restarts, regs, told>>
        /\ \/ UNCHANGED <<slots, tx>>
           \/ slots' = slots \ {h} /\ tx' = [slot |-> h, blob |-> pad(len)]
    BY <1>2, Zenon DEF Write
  <2>2. pad(len) \in Padded
    BY DEF Padded
  <2>3. CASE UNCHANGED <<slots, tx>>
    BY <2>1, <2>3, Zenon DEF Idle
  <2>4. CASE slots' = slots \ {h} /\ tx' = [slot |-> h, blob |-> pad(len)]
    <3>1. tx'.slot = h /\ tx' \in [slot : Hashes \cup {NoSlot}, blob : Padded]
      BY <2>2, <2>4, Zenon
    <3> QED
      BY <2>1, <2>4, <3>1, Zenon
  <2> QED
    BY <2>1, <2>3, <2>4, Zenon
<1>3. CASE Commit
  <2>1. tx.slot \in Hashes
    BY <1>3, Zenon DEF Commit
  <2>2. [slot |-> tx.slot, blob |-> tx.blob, delivered |-> FALSE] \in Blob
    BY <2>1, Zenon DEF Blob
  <2>3. blobs' \in Seq(Blob)
    BY <1>3, <2>2 DEF Commit
  <2>4. tx' = NoTx /\ NoTx \in [slot : Hashes \cup {NoSlot}, blob : Padded]
    BY <1>3, Zenon DEF Commit, NoTx, Padded
  <2>5. told' \in [slots : SUBSET Hashes, sent : SUBSET Hashes,
                   pushed : Bundles \cup {0}, unheard : BOOLEAN]
    BY <1>3, <2>1, Zenon DEF Commit
  <2>6. UNCHANGED <<durable, slots, backup, restarts, regs>> /\ NoTx.slot = NoSlot
    BY <1>3, Zenon DEF Commit, NoTx
  <2> QED
    BY <2>3, <2>4, <2>5, <2>6, Zenon DEF Idle
<1>4. ASSUME NEW ids \in SUBSET DOMAIN blobs, Ack(ids) PROVE TypeOK' /\ TxApart'
  <2>1. PICK n \in Nat : DOMAIN blobs = 1..n
    BY DEF TypeOK
  <2>2. blobs' \in [1..n -> Blob]
    BY <1>4, <2>1, AckKeepsSlots, Zenon DEF Ack
  <2>3. blobs' \in Seq(Blob)
    BY <2>1, <2>2
  <2> QED
    BY <1>4, <2>3, Zenon DEF Ack, Idle
<1>5. ASSUME NEW n \in Bundles, PutBackup(n) PROVE TypeOK' /\ TxApart'
  <2>1. told' \in [slots : SUBSET Hashes, sent : SUBSET Hashes,
                   pushed : Bundles \cup {0}, unheard : BOOLEAN]
    BY <1>5, ZenonT(30) DEF PutBackup
  <2> QED
    BY <1>5, <2>1, Zenon DEF PutBackup, Idle
<1>6. CASE Tick
  BY <1>6, Zenon DEF Tick, tables, Idle
<1>7. CASE Restart
  <2>1. tx' = NoTx /\ NoTx \in [slot : Hashes \cup {NoSlot}, blob : Padded]
    BY <1>7, Zenon DEF Restart, NoTx, Padded
  <2>2. slots' \subseteq Hashes /\ restarts' \in Nat /\ backup' \in Bundles \cup {0}
    BY <1>7 DEF Restart
  <2>3. blobs' \in Seq(Blob)
    <3>1. blobs' = blobs \/ blobs' = <<>>
      BY <1>7, Zenon DEF Restart
    <3> QED
      BY <3>1, EmptyMailbox, Zenon
  <2>4. UNCHANGED <<durable, regs, told>> /\ NoTx.slot = NoSlot
    BY <1>7, Zenon DEF Restart, NoTx
  <2> QED
    BY <2>1, <2>2, <2>3, <2>4, Zenon DEF Idle
<1>8. CASE UNCHANGED vars
  BY <1>8, Zenon DEF vars, tables, Idle
<1> QED
  BY <1>1, <1>2, <1>3, <1>4, <1>5, <1>6, <1>7, <1>8, Zenon DEF Next

\* A blob is added by Commit alone, and lost by an empty start alone.
LEMMA BlobsOf ==
  ASSUME TypeOK, NEW h \in Hashes
  PROVE  /\ IsFiniteSet(Blobs(h)) /\ Cardinality(Blobs(h)) \in Nat
         /\ Commit => Cardinality(Blobs(h)') =
              Cardinality(Blobs(h)) + (IF tx.slot = h THEN 1 ELSE 0)
         /\ \A ids \in SUBSET DOMAIN blobs : Ack(ids) => Blobs(h)' = Blobs(h)
<1>1. Len(blobs) \in Nat /\ DOMAIN blobs = 1..Len(blobs)
  BY DEF TypeOK
<1>2. IsFiniteSet(1..Len(blobs))
  BY <1>1, FS_Interval
<1>3. IsFiniteSet(Blobs(h)) /\ Cardinality(Blobs(h)) \in Nat
  BY <1>1, <1>2, FS_Subset, FS_CardinalityType DEF Blobs
<1>4. ASSUME Commit
      PROVE  Cardinality(Blobs(h)') = Cardinality(Blobs(h)) + (IF tx.slot = h THEN 1 ELSE 0)
  <2>1. /\ DOMAIN blobs' = 1..(Len(blobs) + 1)
        /\ \A i \in 1..Len(blobs) : blobs'[i] = blobs[i]
        /\ blobs'[Len(blobs) + 1].slot = tx.slot
    BY <1>1, <1>4 DEF Commit, TypeOK
  <2>2. Len(blobs) + 1 \notin Blobs(h)
    BY <1>1 DEF Blobs
  <2>3. CASE tx.slot = h
    <3>1. Blobs(h)' = Blobs(h) \cup {Len(blobs) + 1}
      BY <1>1, <2>1, <2>3 DEF Blobs
    <3> QED
      BY <1>3, <2>2, <2>3, <3>1, FS_AddElement, ZenonT(30)
  <2>4. CASE tx.slot # h
    <3>1. Blobs(h)' = Blobs(h)
      BY <1>1, <2>1, <2>4 DEF Blobs
    <3> QED
      BY <1>3, <2>4, <3>1
  <2> QED
    BY <2>3, <2>4
<1>5. ASSUME NEW ids \in SUBSET DOMAIN blobs, Ack(ids) PROVE Blobs(h)' = Blobs(h)
  <2>1. DOMAIN blobs' = DOMAIN blobs /\ \A i \in DOMAIN blobs : blobs'[i].slot = blobs[i].slot
    BY <1>5, AckKeepsSlots
  <2> QED
    BY <2>1 DEF Blobs
<1> QED
  BY <1>3, <1>4, <1>5

\* No hash has more blobs and open slots than registrations.
LEMMA PaidForStep ==
  ASSUME TypeOK, TxApart, PaidFor, [Next]_vars
  PROVE  PaidFor'
<1> DEFINE Unspent(h) == IF h \in slots \cup {tx.slot} THEN 1 ELSE 0
<1> SUFFICES ASSUME NEW h \in Hashes
             PROVE  Cardinality(Blobs(h)') + Unspent(h)' <= regs'[h]
  BY DEF PaidFor, Blobs
<1> USE NodeAssumption DEF NodeAssumption
<1>1. /\ Cardinality(Blobs(h)) + Unspent(h) <= regs[h]
      /\ Cardinality(Blobs(h)) \in Nat /\ regs[h] \in Nat
  BY BlobsOf, Zenon DEF PaidFor, Blobs, TypeOK
<1>2. ASSUME UNCHANGED blobs PROVE Blobs(h)' = Blobs(h)
  BY <1>2 DEF Blobs
<1>3. ASSUME UNCHANGED <<blobs, regs>>, h \in slots' \cup {tx'.slot} => h \in slots \cup {tx.slot}
      PROVE  Cardinality(Blobs(h)') + Unspent(h)' <= regs'[h]
  BY <1>1, <1>2, <1>3
<1>4. ASSUME NEW r \in Remotes, NEW g \in Hashes, RegisterSlot(r, g)
      PROVE  Cardinality(Blobs(h)') + Unspent(h)' <= regs'[h]
  <2>1. CASE UNCHANGED <<slots, regs>>
    BY <1>3, <1>4, <2>1, Zenon DEF RegisterSlot
  <2>2. CASE slots' = slots \cup {g} /\ regs' = [regs EXCEPT ![g] = @ + 1]
    <3>1. UNCHANGED <<blobs, tx>>
      BY <1>4, Zenon DEF RegisterSlot
    <3>2. CASE h = g
      <4>1. regs'[h] = regs[h] + 1 /\ Unspent(h)' = 1 /\ Unspent(h) \in {0, 1}
        BY <2>2, <3>2, Zenon DEF TypeOK
      <4> QED
        BY <1>1, <1>2, <3>1, <4>1
    <3>3. CASE h # g
      <4>1. regs'[h] = regs[h] /\ Unspent(h)' = Unspent(h)
        BY <2>2, <3>1, <3>3, Zenon DEF TypeOK
      <4> QED
        BY <1>1, <1>2, <3>1, <4>1, Zenon
    <3> QED
      BY <3>2, <3>3, Zenon
  <2> QED
    BY <1>4, <2>1, <2>2, Zenon DEF RegisterSlot
<1>5. ASSUME NEW r \in Remotes, NEW g \in Hashes, NEW len \in Lengths, Write(r, g, len)
      PROVE  Cardinality(Blobs(h)') + Unspent(h)' <= regs'[h]
  BY <1>3, <1>5 DEF Write
<1>6. CASE Commit
  <2>1. /\ UNCHANGED <<slots, regs>> /\ tx'.slot = NoSlot
        /\ tx.slot \notin slots /\ h # NoSlot
    BY <1>6, Zenon DEF Commit, NoTx, TxApart
  <2>2. Cardinality(Blobs(h)') = Cardinality(Blobs(h)) + (IF tx.slot = h THEN 1 ELSE 0)
    BY <1>6, BlobsOf, Zenon
  <2>3. Unspent(h) = Unspent(h)' + (IF tx.slot = h THEN 1 ELSE 0)
    BY <2>1
  <2>4. Unspent(h)' \in {0, 1}
    OBVIOUS
  <2> HIDE DEF Unspent
  <2> QED
    BY <1>1, <2>1, <2>2, <2>3, <2>4
<1>7. ASSUME NEW ids \in SUBSET DOMAIN blobs, Ack(ids)
      PROVE  Cardinality(Blobs(h)') + Unspent(h)' <= regs'[h]
  BY <1>1, <1>7, BlobsOf, Zenon DEF Ack
<1>8. ASSUME NEW n \in Bundles, PutBackup(n)
      PROVE  Cardinality(Blobs(h)') + Unspent(h)' <= regs'[h]
  BY <1>3, <1>8, Zenon DEF PutBackup
<1>9. CASE Tick \/ UNCHANGED vars
  BY <1>3, <1>9, Zenon DEF Tick, tables, vars
<1>10. CASE Restart
  <2>1. CASE durable
    BY <1>3, <1>10, <2>1, Zenon DEF Restart, NoTx
  <2>2. CASE ~durable
    <3>1. blobs' = <<>> /\ slots' = {} /\ tx'.slot = NoSlot /\ regs' = regs
      BY <1>10, <2>2, Zenon DEF Restart, NoTx
    <3>2. Blobs(h)' = {}
      BY <3>1 DEF Blobs
    <3> QED
      BY <1>1, <3>1, <3>2, FS_EmptySet
  <2> QED
    BY <2>1, <2>2
<1> QED
  BY <1>4, <1>5, <1>6, <1>7, <1>8, <1>9, <1>10, Zenon DEF Next

\* What was confirmed stays, the rollback of an open write included.
LEMMA ConfirmedStep ==
  ASSUME TypeOK, TxApart, ConfirmedKept, [Next]_vars
  PROVE  ConfirmedKept'
<1> SUFFICES ASSUME Kept'
             PROVE  /\ told'.sent \subseteq Filled'
                    /\ told'.slots \subseteq slots' \cup {tx'.slot} \cup Filled'
  BY FilledIsRange DEF ConfirmedKept, Filled, Range
<1>0. Kept /\ NoSlot \notin told.slots
  <2>1. Restart => restarts' # 0 /\ durable' = durable
    BY DEF Restart, TypeOK
  <2>2. ~Restart => UNCHANGED <<durable, restarts>>
    BY Zenon DEF Next, RegisterSlot, Write, Commit, Ack, PutBackup, Tick, vars
  <2> QED
    BY <2>1, <2>2, NodeAssumption DEF Kept, TypeOK, NodeAssumption
<1>1. /\ told.sent \subseteq Filled
      /\ told.slots \subseteq slots \cup {tx.slot} \cup Filled
  BY <1>0, FilledIsRange DEF ConfirmedKept
<1>2. ASSUME UNCHANGED blobs PROVE Filled' = Filled
  BY <1>2 DEF Filled
<1>3. ASSUME NEW r \in Remotes, NEW h \in Hashes, RegisterSlot(r, h)
      PROVE  /\ told'.sent \subseteq Filled'
             /\ told'.slots \subseteq slots' \cup {tx'.slot} \cup Filled'
  <2>1. UNCHANGED <<blobs, tx>>
    BY <1>3 DEF RegisterSlot
  <2>2. \/ UNCHANGED <<slots, told>>
        \/ /\ slots' = slots \cup {h}
           /\ told'.sent = told.sent /\ told'.slots = told.slots \cup {h}
    BY <1>3, Zenon DEF RegisterSlot, TypeOK
  <2> QED
    BY <1>1, <1>2, <2>1, <2>2
<1>4. ASSUME NEW r \in Remotes, NEW h \in Hashes, NEW len \in Lengths, Write(r, h, len)
      PROVE  /\ told'.sent \subseteq Filled'
             /\ told'.slots \subseteq slots' \cup {tx'.slot} \cup Filled'
  <2>1. UNCHANGED <<blobs, told>>
    BY <1>4, Zenon DEF Write
  <2>2. \/ UNCHANGED <<slots, tx>>
        \/ slots' = slots \ {h} /\ tx.slot = NoSlot /\ tx'.slot = h
    BY <1>4 DEF Write, Idle, NoTx
  <2> QED
    BY <1>0, <1>1, <1>2, <2>1, <2>2
<1>5. CASE Commit
  <2>1. Filled' = Filled \cup {tx.slot}
    <3>1. Len(blobs) \in Nat /\ DOMAIN blobs = 1..Len(blobs)
      BY DEF TypeOK
    <3>2. /\ DOMAIN blobs' = 1..(Len(blobs) + 1)
          /\ \A i \in 1..Len(blobs) : blobs'[i] = blobs[i]
          /\ blobs'[Len(blobs) + 1].slot = tx.slot
      BY <1>5, <3>1 DEF Commit, TypeOK
    <3> QED
      BY <3>1, <3>2 DEF Filled
  <2>2. /\ told'.sent = told.sent \cup {tx.slot} /\ told'.slots = told.slots
        /\ slots' = slots
    BY <1>5, Zenon DEF Commit, TypeOK
  <2> QED
    BY <1>1, <2>1, <2>2
<1>6. ASSUME NEW ids \in SUBSET DOMAIN blobs, Ack(ids)
      PROVE  /\ told'.sent \subseteq Filled'
             /\ told'.slots \subseteq slots' \cup {tx'.slot} \cup Filled'
  <2>1. Filled' = Filled
    BY <1>6, AckKeepsSlots DEF Filled
  <2> QED
    BY <1>1, <1>6, <2>1 DEF Ack
<1>7. ASSUME NEW n \in Bundles, PutBackup(n)
      PROVE  /\ told'.sent \subseteq Filled'
             /\ told'.slots \subseteq slots' \cup {tx'.slot} \cup Filled'
  <2>1. told'.sent = told.sent /\ told'.slots = told.slots
    BY <1>7 DEF PutBackup, TypeOK
  <2> QED
    BY <1>1, <1>2, <1>7, <2>1 DEF PutBackup
<1>8. CASE Tick \/ UNCHANGED vars
  BY <1>1, <1>2, <1>8, Zenon DEF Tick, tables, vars
<1>9. CASE Restart
  <2>1. durable
    BY <1>9 DEF Restart, Kept, TypeOK
  <2>2. /\ slots' = slots \cup ({tx.slot} \ {NoSlot})
        /\ UNCHANGED <<blobs, told>>
    BY <1>9, <2>1 DEF Restart
  <2> QED
    BY <1>0, <1>1, <1>2, <2>2
<1> QED
  BY <1>3, <1>4, <1>5, <1>6, <1>7, <1>8, <1>9, Zenon DEF Next

\* The initial states satisfy them all.
LEMMA NodeInit == Init => TypeOK /\ TxApart /\ PaidFor /\ ConfirmedKept
<1> SUFFICES ASSUME Init PROVE TypeOK /\ TxApart /\ PaidFor /\ ConfirmedKept
  OBVIOUS
<1>1. tx \in [slot : Hashes \cup {NoSlot}, blob : Padded] /\ tx.slot = NoSlot
  BY DEF Init, NoTx, Padded
<1>2. TypeOK
  BY <1>1, EmptyMailbox, Zenon DEF Init, TypeOK, Idle, Nothing
<1>3. TxApart
  BY DEF Init, TxApart
<1>4. PaidFor
  <2> SUFFICES ASSUME NEW h \in Hashes
               PROVE  Cardinality({i \in DOMAIN blobs : blobs[i].slot = h})
                        + (IF h \in slots \cup {tx.slot} THEN 1 ELSE 0) <= regs[h]
    BY DEF PaidFor
  <2>1. {i \in DOMAIN blobs : blobs[i].slot = h} = {}
    BY DEF Init
  <2>2. h # tx.slot /\ slots = {} /\ regs[h] = 0
    BY <1>1, NodeAssumption DEF Init, NodeAssumption
  <2>3. Cardinality({i \in DOMAIN blobs : blobs[i].slot = h}) = 0
    BY <2>1, FS_EmptySet
  <2>4. h \notin slots \cup {tx.slot}
    BY <2>2
  <2> QED
    BY <2>2, <2>3, <2>4
<1>5. ConfirmedKept
  BY DEF Init, ConfirmedKept, Nothing
<1> QED
  BY <1>2, <1>3, <1>4, <1>5

\* The invariants together, for every behaviour.
LEMMA NodeInvariant == Spec => [](TypeOK /\ TxApart /\ PaidFor /\ ConfirmedKept)
<1>1. (TypeOK /\ TxApart /\ PaidFor /\ ConfirmedKept) /\ [Next]_vars
        => (TypeOK /\ TxApart /\ PaidFor /\ ConfirmedKept)'
  BY TypeStep, PaidForStep, ConfirmedStep
<1> QED
  BY <1>1, NodeInit, PTL DEF Spec

\* A slot registration or a write the node has answered Ok to is there, unless
\* a node without a data_dir was restarted: write's transaction loses neither
\* the slot nor the blob in a crash.
THEOREM ConfirmedSurvives == Spec => []ConfirmedKept
  BY NodeInvariant, PTL

\* No slot admits more blobs than the owner registered it for, whoever writes
\* and however often the node crashes between a write's two statements.
THEOREM BlobsPaidFor == Spec => []PaidFor
  BY NodeInvariant, PTL
-----------------------------------------------------------------------------
\* A set of natural numbers has a least member, so Min is one of its members.
LEMMA MinIsMember ==
  ASSUME NEW T, T \subseteq Nat, T # {}
  PROVE  Min(T) \in T
<1> DEFINE R == OpToRel(<, Nat)
<1>1. IsWellFoundedOn(R, Nat)
  BY NatLessThanWellFounded, Zenon
<1>2. ASSUME NEW x \in Nat, NEW y \in Nat, y < x PROVE <<y, x>> \in R
  BY <1>2 DEF OpToRel
<1> HIDE DEF R
<1>3. PICK x \in T : \A y \in T : <<y, x>> \notin R
  BY <1>1, WFMin, Zenon
<1>4. ASSUME NEW y \in T PROVE x <= y
  <2>1. ~(y < x)
    BY <1>2, <1>3, Zenon
  <2> QED
    BY <2>1
<1> QED
  BY <1>4, Zenon DEF Min

\* pad declares the length of the data, and leaves room for it and the prefix.
LEMMA PadUnpads ==
  ASSUME NEW len \in Lengths, pad(len) # TooLarge
  PROVE  Unpads(pad(len))
<1> DEFINE fit == {b \in Buckets : b >= len + LEN_PREFIX_SIZE}
<1>1. fit # {} /\ pad(len) = [size |-> Min(fit), declared |-> len]
  BY DEF pad
<1>2. fit \subseteq Nat
  BY PaddingAssumption, Zenon DEF PaddingAssumption
<1>3. Min(fit) \in fit
  BY <1>1, <1>2, MinIsMember
<1>4. Min(fit) \in Nat /\ len \in Nat /\ Min(fit) >= len + 4
  BY <1>2, <1>3, NodeAssumption DEF NodeAssumption, LEN_PREFIX_SIZE
<1> HIDE DEF fit
<1> QED
  BY <1>1, <1>4 DEF Unpads, LEN_PREFIX_SIZE

\* The sealed length of a bundle is a number, the padded one having a bound.
LEMMA SealedLength ==
  ASSUME NEW n \in Bundles
  PROVE  encrypt_backup(n) \in Nat
<1> DEFINE m    == n + BACKUP_LEN_PREFIX
           fits == {i \in {2^k : k \in 0..24} : i >= m}
<1>1. n \in Nat /\ m \in Nat /\ m <= 2^24
  BY NodeAssumption DEF NodeAssumption, BACKUP_LEN_PREFIX
<1>2. ASSUME NEW k \in 0..24 PROVE 2^k \in Nat
  <2>0. k \in Int /\ 1 \in Int
    OBVIOUS
  <2>1. IsFiniteSet(1..k) /\ Cardinality(1..k) = IF 1 > k THEN 0 ELSE k - 1 + 1
    BY <2>0, FS_Interval, Zenon
  <2>2. Cardinality(1..k) = k
    BY <2>1
  <2>3. IsFiniteSet(SUBSET (1..k)) /\ Cardinality(SUBSET (1..k)) = 2^k
    BY <2>1, <2>2, FS_SUBSET, Zenon
  <2> QED
    BY <2>3, FS_CardinalityType
<1>3. fits \subseteq Nat
  BY <1>2
<1>4. 2^24 \in fits
  BY <1>1
<1> HIDE DEF fits
<1>5. Min(fits) \in Nat
  BY <1>3, <1>4, MinIsMember, Zenon
<1>6. next_power_of_two(m) \in Nat
  BY <1>5 DEF next_power_of_two, fits
<1>7. pad_backup(n) \in Nat
  <2> DEFINE p == next_power_of_two(m)
  <2>1. pad_backup(n) = Max({MIN_PADDED_LEN, p})
    BY DEF pad_backup
  <2> HIDE DEF p
  <2>2. PICK x \in {MIN_PADDED_LEN, p} : \A y \in {MIN_PADDED_LEN, p} : x >= y
    BY <1>6 DEF p, MIN_PADDED_LEN
  <2>3. Max({MIN_PADDED_LEN, p}) \in {MIN_PADDED_LEN, p}
    BY <2>2 DEF Max
  <2> QED
    BY <1>6, <2>1, <2>3 DEF p, MIN_PADDED_LEN
<1> QED
  BY <1>7 DEF encrypt_backup

\* The answer to GetBackup is shorter than the request that put the bundle there.
LEMMA AnswerIsShorter ==
  ASSUME NEW n \in Bundles, Read(PutBackupFrame(n))
  PROVE  Read(BackupFrame(n))
  BY SealedLength, NodeAssumption DEF Read, PutBackupFrame, BackupFrame, NodeAssumption

\* Every blob, and the one a transaction holds, is one pad has made of some
\* data; the bundle in the table came in a frame that could be read.
Readable ==
  /\ \A i \in DOMAIN blobs : Unpads(blobs[i].blob)
  /\ ~Idle => Unpads(tx.blob)
  /\ backup # 0 => Read(PutBackupFrame(backup))
  /\ Kept => told.unheard \/ backup = told.pushed

\* What reads stays readable.
LEMMA ReadableStep ==
  ASSUME TypeOK, Readable, [Next]_vars
  PROVE  Readable'
<1> USE DEF Readable
<1>1. ASSUME UNCHANGED <<blobs, tx, backup, durable, restarts, told>>
      PROVE  Readable'
  BY <1>1 DEF Idle, Kept
<1>2. ASSUME NEW r \in Remotes, NEW h \in Hashes, RegisterSlot(r, h)
      PROVE  Readable'
  <2>1. UNCHANGED <<blobs, tx, backup, durable, restarts>>
    BY <1>2, Zenon DEF RegisterSlot
  <2>2. told'.unheard = told.unheard /\ told'.pushed = told.pushed
    BY <1>2, Zenon DEF RegisterSlot, TypeOK
  <2> QED
    BY <2>1, <2>2, Zenon DEF Idle, Kept
<1>3. ASSUME NEW r \in Remotes, NEW h \in Hashes, NEW len \in Lengths, Write(r, h, len)
      PROVE  Readable'
  <2>1. UNCHANGED <<blobs, backup, durable, restarts, told>> /\ Idle
    BY <1>3, Zenon DEF Write
  <2>2. tx' = tx \/ tx'.blob = pad(len)
    BY <1>3 DEF Write
  <2>3. Unpads(pad(len))
    BY <1>3, PadUnpads, Zenon DEF Write
  <2> QED
    BY <2>1, <2>2, <2>3, Zenon DEF Idle, Kept
<1>4. CASE Commit
  <2>1. Len(blobs) \in Nat /\ DOMAIN blobs = 1..Len(blobs)
    BY DEF TypeOK
  <2>2. /\ DOMAIN blobs' = 1..(Len(blobs) + 1)
        /\ \A i \in 1..Len(blobs) : blobs'[i] = blobs[i]
        /\ blobs'[Len(blobs) + 1].blob = tx.blob
    BY <1>4, <2>1 DEF Commit, TypeOK
  <2>3. \A i \in DOMAIN blobs' : Unpads(blobs'[i].blob)
    <3> SUFFICES ASSUME NEW i \in DOMAIN blobs' PROVE Unpads(blobs'[i].blob)
      OBVIOUS
    <3>1. CASE i \in 1..Len(blobs)
      BY <2>1, <2>2, <3>1
    <3>2. CASE i = Len(blobs) + 1
      BY <1>4, <2>2, <3>2, Zenon DEF Commit
    <3> QED
      BY <2>1, <2>2, <3>1, <3>2
  <2>4. /\ UNCHANGED <<backup, durable, restarts>> /\ Idle'
        /\ told'.unheard = told.unheard /\ told'.pushed = told.pushed
    BY <1>4, Zenon DEF Commit, TypeOK, Idle
  <2> QED
    BY <2>3, <2>4, Zenon DEF Kept
<1>5. ASSUME NEW ids \in SUBSET DOMAIN blobs, Ack(ids) PROVE Readable'
  <2>1. \A i \in DOMAIN blobs : blobs[i] \in Blob
    BY DEF TypeOK
  <2>2. \A i \in DOMAIN blobs' : i \in DOMAIN blobs /\ blobs'[i].blob = blobs[i].blob
    BY <1>5, <2>1 DEF Ack, Blob
  <2> QED
    BY <1>5, <2>2, Zenon DEF Ack, Idle, Kept
<1>6. ASSUME NEW n \in Bundles, PutBackup(n) PROVE Readable'
  <2>1. UNCHANGED <<blobs, tx, durable, restarts>> /\ backup' = n /\ Read(PutBackupFrame(n))
    BY <1>6 DEF PutBackup
  <2>2. told'.unheard \/ told'.pushed = n
    BY <1>6, Zenon DEF PutBackup, TypeOK
  <2> QED
    BY <2>1, <2>2, Zenon DEF Idle, Kept
<1>7. CASE Tick \/ UNCHANGED vars
  BY <1>1, <1>7, Zenon DEF Tick, tables, vars
<1>8. CASE Restart
  <2>1. CASE durable
    BY <1>8, <2>1, Zenon DEF Restart, Idle, Kept
  <2>2. CASE ~durable
    <3>1. ~Kept'
      BY <1>8, <2>2 DEF Restart, Kept, TypeOK
    <3> QED
      BY <1>8, <2>2, <3>1 DEF Restart, Idle
  <2> QED
    BY <2>1, <2>2, Zenon
<1> QED
  BY <1>2, <1>3, <1>4, <1>5, <1>6, <1>7, <1>8, Zenon DEF Next

\* A readable node answers with what was put there.
LEMMA ReadableIsReadBack ==
  ASSUME TypeOK, Readable
  PROVE  ReadBack
<1>1. \A b \in Range(blobs) : Unpads(b.blob)
  BY DEF Readable, Range
<1>2. Read(GetBackup)
  <2>1. CASE backup = 0
    BY <2>1, NodeAssumption DEF GetBackup, Read, NodeAssumption
  <2>2. CASE backup # 0
    <3>1. backup \in Bundles /\ Read(PutBackupFrame(backup))
      BY <2>2 DEF TypeOK, Readable
    <3>2. Read(BackupFrame(backup))
      BY <3>1, AnswerIsShorter
    <3> QED
      BY <2>2, <3>2 DEF GetBackup
  <2> QED
    BY <2>1, <2>2
<1> QED
  BY <1>1, <1>2 DEF ReadBack, Readable

\* Every envelope in the mailbox unpads to what was padded, and GetBackup, whose
\* answer is never too long to be read, returns the last bundle pushed: whatever
\* the sizes the node lets in and whenever it crashes.
THEOREM ReadsBack == Spec => []ReadBack
<1>1. Init => TypeOK /\ TxApart /\ Readable
  <2> SUFFICES ASSUME Init PROVE Readable
    BY NodeInit
  <2> QED
    BY DEF Init, Readable, Nothing, Idle
<1>2. (TypeOK /\ TxApart /\ Readable) /\ [Next]_vars => (TypeOK /\ TxApart /\ Readable)'
  BY TypeStep, ReadableStep
<1>3. TypeOK /\ TxApart /\ Readable => ReadBack
  BY ReadableIsReadBack
<1> QED
  BY <1>1, <1>2, <1>3, PTL DEF Spec
=============================================================================
