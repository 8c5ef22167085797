-------------------------------- MODULE Node ---------------------------------
(***************************************************************************)
(* A pm-node as its clients see it: the request handler (handler.rs) over  *)
(* the mailbox tables and the backup row (store.rs), the limiter and the   *)
(* retry queue, with the frame sizes of the wire protocol                  *)
(* (node_protocol.rs) and what spawn finds after a restart (lib.rs,        *)
(* main.rs).  The limiter is the budget that RateLimiter is shown to       *)
(* implement.  ScheduleRetry and PollFailedDeliveries pass the same owner  *)
(* check and go to the retry queue, which shares no row with the rest:     *)
(* they are the subject of RetryQueue and Outbox.                          *)
(*                                                                         *)
(* A connection carries one request, handled in one go: only a write may   *)
(* be interrupted, between the two statements of its transaction.  Fetch   *)
(* and GetBackup change nothing and are the operators of those names.      *)
(***************************************************************************)
EXTENDS Padding, Sequences

CONSTANTS
  Remotes,       \* endpoint ids that connect
  Owner,         \* the one whose requests carry the mailbox_key
  Hashes,        \* slot hashes; a Write's auth is known by its hash
  Lengths,       \* lengths of serialized envelopes
  Bundles,       \* lengths of serialized backup bundles
  MaxMessage,    \* MAX_MESSAGE_SIZE
  MaxPerWindow,  \* RATE_LIMIT_MAX_PER_WINDOW
  Window,        \* RATE_LIMIT_WINDOW
  MaxRegs,       \* bound on registrations of a slot hash
  MaxBlobs,      \* bound on blobs
  MaxRestarts    \* bound on restarts

NoSlot == "none"

ASSUME NodeAssumption ==
  /\ Owner \in Remotes /\ NoSlot \notin Hashes
  /\ Lengths \subseteq Nat /\ MaxMessage \in Nat
  /\ \A n \in Bundles : n \in Nat \ {0} /\ n + BACKUP_LEN_PREFIX <= 2^24

VARIABLES
  durable,    \* spawn was given a data_dir
  slots,      \* registered_slots
  blobs,      \* blobs, by id
  backup,     \* length of the bundle in the backup row, 0 without one
  tx,         \* the open transaction of a write
  left, used, kept, verdict,  \* the limiter, as in RateBudget
  restarts,
  regs,       \* history: how often each hash was registered
  told        \* history: what the node has answered Ok to

tables  == <<slots, blobs, backup>>
limiter == <<left, used, kept, verdict>>
vars    == <<durable, tables, tx, limiter, restarts, regs, told>>

Limiter == INSTANCE RateBudget

NoTx == [slot |-> NoSlot, blob |-> TooLarge]
Idle == tx = NoTx

Padded == {pad(len) : len \in Lengths} \cup {TooLarge}
Blob   == [slot : Hashes, blob : Padded, delivered : BOOLEAN]

TypeOK ==
  /\ durable \in BOOLEAN /\ restarts \in Nat
  /\ slots \subseteq Hashes
  /\ blobs \in Seq(Blob)
  /\ backup \in Bundles \cup {0}
  /\ tx \in [slot : Hashes \cup {NoSlot}, blob : Padded]
  /\ tx.slot = NoSlot => Idle
  /\ regs \in [Hashes -> Nat]
  /\ told \in [slots : SUBSET Hashes, sent : SUBSET Hashes,
               pushed : Bundles \cup {0}, unheard : BOOLEAN]

Nothing == [slots |-> {}, sent |-> {}, pushed |-> 0, unheard |-> FALSE]

Init ==
  /\ durable \in BOOLEAN
  /\ slots = {} /\ blobs = <<>> /\ backup = 0 /\ tx = NoTx
  /\ Limiter!Init
  /\ restarts = 0
  /\ regs = [h \in Hashes |-> 0]
  /\ told = Nothing
-----------------------------------------------------------------------------
(* Frames, in bytes: the bincode encoding of requests and responses.       *)
WriteFrame(blob)   == 4 + 32 + 8 + blob.size
PutBackupFrame(n)  == 4 + 32 + 8 + encrypt_backup(n)
BackupFrame(n)     == 4 + 1 + 8 + encrypt_backup(n)
BlobsFrame(bs)     == 4 + 8 + SumFunction([i \in DOMAIN bs |-> 8 + 8 + bs[i].blob.size + 1])

\* read_to_end: a longer frame is an error of the stream.
Read(frame) == frame <= MaxMessage

\* Fetch and GetBackup of the owner: the frame to be read, 0 for none.
Fetch     == BlobsFrame(blobs)
GetBackup == IF backup = 0 THEN 0 ELSE BackupFrame(backup)
-----------------------------------------------------------------------------

\* Mutant: the limiter is asked after the request was handled.
RegisterSlot_Late(r, h) ==
  /\ Idle /\ regs[h] < MaxRegs
  /\ slots' = slots \cup {h}
  /\ \/ Limiter!Refuse(r) /\ UNCHANGED <<kept, regs, told>>
     \/ /\ Limiter!Grant(r) /\ UNCHANGED kept
        /\ regs' = [regs EXCEPT ![h] = @ + 1]
        /\ told' = [told EXCEPT !.slots = @ \cup {h}]
  /\ UNCHANGED <<durable, blobs, backup, tx, restarts>>

\* The two throttled requests.  A refused one is not handled; a registration
\* by anyone but the owner is counted and turned down.
RegisterSlot(r, h) ==
  /\ Idle /\ regs[h] < MaxRegs
  /\ \/ Limiter!Refuse(r) /\ UNCHANGED <<slots, regs, told>>
     \/ Limiter!Grant(r) /\ r # Owner /\ UNCHANGED <<slots, regs, told>>
     \/ /\ Limiter!Grant(r) /\ r = Owner
        /\ slots' = slots \cup {h}
        /\ regs' = [regs EXCEPT ![h] = @ + 1]
        /\ told' = [told EXCEPT !.slots = @ \cup {h}]
  /\ UNCHANGED <<durable, blobs, backup, tx, kept, restarts>>

\* write: the slot's row is deleted, if it is there.
Write(r, h, len) ==
  /\ Idle /\ Len(blobs) < MaxBlobs
  /\ pad(len) # TooLarge /\ Read(WriteFrame(pad(len)))
  /\ \/ Limiter!Refuse(r) /\ UNCHANGED <<slots, tx>>
     \/ Limiter!Grant(r) /\ h \notin slots /\ UNCHANGED <<slots, tx>>
     \/ /\ Limiter!Grant(r) /\ h \in slots
        /\ slots' = slots \ {h}
        /\ tx' = [slot |-> h, blob |-> pad(len)]
  /\ UNCHANGED <<durable, blobs, backup, kept, restarts, regs, told>>

\* The blob is inserted, the transaction committed and the writer told.
Commit ==
  /\ ~Idle
  /\ blobs' = Append(blobs, [slot |-> tx.slot, blob |-> tx.blob, delivered |-> FALSE])
  /\ told' = [told EXCEPT !.sent = @ \cup {tx.slot}]
  /\ tx' = NoTx
  /\ UNCHANGED <<durable, slots, backup, limiter, restarts, regs>>

\* The owner's other requests are not throttled; with another key they change
\* nothing.  ack marks, and ignores ids it does not have.
Ack(ids) ==
  /\ Idle
  /\ blobs' = [i \in DOMAIN blobs |->
       [blobs[i] EXCEPT !.delivered = @ \/ i \in ids]]
  /\ UNCHANGED <<durable, slots, backup, tx, limiter, restarts, regs, told>>

\* put_backup replaces the row, unless the request is too long to be read.  The
\* answer may get lost on the way.
PutBackup(n) ==
  /\ Idle
  /\ Read(PutBackupFrame(n))
  /\ backup' = n
  /\ \E heard \in BOOLEAN :
       told' = IF heard THEN [told EXCEPT !.pushed = n, !.unheard = FALSE]
               ELSE [told EXCEPT !.unheard = TRUE]
  /\ UNCHANGED <<durable, slots, blobs, tx, limiter, restarts, regs>>

Tick ==
  /\ Limiter!Pass(1)
  /\ UNCHANGED <<durable, tables, tx, kept, restarts, regs, told>>

\* Mutant: what the transaction has deleted stays deleted.
Restart_NoRollback ==
  /\ restarts < MaxRestarts /\ restarts' = restarts + 1
  /\ Limiter!Forget
  /\ tx' = NoTx
  /\ UNCHANGED <<durable, tables, kept, regs, told>>

\* The process dies and is started again.  SQLite rolls an open transaction
\* back; a node without a data_dir starts empty.
Restart ==
  /\ restarts < MaxRestarts /\ restarts' = restarts + 1
  /\ Limiter!Forget
  /\ tx' = NoTx
  /\ IF durable
     THEN /\ slots' = slots \cup ({tx.slot} \ {NoSlot})
          /\ UNCHANGED <<blobs, backup>>
     ELSE slots' = {} /\ blobs' = <<>> /\ backup' = 0
  /\ UNCHANGED <<durable, kept, regs, told>>

Next ==
  \/ \E r \in Remotes, h \in Hashes :
       RegisterSlot(r, h) \/ \E len \in Lengths : Write(r, h, len)
  \/ Commit
  \/ \E ids \in SUBSET DOMAIN blobs : Ack(ids)
  \/ \E n \in Bundles : PutBackup(n)
  \/ Tick \/ Restart

Spec == Init /\ [][Next]_vars
-----------------------------------------------------------------------------
\* Nothing has been lost by a restart without a data_dir.
Kept == durable \/ restarts = 0

\* What the node has answered Ok to, it keeps: a registered slot is open or has
\* its blob, and a write that was accepted is in the mailbox, crashes inside a
\* write's transaction included.
ConfirmedKept ==
  Kept => /\ told.sent \subseteq {b.slot : b \in Range(blobs)}
          /\ told.slots \subseteq slots \cup {tx.slot} \cup {b.slot : b \in Range(blobs)}

\* A blob was paid for: no hash has more blobs, and open slots, than the owner
\* registered it, throttled and foreign registrations not counting.
PaidFor ==
  \A h \in Hashes :
    Cardinality({i \in DOMAIN blobs : blobs[i].slot = h})
      + (IF h \in slots \cup {tx.slot} THEN 1 ELSE 0) <= regs[h]

\* What comes back from the node reads as what was put there.  Every envelope
\* unpads to what was padded.  GetBackup returns the bundle of the last push that
\* was answered, unless a later push was carried out and its answer lost, and the
\* answer can be read, whatever sizes the node accepts.
ReadBack ==
  /\ \A b \in Range(blobs) : Unpads(b.blob)
  /\ Kept => /\ told.unheard \/ backup = told.pushed
             /\ Read(GetBackup)

\* Fetch "retrieves everything currently stored, delivered or not"
\* (node_protocol.rs), so its answer must be one the owner can read.
FetchAnswered == Read(Fetch)
=============================================================================
