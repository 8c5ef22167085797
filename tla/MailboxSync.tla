---------------------------- MODULE MailboxSync -----------------------------
(***************************************************************************)
(* An owner's client, its Server mailbox and the contacts who write to it: *)
(* slot registration in add_contact, the Server branch of deliver, and     *)
(* sync with its watermark (client.rs), over the tables of Mailbox.        *)
(*                                                                         *)
(* sync runs as concurrent tasks: every screen of the app starts one on    *)
(* its own.  A task keeps its fetched answer, its list of new blobs and    *)
(* its loaded session in memory between steps, and loses them when the app *)
(* is killed.                                                              *)
(*                                                                         *)
(* Contacts write once the pair's Olm session is established, here by the  *)
(* owner's first message; how a session comes about, and goes wrong, is    *)
(* the subject of Session.  A write stands for any payload, and a row of   *)
(* the inbox for the payload having been applied.                          *)
(***************************************************************************)
EXTENDS Mailbox

CONSTANTS
  Tasks,      \* sync calls that may run at the same time
  MaxMoves,   \* bound on set_own_server_addr
  MaxKills    \* bound on the app being killed

NoServer == "none"

VARIABLES
  own,        \* owner: its Server mailbox, in memory
  ownStored,  \* owner: the same in the store
  poisoned,   \* owner: a panic happened while server_addr was locked
  pairing,    \* owner: pairings completed with each contact
  reg,        \* owner: add_contact's slot loop: next n, where it registers,
              \* and whether it ran into an error
  consumed,   \* owner: message keys the stored session of a contact has used
  inbox,      \* owner: incoming rows of the messages table, by slot
  watermark,  \* owner: last_synced_blob_id
  task,       \* owner: the sync calls
  addr,       \* contact: the owner's server address on file
  secret,     \* contact: the pairing its pair_secret comes from
  nextN,      \* contact: next_write_n
  ready,      \* contact: it has stored the pair's Olm session
  sendKey,    \* contact: message key that session will use next
  attempts,   \* contact: writes tried
  moves, kills,
  lost        \* history: decrypted, session saved, killed before the insert

owner   == <<own, ownStored, poisoned, pairing, reg, consumed, inbox, watermark, task>>
contact == <<addr, secret, nextN, ready, sendKey, attempts>>
bounds  == <<moves, kills>>
vars    == <<mailbox, owner, contact, bounds, lost>>

\* A sync call: where it stands, the fetched blobs, ids still to process, the
\* highest id seen, ids to acknowledge, and the session keys it has loaded.
Idle == [pc |-> "idle", got |-> <<>>, todo |-> <<>>, high |-> 0, acks |-> {},
         loaded |-> {}]

TaskSteps == {"idle", "fetched", "loop", "save", "insert", "mark"}

Sync == [pc : TaskSteps, got : Seq(Blob), todo : Seq(Nat), high : Nat,
         acks : SUBSET Nat, loaded : SUBSET Nat]

Addr == Servers \cup {NoServer}

TypeOK ==
  /\ MailboxTypeOK
  /\ own \in Addr /\ ownStored \in Addr
  /\ poisoned \in BOOLEAN
  /\ pairing \in [Contacts -> Nat]
  /\ reg \in [Contacts -> [n : 0..Batch, at : Addr, failed : BOOLEAN]]
  /\ \A c \in Contacts : reg[c].n < Batch => reg[c].at \in Servers
  /\ consumed \in [Contacts -> SUBSET Nat]
  /\ inbox \subseteq Slot
  /\ watermark \in Nat
  /\ task \in [Tasks -> Sync]
  /\ addr \in [Contacts -> Addr]
  /\ secret \in [Contacts -> Nat]
  /\ nextN \in [Contacts -> Nat]
  /\ sendKey \in [Contacts -> Nat]
  /\ lost \subseteq Slot

Init ==
  /\ MailboxInit
  /\ own = NoServer /\ ownStored = NoServer
  /\ poisoned = FALSE
  /\ pairing = [c \in Contacts |-> 0]
  /\ reg = [c \in Contacts |-> [n |-> Batch, at |-> NoServer, failed |-> FALSE]]
  /\ consumed = [c \in Contacts |-> {}]
  /\ inbox = {}
  /\ watermark = 0
  /\ task = [t \in Tasks |-> Idle]
  /\ addr = [c \in Contacts |-> NoServer]
  /\ secret = [c \in Contacts |-> 0]
  /\ nextN = [c \in Contacts |-> 0]
  /\ ready = [c \in Contacts |-> FALSE]
  /\ sendKey = [c \in Contacts |-> 0]
  /\ attempts = [c \in Contacts |-> 0]
  /\ moves = 0 /\ kills = 0
  /\ lost = {}
-----------------------------------------------------------------------------
\* set_own_server_addr, and clear_own_server_addr for NoServer: persist, then
\* remember unless the lock is poisoned.  No slot is registered, the watermark
\* stays.  The broadcast they spawn is PointerArrives.
set_own_server_addr(s) ==
  /\ moves < MaxMoves
  /\ s # ownStored
  /\ ownStored' = s
  /\ own' = IF poisoned THEN own ELSE s
  /\ moves' = moves + 1
  /\ UNCHANGED <<mailbox, poisoned, pairing, reg, consumed, inbox, watermark,
                 task, contact, kills, lost>>

\* add_contact on the owner's side: the row is stored, then the slot loop
\* starts if there is a Server mailbox.  With the lock poisoned, it panics
\* between the two.
add_contact(c) ==
  /\ pairing[c] < MaxPairings
  /\ reg[c].n = Batch
  /\ pairing' = [pairing EXCEPT ![c] = @ + 1]
  /\ reg' = [reg EXCEPT ![c] =
       [n |-> IF poisoned \/ own = NoServer THEN Batch ELSE 0, at |-> own,
        failed |-> poisoned]]
  /\ UNCHANGED <<mailbox, own, ownStored, poisoned, consumed, inbox, watermark, task,
                 contact, bounds, lost>>

\* One register_slot call of the loop is answered.
RegisterNext(c) ==
  /\ reg[c].n < Batch
  /\ register_slot(reg[c].at, [from |-> c, pairing |-> pairing[c], n |-> reg[c].n])
  /\ reg' = [reg EXCEPT ![c].n = @ + 1]
  /\ UNCHANGED <<own, ownStored, poisoned, pairing, consumed, inbox, watermark, task,
                 contact, bounds, lost>>

\* One fails, or its answer is lost: add_contact returns the error and the
\* rest stays unregistered.
RegisterFails(c) ==
  /\ reg[c].n < Batch
  /\ \/ register_slot(reg[c].at, [from |-> c, pairing |-> pairing[c], n |-> reg[c].n])
     \/ UNCHANGED mailbox
  /\ reg' = [reg EXCEPT ![c] = [@ EXCEPT !.n = Batch, !.failed = TRUE]]
  /\ UNCHANGED <<own, ownStored, poisoned, pairing, consumed, inbox, watermark, task,
                 contact, bounds, lost>>

\* add_contact on the contact's side, from the owner's payload.  next_write_n
\* and the session keep their values when a pair is paired again.
ContactPairs(c) ==
  /\ secret[c] < pairing[c]
  /\ secret' = [secret EXCEPT ![c] = pairing[c]]
  /\ addr' = [addr EXCEPT ![c] = IF own = NoServer THEN @ ELSE own]
  /\ UNCHANGED <<mailbox, owner, nextN, ready, sendKey, attempts, bounds, lost>>

\* A broadcast pointer update reaches the contact.
PointerArrives(c) ==
  /\ secret[c] > 0
  /\ addr[c] # own
  /\ addr' = [addr EXCEPT ![c] = own]
  /\ UNCHANGED <<mailbox, owner, secret, nextN, ready, sendKey, attempts, bounds,
                 lost>>

\* The owner's first message reaches the contact, which accepts its session.
OwnerSendsFirst(c) ==
  /\ secret[c] > 0
  /\ ~ready[c]
  /\ ready' = [ready EXCEPT ![c] = TRUE]
  /\ UNCHANGED <<mailbox, owner, addr, secret, nextN, sendKey, attempts, bounds,
                 lost>>
-----------------------------------------------------------------------------
\* deliver, Server branch: the sequence number is spent before the call; the
\* session is saved only when the call comes back Ok.
CanWrite(c) == ready[c] /\ addr[c] # NoServer /\ attempts[c] < MaxWrites

NextSlot(c) == [from |-> c, pairing |-> secret[c], n |-> nextN[c]]

SpendN(c) ==
  /\ nextN' = [nextN EXCEPT ![c] = @ + 1]
  /\ attempts' = [attempts EXCEPT ![c] = @ + 1]

\* Mutant: the sequence number is spent only when the call succeeds.
WriteFails_KeepsN(c) ==
  /\ CanWrite(c)
  /\ \/ reject_write(addr[c], NextSlot(c))
     \/ accept_write(addr[c], NextSlot(c), sendKey[c])
     \/ UNCHANGED mailbox
  /\ attempts' = [attempts EXCEPT ![c] = @ + 1]
  /\ UNCHANGED <<owner, addr, secret, nextN, ready, sendKey, bounds, lost>>

WriteOk(c) ==
  /\ CanWrite(c)
  /\ accept_write(addr[c], NextSlot(c), sendKey[c])
  /\ SpendN(c)
  /\ sendKey' = [sendKey EXCEPT ![c] = @ + 1]
  /\ UNCHANGED <<owner, addr, secret, ready, bounds, lost>>

\* The call fails: refused, lost on the way, or its answer lost.
WriteFails(c) ==
  /\ CanWrite(c)
  /\ \/ reject_write(addr[c], NextSlot(c))
     \/ accept_write(addr[c], NextSlot(c), sendKey[c])
     \/ UNCHANGED mailbox
  /\ SpendN(c)
  /\ UNCHANGED <<owner, addr, secret, ready, sendKey, bounds, lost>>
-----------------------------------------------------------------------------
\* The message the task is working on.
Handled(t) == task[t].got[Head(task[t].todo)].slot

\* What a step of sync leaves alone besides its task.
SyncFrame == UNCHANGED <<own, ownStored, poisoned, pairing, reg, contact, bounds, lost>>

\* Mutant: fetching acknowledges.
Fetch_Acks(t) ==
  /\ task[t].pc = "idle"
  /\ ~poisoned
  /\ own # NoServer
  /\ task' = [task EXCEPT ![t] = [Idle EXCEPT !.pc = "fetched", !.got = blobs[own]]]
  /\ ack(own, DOMAIN blobs[own])
  /\ UNCHANGED <<consumed, inbox, watermark>> /\ SyncFrame

\* Fetch is answered with everything stored.
Fetch(t) ==
  /\ task[t].pc = "idle"
  /\ ~poisoned
  /\ own # NoServer
  /\ task' = [task EXCEPT ![t] = [Idle EXCEPT !.pc = "fetched", !.got = blobs[own]]]
  /\ UNCHANGED <<mailbox, consumed, inbox, watermark>> /\ SyncFrame

\* The ids above a mark, up to the last one fetched.
Above(mark, last) == [i \in 1..(last - mark) |-> mark + i]

\* Mutants: the watermark is advanced before the blobs are processed; the
\* first new id is skipped.
Filter_MarksFirst(t) ==
  /\ task[t].pc = "fetched"
  /\ task' = [task EXCEPT ![t] =
       [@ EXCEPT !.pc = "loop", !.high = watermark,
                 !.todo = Above(watermark, Len(task[t].got))]]
  /\ watermark' = IF Len(task[t].got) > watermark THEN Len(task[t].got) ELSE watermark
  /\ UNCHANGED <<mailbox, consumed, inbox>> /\ SyncFrame

Filter_SkipsOne(t) ==
  /\ task[t].pc = "fetched"
  /\ task' = [task EXCEPT ![t] =
       [@ EXCEPT !.pc = "loop", !.high = watermark,
                 !.todo = Above(watermark + 1, Len(task[t].got))]]
  /\ UNCHANGED <<mailbox, consumed, inbox, watermark>> /\ SyncFrame

\* The watermark is read after the answer has arrived; ids above it are new.
Filter(t) ==
  /\ task[t].pc = "fetched"
  /\ task' = [task EXCEPT ![t] =
       [@ EXCEPT !.pc = "loop", !.high = watermark,
                 !.todo = Above(watermark, Len(task[t].got))]]
  /\ UNCHANGED <<mailbox, consumed, inbox, watermark>> /\ SyncFrame

\* The loop body up to the decryption.  A blob whose key the loaded session
\* has used up is unattributable, but acknowledged all the same.
Decrypt(t) ==
  LET id == Head(task[t].todo)
      b  == task[t].got[id]
      c  == b.slot.from
  IN
  /\ task[t].pc = "loop"
  /\ task[t].todo # <<>>
  /\ \/ /\ b.key \notin consumed[c]
        /\ task' = [task EXCEPT ![t] =
             [@ EXCEPT !.pc = "save", !.high = id, !.loaded = consumed[c]]]
     \/ /\ b.key \in consumed[c]
        /\ task' = [task EXCEPT ![t] =
             [@ EXCEPT !.todo = Tail(task[t].todo), !.high = id,
                       !.acks = task[t].acks \cup {id}]]
  /\ UNCHANGED <<mailbox, consumed, inbox, watermark>> /\ SyncFrame

\* save_session_pickle overwrites whatever was stored meanwhile.
Save(t) ==
  LET b == task[t].got[Head(task[t].todo)]
  IN
  /\ task[t].pc = "save"
  /\ consumed' = [consumed EXCEPT ![b.slot.from] = task[t].loaded \cup {b.key}]
  /\ task' = [task EXCEPT ![t].pc = "insert"]
  /\ UNCHANGED <<mailbox, inbox, watermark>> /\ SyncFrame

\* insert_message; a duplicate msg_id is an error that ends the sync.
Insert(t) ==
  LET id == Head(task[t].todo)
      m  == task[t].got[id].slot
  IN
  /\ task[t].pc = "insert"
  /\ \/ /\ m \in inbox
        /\ task' = [task EXCEPT ![t] = Idle]
        /\ UNCHANGED inbox
     \/ /\ m \notin inbox
        /\ inbox' = inbox \cup {m}
        /\ task' = [task EXCEPT ![t] =
             [@ EXCEPT !.pc = "loop", !.todo = Tail(task[t].todo),
                       !.acks = task[t].acks \cup {id}]]
  /\ UNCHANGED <<mailbox, consumed, watermark>> /\ SyncFrame

\* The Ack call, to the server that is configured by now.  It is skipped when
\* there is nothing to acknowledge.
Ack(t) ==
  /\ task[t].pc = "loop"
  /\ task[t].todo = <<>>
  /\ \/ /\ task[t].acks = {}
        /\ UNCHANGED mailbox
     \/ /\ task[t].acks # {}
        /\ ~poisoned /\ own # NoServer
        /\ ack(own, task[t].acks)
  /\ task' = [task EXCEPT ![t].pc = "mark"]
  /\ UNCHANGED <<consumed, inbox, watermark>> /\ SyncFrame

\* The call fails, or its answer is lost, and sync returns the error.
AckFails(t) ==
  /\ task[t].pc = "loop"
  /\ task[t].todo = <<>>
  /\ task[t].acks # {}
  /\ ~poisoned /\ own # NoServer
  /\ ack(own, task[t].acks) \/ UNCHANGED mailbox
  /\ task' = [task EXCEPT ![t] = Idle]
  /\ UNCHANGED <<consumed, inbox, watermark>> /\ SyncFrame

\* The unwrap of the server address before the Ack call panics when the
\* address is gone by now; the lock it holds is poisoned.
AckPanics(t) ==
  /\ task[t].pc = "loop"
  /\ task[t].todo = <<>>
  /\ task[t].acks # {}
  /\ poisoned \/ own = NoServer
  /\ poisoned' = TRUE
  /\ task' = [task EXCEPT ![t] = Idle]
  /\ UNCHANGED <<mailbox, own, ownStored, pairing, reg, consumed, inbox, watermark, contact,
                 bounds, lost>>

\* set_last_synced_blob_id, unconditionally, then the same unwrap before the
\* poll for failed deliveries, which touches none of this state.
Mark(t) ==
  /\ task[t].pc = "mark"
  /\ watermark' = task[t].high
  /\ task' = [task EXCEPT ![t] = Idle]
  /\ poisoned' = (poisoned \/ own = NoServer)
  /\ UNCHANGED <<mailbox, own, ownStored, pairing, reg, consumed, inbox, contact, bounds, lost>>

\* The app is killed and started again: its sync calls and slot loops are gone.
Kill ==
  /\ kills < MaxKills
  /\ kills' = kills + 1
  /\ task' = [t \in Tasks |-> Idle]
  /\ reg' = [c \in Contacts |-> [reg[c] EXCEPT !.n = Batch,
                                  !.failed = @ \/ reg[c].n < Batch]]
  /\ poisoned' = FALSE
  /\ own' = ownStored
  /\ lost' = lost \cup ({Handled(t) : t \in {u \in Tasks : task[u].pc = "insert"}}
                          \ inbox)
  /\ UNCHANGED <<mailbox, ownStored, pairing, consumed, inbox, watermark,
                 contact, moves>>

Next ==
  \/ \E s \in Servers \cup {NoServer} : set_own_server_addr(s)
  \/ \E c \in Contacts : add_contact(c) \/ RegisterNext(c) \/ RegisterFails(c)
  \/ \E c \in Contacts : ContactPairs(c) \/ PointerArrives(c) \/ OwnerSendsFirst(c)
  \/ \E c \in Contacts : WriteOk(c) \/ WriteFails(c)
  \/ \E t \in Tasks : Fetch(t) \/ Filter(t) \/ Decrypt(t) \/ Save(t) \/ Insert(t)
  \/ \E t \in Tasks : Ack(t) \/ AckFails(t) \/ AckPanics(t) \/ Mark(t)
  \/ Kill

Spec == Init /\ [][Next]_vars

\* The steps a sync takes without waiting for an answer.
TaskStep(t) ==
  Filter(t) \/ Decrypt(t) \/ Save(t) \/ Insert(t) \/ AckPanics(t) \/ Mark(t)

\* The user keeps opening the app, calls are answered in the end, and tasks run.
Fairness ==
  \A t \in Tasks : WF_vars(Fetch(t)) /\ WF_vars(TaskStep(t)) /\ SF_vars(Ack(t))

FairSpec == Spec /\ Fairness
-----------------------------------------------------------------------------
Inserting == {Handled(t) : t \in {u \in Tasks : task[u].pc = "insert"}}

\* What has become of a blob the owner is done with: stored, about to be
\* stored, or lost with the app.
Kept == inbox \cup lost \cup Inserting

\* Its message key served for another blob, so that it cannot be decrypted:
\* the contact's earlier call was served but not answered.
Shadowed(s, b) ==
  \E i \in DOMAIN blobs[s] :
    LET d == blobs[s][i]
    IN d.slot # b.slot /\ d.slot.from = b.slot.from /\ d.key = b.key /\ d.slot \in Kept

\* Every blob at or below the watermark of the configured server was stored,
\* unless its key was used twice or the app was killed between saving the
\* session and inserting the message.  Nothing is skipped by concurrent syncs.
\* This is for an owner that has had one server, which it may have removed and
\* set again: the watermark of one is wrong for another.
WatermarkCovers ==
  own # NoServer =>
    \A i \in DOMAIN blobs[own] :
      i <= watermark => blobs[own][i].slot \in Kept \/ Shadowed(own, blobs[own][i])

\* The same for what the server has been told: a blob marked delivered was
\* kept by the owner.  Acknowledging comes after storing in every sync.
DeliveredWasKept ==
  \A s \in Servers : \A i \in DOMAIN blobs[s] :
    blobs[s][i].delivered =>
      blobs[s][i].slot \in Kept \/ Shadowed(s, blobs[s][i])

\* A contact's next write finds its slot while fewer than a batch were tried,
\* if add_contact's loop completed against the server the contact writes to:
\* failed calls leave the two sides' numbering in step.
NextSlotRegistered ==
  \A c \in Contacts :
    /\ secret[c] > 0 /\ secret[c] = pairing[c]
    /\ reg[c].n = Batch /\ ~reg[c].failed /\ reg[c].at = addr[c]
    /\ addr[c] # NoServer /\ nextN[c] < Batch
    => NextSlot(c) \in slots[addr[c]]

\* Every blob the server accepted reaches the messages table in the end, with
\* the exceptions WatermarkCovers names, unless the owner turns away from that
\* server before or a panic has made its syncs impossible.
BlobsArrive ==
  \A s \in Servers :
    []<>(\/ own # s \/ poisoned
         \/ \A i \in DOMAIN blobs[s] :
              blobs[s][i].slot \in Kept \/ Shadowed(s, blobs[s][i]))

\* A paired contact whose pairing met no error can write to the owner's Server
\* mailbox, whichever it is now, for the first batch of writes.
ServerChangeTransparent ==
  \A c \in Contacts :
    /\ secret[c] > 0 /\ secret[c] = pairing[c]
    /\ reg[c].n = Batch /\ ~reg[c].failed
    /\ own # NoServer /\ addr[c] = own /\ nextN[c] < Batch
    => NextSlot(c) \in slots[own]

\* Removing the Server mailbox leaves a working Local-only client: no later
\* call panics on the lock of the address.
RemovalRevertsToLocal == ownStored = NoServer => ~poisoned
=============================================================================
