------------------------------- MODULE Backup --------------------------------
(***************************************************************************)
(* Backups of a device and the device restored from one: assemble and      *)
(* restore_into (pm-core/backup.rs), push_backup, export_backup, restore   *)
(* and import_backup (client.rs), while the device talks to one contact.   *)
(*                                                                         *)
(* assemble reads the store row by row, in no transaction, while deliver   *)
(* and sync write to it on other threads; deliver and sync themselves take *)
(* turns here (Session and MailboxSync interleave them).  The two sides    *)
(* write to each other's Server, keep what they were sent there, and start *)
(* with the contact having read the device's first message.  A message     *)
(* stands for any payload that is stored under its msg_id.  A write of the *)
(* device may get no answer: it was not served, is served later, or was    *)
(* served and the answer is lost.  The contact's writes are answered.      *)
(***************************************************************************)
EXTENDS Ratchet, FiniteSets

CONSTANTS
  Batch,       \* slots the contact has registered for the device
  MaxSends,    \* bound on the device's messages
  MaxReplies,  \* bound on the contact's messages
  MaxLosses,   \* bound on the device's writes that get no answer
  MaxBackups,  \* bound on backups made
  MaxRestores  \* bound on the device being lost and restored

ASSUME BatchAssumption == Batch \in Nat \ {0}

Places == {"server", "file"}

VARIABLES
  dev,        \* the device's store: session, message rows, next_write_n, watermark
  call,       \* its deliver call
  sync,       \* its sync call
  asm,        \* its assemble call
  copies,     \* the backup on its Server and the exported one
  blobs,      \* its mailbox
  peer,       \* the contact's session, message rows and watermark
  peerBlobs,  \* the contact's mailbox
  slots,      \* the contact's unspent slots for the device
  late,       \* writes given up that may still be served
  sends, replies, losses, backups, restores,
  fresh,      \* ratchet keys generated so far
  refused,    \* history: slot numbers refused since the restore
  reused,     \* history: blobs of the contact written at a position used before
  before      \* history: what the restored device has missed

server == <<peerBlobs, slots, reused>>
bounds == <<sends, replies, losses, backups, restores>>
vars   == <<dev, call, sync, asm, copies, blobs, peer, server, late, bounds, fresh, refused,
            before>>

\* An envelope of the id-th message of one side.
Envelope(s, id) == [id |-> id, chain |-> s.chain, idx |-> s.idx, otk |-> HeaderKey(s)]

First    == Envelope(Outbound(1, 1), 0)
NoCall   == [pc |-> "idle", sess |-> Outbound(1, 1), id |-> 0]
NoSync   == [pc |-> "idle", todo |-> <<>>, high |-> 0]
NoAsm    == [pc |-> "idle", to |-> "file", n |-> 0, sess |-> Outbound(1, 1)]
NoBundle == [n |-> 0, sess |-> Outbound(1, 1), rows |-> {}, made |-> FALSE]
Nothing  == [rows |-> {}, spent |-> {}, behind |-> FALSE, torn |-> FALSE]

\* Rows of the messages table: <<"out", i>> and <<"in", i>>.
Incoming(rows) == {r \in rows : r[1] = "in"}

TypeOK ==
  /\ dev.n \in 1..(MaxSends + 1) /\ dev.mark \in 0..Len(blobs)
  /\ call.pc \in {"idle", "calling", "ok", "row"}
  /\ sync.pc \in {"idle", "loop", "insert"} /\ sync.high \in 0..Len(blobs)
  /\ asm.pc \in {"idle", "session", "messages"}
  /\ \A p \in Places : copies[p].n <= MaxSends + 1
  /\ slots \subseteq 1..Batch
  /\ Len(peerBlobs) = 1 + (Batch - Cardinality(slots))
  /\ peer.mark \in 1..Len(peerBlobs) /\ refused \subseteq 1..MaxSends
  /\ reused \subseteq 1..Len(peerBlobs) /\ Cardinality(late) <= losses

Init ==
  /\ dev = [sess |-> Advanced(Outbound(1, 1)), rows |-> {<<"out", 0>>}, n |-> 1, mark |-> 0]
  /\ call = NoCall /\ sync = NoSync /\ asm = NoAsm
  /\ copies = [p \in Places |-> NoBundle]
  /\ blobs = <<>>
  /\ peer = [sess |-> Inbound(First), rows |-> {0}, mark |-> 1]
  /\ peerBlobs = <<First>>
  /\ slots = 1..Batch
  /\ late = {}
  /\ sends = 0 /\ replies = 0 /\ losses = 0 /\ backups = 0 /\ restores = 0
  /\ fresh = 1 /\ refused = {} /\ reused = {}
  /\ before = Nothing
-----------------------------------------------------------------------------
\* deliver to the contact's Server: a copy of the session encrypts, the slot
\* number is spent.
deliver ==
  /\ call.pc = "idle" /\ sync.pc = "idle" /\ sends < MaxSends
  /\ sends' = sends + 1
  /\ fresh' = IF dev.sess.mine THEN fresh ELSE fresh + 1
  /\ dev' = [dev EXCEPT !.n = @ + 1]
  /\ call' = [pc |-> "calling", sess |-> Turned(dev.sess, fresh + 1), id |-> sends + 1]
  /\ UNCHANGED <<sync, asm, copies, blobs, peer, server, late, replies, losses, backups,
                 restores, refused, before>>

\* The session s, about to encrypt, is at a position its contact has been sent, or
\* on another chain than the one its contact has been sent.
Behind(s) ==
  \E i \in DOMAIN peerBlobs :
    LET m == peerBlobs[i]
    IN IF m.chain = s.chain THEN m.idx >= s.idx ELSE Len(m.chain) >= Len(s.chain)

\* A write went without an answer, or the restored session was behind.
Slipped == losses > 0 \/ before.behind

\* The contact's Server stores the envelope encrypted by s against slot n.
Served(s, n, id) ==
  /\ slots' = slots \ {n}
  /\ peerBlobs' = Append(peerBlobs, Envelope(s, id))
  /\ reused' = IF Slipped /\ Behind(s) THEN reused \cup {Len(peerBlobs) + 1} ELSE reused

\* It accepts the write, or finds no slot for the number.
Write ==
  /\ call.pc = "calling"
  /\ LET n == dev.n - 1 IN
     IF n \in slots
     THEN /\ Served(call.sess, n, call.id)
          /\ call' = [call EXCEPT !.pc = "ok"]
          /\ UNCHANGED refused
     ELSE /\ call' = NoCall
          /\ refused' = refused \cup {n}
          /\ UNCHANGED server
  /\ UNCHANGED <<dev, sync, asm, copies, blobs, peer, late, bounds, fresh, before>>

\* The call fails: before the write was served, which may happen later, or after
\* it.  deliver returns the error and saves nothing.
NoAnswer ==
  /\ call.pc \in {"calling", "ok"} /\ losses < MaxLosses
  /\ losses' = losses + 1
  /\ late' = IF call.pc = "ok" THEN late
             ELSE late \cup {[sess |-> call.sess, n |-> dev.n - 1, id |-> call.id]}
  /\ call' = NoCall
  /\ UNCHANGED <<dev, sync, asm, copies, blobs, peer, server, sends, replies, backups,
                 restores, fresh, refused, before>>

LateWrite(w) ==
  /\ w.n \in slots
  /\ Served(w.sess, w.n, w.id)
  /\ late' = late \ {w}
  /\ UNCHANGED <<dev, call, sync, asm, copies, blobs, peer, bounds, fresh, refused, before>>


\* Once accepted, the session is saved, then the row inserted.
SaveSession ==
  /\ call.pc = "ok"
  /\ dev' = [dev EXCEPT !.sess = Advanced(call.sess)]
  /\ call' = [call EXCEPT !.pc = "row"]
  /\ UNCHANGED <<sync, asm, copies, blobs, peer, server, late, bounds, fresh, refused, before>>

InsertSent ==
  /\ call.pc = "row"
  /\ dev' = [dev EXCEPT !.rows = @ \cup {<<"out", call.id>>}]
  /\ call' = NoCall
  /\ UNCHANGED <<sync, asm, copies, blobs, peer, server, late, bounds, fresh, refused, before>>
-----------------------------------------------------------------------------
\* sync: fetch everything, keep what is past the watermark.
Fetch ==
  /\ sync.pc = "idle" /\ call.pc = "idle" /\ dev.mark < Len(blobs)
  /\ sync' = [pc |-> "loop", high |-> Len(blobs),
              todo |-> [i \in 1..(Len(blobs) - dev.mark) |-> dev.mark + i]]
  /\ UNCHANGED <<dev, call, asm, copies, blobs, peer, server, late, bounds, fresh,
                 refused, before>>

\* Mutant: the session is saved with the row, after the insert.
attribute_Late ==
  /\ sync.pc = "loop" /\ sync.todo # <<>>
  /\ LET m == blobs[Head(sync.todo)] IN
     IF CanDecrypt(dev.sess, m)
     THEN /\ dev' = IF <<"in", m.id>> \in dev.rows THEN dev
                    ELSE [dev EXCEPT !.sess = Decrypted(@, m)]
          /\ sync' = [sync EXCEPT !.pc = "insert"]
     ELSE /\ sync' = [sync EXCEPT !.todo = Tail(@)]
          /\ UNCHANGED dev
  /\ UNCHANGED <<call, asm, copies, blobs, peer, server, late, bounds, fresh, refused, before>>

\* attribute_and_store: decrypt and save the session, or leave the blob out.
attribute ==
  /\ sync.pc = "loop" /\ sync.todo # <<>>
  /\ LET m == blobs[Head(sync.todo)] IN
     IF CanDecrypt(dev.sess, m)
     THEN /\ dev' = [dev EXCEPT !.sess = Decrypted(@, m)]
          /\ sync' = [sync EXCEPT !.pc = "insert"]
     ELSE /\ sync' = [sync EXCEPT !.todo = Tail(@)]
          /\ UNCHANGED dev
  /\ UNCHANGED <<call, asm, copies, blobs, peer, server, late, bounds, fresh, refused, before>>

\* handle_decrypted: insert the row.  A row that is there already is an error,
\* which ends the sync with the watermark where it was.
handle_decrypted ==
  /\ sync.pc = "insert"
  /\ LET r == <<"in", blobs[Head(sync.todo)].id>> IN
     /\ dev' = [dev EXCEPT !.rows = @ \cup {r}]
     /\ sync' = IF r \in dev.rows THEN NoSync
                ELSE [sync EXCEPT !.pc = "loop", !.todo = Tail(@)]
  /\ UNCHANGED <<call, asm, copies, blobs, peer, server, late, bounds, fresh, refused, before>>

\* The ack is answered (blobs stay), then the watermark moves.
SetWatermark ==
  /\ sync.pc = "loop" /\ sync.todo = <<>>
  /\ dev' = [dev EXCEPT !.mark = sync.high]
  /\ sync' = NoSync
  /\ UNCHANGED <<call, asm, copies, blobs, peer, server, late, bounds, fresh, refused, before>>

\* The contact's deliver, and its sync, blob by blob.
PeerSends ==
  /\ replies < MaxReplies
  /\ LET s == Turned(peer.sess, fresh + 1) IN
     /\ blobs' = Append(blobs, Envelope(s, replies + 1))
     /\ peer' = [peer EXCEPT !.sess = Advanced(s)]
  /\ replies' = replies + 1
  /\ fresh' = IF peer.sess.mine THEN fresh ELSE fresh + 1
  /\ UNCHANGED <<dev, call, sync, asm, copies, server, late, sends, losses, backups, restores,
                 refused, before>>

PeerSyncs ==
  /\ peer.mark < Len(peerBlobs)
  /\ LET m == peerBlobs[peer.mark + 1]
         p == [peer EXCEPT !.mark = @ + 1]
     IN peer' = IF CanDecrypt(p.sess, m)
                THEN [p EXCEPT !.sess = Decrypted(@, m), !.rows = @ \cup {m.id}]
                ELSE p
  /\ UNCHANGED <<dev, call, sync, asm, copies, blobs, server, late, bounds, fresh,
                 refused, before>>
-----------------------------------------------------------------------------
\* assemble, for push_backup or export_backup: list_contacts gives next_write_n,
\* then the session is read, then the messages.
assemble(p) ==
  /\ asm.pc = "idle" /\ backups < MaxBackups
  /\ asm' = [NoAsm EXCEPT !.pc = "session", !.to = p, !.n = dev.n]
  /\ backups' = backups + 1
  /\ UNCHANGED <<dev, call, sync, copies, blobs, peer, server, late, sends, replies,
                 losses, restores, fresh, refused, before>>

ReadSession ==
  /\ asm.pc = "session"
  /\ asm' = [asm EXCEPT !.pc = "messages", !.sess = dev.sess]
  /\ UNCHANGED <<dev, call, sync, copies, blobs, peer, server, late, bounds, fresh,
                 refused, before>>

\* The bundle replaces the one on the Server, or becomes the exported file.
ReadMessages ==
  /\ asm.pc = "messages"
  /\ copies' = [copies EXCEPT ![asm.to] =
       [n |-> asm.n, sess |-> asm.sess, rows |-> dev.rows, made |-> TRUE]]
  /\ asm' = NoAsm
  /\ UNCHANGED <<dev, call, sync, blobs, peer, server, late, bounds, fresh, refused, before>>

\* Mutants: next_write_n is not restored; neither are the messages.
restore_into_NoN(b)    == [sess |-> b.sess, rows |-> b.rows, n |-> 1, mark |-> 0]
restore_into_NoRows(b) == [sess |-> b.sess, rows |-> {}, n |-> b.n, mark |-> 0]

\* restore_into an empty store: next_write_n is counted up to the bundle's, the
\* watermark is not part of a bundle.
restore_into(b) == [sess |-> b.sess, rows |-> b.rows, n |-> b.n, mark |-> 0]

\* The bundle's session has used up a message that is not among its rows.
Torn(b) ==
  \E i \in DOMAIN blobs :
    LET m == blobs[i]
    IN <<m.chain, m.idx>> \in b.sess.used /\ <<"in", m.id>> \notin b.rows

\* The device is lost, with whatever it was doing; restore fetches the bundle of
\* its Server, import_backup reads the file.
restore(p) ==
  /\ copies[p].made /\ restores < MaxRestores
  /\ dev' = restore_into(copies[p])
  /\ call' = NoCall /\ sync' = NoSync /\ asm' = NoAsm
  /\ restores' = restores + 1
  /\ refused' = {}
  /\ before' = [rows |-> dev.rows, spent |-> (copies[p].n..Batch) \ (slots \ {w.n : w \in late}),
                behind |-> before.behind \/ Behind(Turned(copies[p].sess, fresh + 1)),
                torn |-> before.torn \/ Torn(copies[p])]
  /\ UNCHANGED <<copies, blobs, peer, server, late, sends, replies, losses, backups, fresh>>

SyncSteps == Fetch \/ attribute \/ handle_decrypted \/ SetWatermark
SendSteps == Write \/ NoAnswer \/ SaveSession \/ InsertSent

Next ==
  \/ deliver \/ SendSteps
  \/ \E w \in late : LateWrite(w)
  \/ SyncSteps
  \/ PeerSends \/ PeerSyncs
  \/ ReadSession \/ ReadMessages
  \/ \E p \in Places : assemble(p) \/ restore(p)

Spec == Init /\ [][Next]_vars

\* The screens of the app call sync again and again, and a call that has started
\* runs on or is answered.
FairSpec == Spec /\ WF_vars(SyncSteps) /\ WF_vars(SendSteps)
-----------------------------------------------------------------------------
(* Safety *)


\* The same without the condition: sessions "re-key rather than restoring old
\* ratchet state" (identity.rs).
RestoredIsReadable == \A i \in 1..peer.mark : peerBlobs[i].id \in peer.rows

\* A restored device has no writes refused but those with numbers spent between
\* its backup and its loss, or under way then, as long as there are slots left:
\* next_write_n is restored exactly.
RefusalsBounded == dev.n <= Batch + 1 => refused \subseteq before.spent

\* A restored device that has synced is back to every message the lost one had
\* received, unless it sent any in between, or the bundle was read between a
\* session being saved and its message inserted: the mailbox keeps its blobs,
\* the watermark starts again, and rows that are there do not stop a sync twice.
HistoryReturns ==
  restores > 0 /\ sync.pc = "idle" /\ dev.mark = Len(blobs)
    => before.behind \/ before.torn \/ Incoming(before.rows) \subseteq dev.rows

(* Liveness *)

\* A sync gets past every blob, those a restored device has rows of included.
SyncCompletes == dev.mark < Len(blobs) ~> dev.mark = Len(blobs)
=============================================================================
