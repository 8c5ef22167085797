------------------------- MODULE MailboxSyncProofs --------------------------
(***************************************************************************)
(* Proofs about MailboxSync, for any number of contacts, writes, kills and *)
(* sync calls at a time.  What a sync call is done with stays covered,     *)
(* because what the owner keeps only grows; and a key that a stored, or a  *)
(* loaded, session has used belongs to a message the owner keeps, whatever *)
(* order the calls save their sessions in.                                 *)
(***************************************************************************)
EXTENDS MailboxSync, TLAPS


\* The owner may turn its one Server off and on, but has no other: a watermark
\* and the ids to acknowledge say nothing about another server's blobs.
OneServer == \A s, u \in Servers : s = u

Covered(s, i) == blobs[s][i].slot \in Kept \/ Shadowed(s, blobs[s][i])

\* What a call has fetched is how the server's table begins.
CopyInv ==
  \A t \in Tasks, s \in Servers :
    /\ Len(task[t].got) <= Len(blobs[s])
    /\ \A i \in 1..Len(task[t].got) :
         /\ task[t].got[i].slot = blobs[s][i].slot
         /\ task[t].got[i].key = blobs[s][i].key

\* A call has the ids above the last one it has dealt with still to do.
LoopInv ==
  \A t \in Tasks :
    /\ task[t].pc = "loop" => task[t].todo = Above(task[t].high, Len(task[t].got))
    /\ task[t].pc \in {"save", "insert"} =>
         /\ task[t].high \in 1..Len(task[t].got)
         /\ task[t].todo = Above(task[t].high - 1, Len(task[t].got))

\* The ids a call is done with.
Passed(t) ==
  CASE task[t].pc \in {"loop", "mark"}   -> 1..task[t].high
    [] task[t].pc \in {"save", "insert"} -> 1..(task[t].high - 1)
    [] OTHER                             -> {}

AckInv == \A t \in Tasks : task[t].acks \subseteq Passed(t)

CoverInv ==
  \A s \in Servers : \A i \in DOMAIN blobs[s] :
    \/ i <= watermark \/ blobs[s][i].delivered \/ \E t \in Tasks : i \in Passed(t)
    => Covered(s, i)

\* The key k of contact c has decrypted a message that the owner keeps.
KeyKept(s, c, k) ==
  \E i \in DOMAIN blobs[s] :
    blobs[s][i].slot.from = c /\ blobs[s][i].key = k /\ blobs[s][i].slot \in Kept

KeyInv ==
  \A s \in Servers :
    /\ \A c \in Contacts : \A k \in consumed[c] : KeyKept(s, c, k)
    /\ \A t \in Tasks : task[t].pc = "save" =>
         \A k \in task[t].loaded : KeyKept(s, task[t].got[task[t].high].slot.from, k)

\* No id is counted that the server has not given out.
MarkInv ==
  \A s \in Servers :
    /\ watermark <= Len(blobs[s])
    /\ \A t \in Tasks : task[t].high <= Len(blobs[s])

SyncInv == CopyInv /\ LoopInv /\ AckInv /\ MarkInv /\ CoverInv /\ KeyInv

\* The slots of the current pairing that were registered and that the contact
\* has not come to yet are open.
SlotInv ==
  \A c \in Contacts :
    ~reg[c].failed /\ reg[c].at # NoServer =>
      \A n \in Nat :
        n < reg[c].n /\ n >= nextN[c]
          => [from |-> c, pairing |-> pairing[c], n |-> n] \in slots[reg[c].at]
-----------------------------------------------------------------------------
\* The list of ids above a mark: its elements, its head and its tail.
LEMMA AboveIds ==
  ASSUME NEW mark \in Nat, NEW last \in Nat
  PROVE  /\ Above(mark, last) \in Seq(Nat)
         /\ mark < last => /\ Above(mark, last) # <<>>
                           /\ Head(Above(mark, last)) = mark + 1
                           /\ Tail(Above(mark, last)) = Above(mark + 1, last)
         /\ ~(mark < last) => Above(mark, last) = <<>>
<1>1. CASE mark < last
  <2>1. PICK k \in Nat : k = last - mark /\ k > 0
    BY <1>1
  <2>2. Above(mark, last) = [i \in 1..k |-> mark + i]
    BY <2>1 DEF Above
  <2>3. Above(mark, last) \in Seq(Nat) /\ Len(Above(mark, last)) = k
    BY <2>1, <2>2
  <2>4. Above(mark, last) # <<>> /\ Head(Above(mark, last)) = mark + 1
    BY <2>1, <2>2, <2>3
  <2>5. Above(mark + 1, last) = [i \in 1..(k - 1) |-> (mark + 1) + i]
    BY <2>1 DEF Above
  <2>6. Tail(Above(mark, last)) = Above(mark + 1, last)
    BY <2>1, <2>2, <2>3, <2>5
  <2> QED
    BY <1>1, <2>3, <2>4, <2>6
<1>2. CASE ~(mark < last)
  <2>1. Above(mark, last) = [i \in 1..0 |-> mark + i]
    BY <1>2 DEF Above
  <2> QED
    BY <1>2, <2>1
<1> QED
  BY <1>1, <1>2

\* Rows of the blobs table are never deleted or rewritten.
Grows ==
  \A s \in Servers :
    /\ Len(blobs[s]) <= Len(blobs'[s])
    /\ \A i \in 1..Len(blobs[s]) :
         /\ blobs'[s][i].slot = blobs[s][i].slot
         /\ blobs'[s][i].key = blobs[s][i].key

\* Nothing but the given ids has been marked delivered.
MarksOnly(ids) ==
  \A s \in Servers : \A i \in 1..Len(blobs'[s]) :
    blobs'[s][i].delivered => i <= Len(blobs[s]) /\ (blobs[s][i].delivered \/ i \in ids)

\* What the statements of the mailbox do to its tables.
LEMMA Registering ==
  ASSUME MailboxTypeOK, NEW s \in Servers, NEW slot \in Slot, register_slot(s, slot)
  PROVE  MailboxTypeOK' /\ Grows /\ MarksOnly({})
<1>1. slots' \in [Servers -> SUBSET Slot] /\ blobs' = blobs
  BY DEF MailboxTypeOK, register_slot
<1> QED
  BY <1>1 DEF MailboxTypeOK, Grows, MarksOnly

LEMMA Accepting ==
  ASSUME MailboxTypeOK, NEW s \in Servers, NEW slot \in Slot, NEW key \in Nat,
         accept_write(s, slot, key)
  PROVE  MailboxTypeOK' /\ Grows /\ MarksOnly({})
<1> DEFINE b == [slot |-> slot, key |-> key, delivered |-> FALSE]
<1>1. b \in Blob /\ b.delivered = FALSE
  BY DEF Blob
<1> HIDE DEF b
<1>2. slots' \in [Servers -> SUBSET Slot]
  BY DEF MailboxTypeOK, accept_write
<1>3. blobs \in [Servers -> Seq(Blob)] /\ blobs' = [blobs EXCEPT ![s] = Append(@, b)]
  BY DEF MailboxTypeOK, accept_write, b
<1>4. \A u \in Servers : blobs'[u] = IF u = s THEN Append(blobs[u], b) ELSE blobs[u]
  BY <1>3
<1>5. \A u \in Servers : blobs'[u] \in Seq(Blob)
  BY <1>1, <1>3, <1>4
<1>6. blobs' \in [Servers -> Seq(Blob)]
  BY <1>3, <1>5
<1>7. \A u \in Servers : \/ blobs'[u] = blobs[u]
                         \/ /\ Len(blobs'[u]) = Len(blobs[u]) + 1
                            /\ blobs'[u][Len(blobs[u]) + 1] = b
                            /\ \A i \in 1..Len(blobs[u]) : blobs'[u][i] = blobs[u][i]
  BY <1>1, <1>3, <1>4
<1>8. \A u \in Servers : Len(blobs[u]) \in Nat
  BY <1>3
<1>9. Grows
  BY <1>7, <1>8 DEF Grows
<1>10. MarksOnly({})
  BY <1>1, <1>7, <1>8 DEF MarksOnly
<1> QED
  BY <1>2, <1>6, <1>9, <1>10 DEF MailboxTypeOK

LEMMA Acking ==
  ASSUME MailboxTypeOK, NEW s \in Servers, NEW ids, ack(s, ids)
  PROVE  MailboxTypeOK' /\ Grows /\ MarksOnly(ids)
<1>1. blobs \in [Servers -> Seq(Blob)]
  BY DEF MailboxTypeOK
<1> DEFINE bs == [i \in DOMAIN blobs[s] |->
       IF i \in ids THEN [blobs[s][i] EXCEPT !.delivered = TRUE] ELSE blobs[s][i]]
<1>2. blobs' = [blobs EXCEPT ![s] = bs] /\ slots' = slots
  BY DEF ack
<1>3. \A i \in 1..Len(blobs[s]) :
        /\ blobs[s][i] \in Blob /\ bs[i] \in Blob
        /\ bs[i].slot = blobs[s][i].slot /\ bs[i].key = blobs[s][i].key
        /\ bs[i].delivered => blobs[s][i].delivered \/ i \in ids
  <2> SUFFICES ASSUME NEW i \in 1..Len(blobs[s])
               PROVE  /\ blobs[s][i] \in Blob /\ bs[i] \in Blob
                      /\ bs[i].slot = blobs[s][i].slot /\ bs[i].key = blobs[s][i].key
                      /\ bs[i].delivered => blobs[s][i].delivered \/ i \in ids
    BY Zenon
  <2>1. blobs[s][i] \in Blob /\ i \in DOMAIN blobs[s]
    BY <1>1
  <2>2. bs[i] = IF i \in ids THEN [blobs[s][i] EXCEPT !.delivered = TRUE]
                ELSE blobs[s][i]
    BY <2>1
  <2> QED
    BY <2>1, <2>2, Zenon DEF Blob
<1>4. bs \in Seq(Blob) /\ Len(bs) = Len(blobs[s])
  <2>1. Len(blobs[s]) \in Nat /\ DOMAIN blobs[s] = 1..Len(blobs[s])
    BY <1>1
  <2>2. bs \in [1..Len(blobs[s]) -> Blob]
    BY <1>3, <2>1, Zenon
  <2> HIDE DEF bs
  <2> QED
    BY <2>1, <2>2
<1> HIDE DEF bs
<1>5. \A u \in Servers : blobs'[u] = IF u = s THEN bs ELSE blobs[u]
  BY <1>1, <1>2
<1>6. blobs' \in [Servers -> Seq(Blob)]
  BY <1>1, <1>2, <1>4
<1>7. \A u \in Servers : Len(blobs[u]) \in Nat
  BY <1>1
<1>8. Grows
  BY <1>3, <1>4, <1>5, <1>7 DEF Grows
<1>9. MarksOnly(ids)
  BY <1>3, <1>4, <1>5, <1>7 DEF MarksOnly
<1> QED
  BY <1>2, <1>6, <1>8, <1>9 DEF MailboxTypeOK

\* The id a call is working on, and those left after it.
LEMMA Working ==
  ASSUME TypeOK, LoopInv, NEW t \in Tasks
  PROVE  /\ task[t] \in Sync
         /\ task[t].pc = "loop" /\ task[t].todo # <<>> =>
              /\ Head(task[t].todo) = task[t].high + 1
              /\ Tail(task[t].todo) = Above(task[t].high + 1, Len(task[t].got))
              /\ task[t].high + 1 \in 1..Len(task[t].got)
              /\ task[t].got[task[t].high + 1] \in Blob
         /\ task[t].pc \in {"save", "insert"} =>
              /\ Head(task[t].todo) = task[t].high
              /\ Tail(task[t].todo) = Above(task[t].high, Len(task[t].got))
              /\ task[t].high \in 1..Len(task[t].got)
              /\ task[t].got[task[t].high] \in Blob
<1>1. task[t] \in Sync
  BY DEF TypeOK
<1>2. /\ task[t].got \in Seq(Blob) /\ task[t].high \in Nat
      /\ Len(task[t].got) \in Nat
  BY <1>1 DEF Sync
<1>3. ASSUME task[t].pc = "loop", task[t].todo # <<>>
      PROVE  /\ Head(task[t].todo) = task[t].high + 1
             /\ Tail(task[t].todo) = Above(task[t].high + 1, Len(task[t].got))
             /\ task[t].high + 1 \in 1..Len(task[t].got)
             /\ task[t].got[task[t].high + 1] \in Blob
  <2>1. task[t].todo = Above(task[t].high, Len(task[t].got))
    BY <1>3 DEF LoopInv
  <2>2. task[t].high < Len(task[t].got)
    BY <1>2, <1>3, <2>1, AboveIds, Zenon
  <2>3. /\ Head(task[t].todo) = task[t].high + 1
        /\ Tail(task[t].todo) = Above(task[t].high + 1, Len(task[t].got))
    BY <1>2, <2>1, <2>2, AboveIds, ZenonT(30)
  <2> QED
    BY <1>2, <2>2, <2>3
<1>4. ASSUME task[t].pc \in {"save", "insert"}
      PROVE  /\ Head(task[t].todo) = task[t].high
             /\ Tail(task[t].todo) = Above(task[t].high, Len(task[t].got))
             /\ task[t].high \in 1..Len(task[t].got)
             /\ task[t].got[task[t].high] \in Blob
  <2>1. /\ task[t].todo = Above(task[t].high - 1, Len(task[t].got))
        /\ task[t].high \in 1..Len(task[t].got)
    BY <1>4 DEF LoopInv
  <2>2. PICK h \in Nat : h = task[t].high - 1 /\ h < Len(task[t].got)
    <3>1. task[t].high - 1 \in Nat /\ task[t].high - 1 < Len(task[t].got)
      BY <1>2, <2>1
    <3> QED
      BY <3>1
  <2>3. Head(task[t].todo) = h + 1 /\ Tail(task[t].todo) = Above(h + 1, Len(task[t].got))
    BY <1>2, <2>1, <2>2, AboveIds, ZenonT(30)
  <2> QED
    BY <1>2, <2>1, <2>2, <2>3
<1> QED
  BY <1>1, <1>3, <1>4, Zenon

\* A call that is not running.
LEMMA IdleType == Idle \in Sync
<1>1. <<>> \in Seq(Blob) /\ <<>> \in Seq(Nat)
  OBVIOUS
<1> QED
  BY <1>1 DEF Idle, Sync, TaskSteps

\* The steps of a sync call.
SyncStep(t) ==
  \/ Fetch(t) \/ Filter(t) \/ Decrypt(t) \/ Save(t) \/ Insert(t)
  \/ Ack(t) \/ AckFails(t) \/ AckPanics(t) \/ Mark(t)

\* The steps of the loop, in terms of the id they work on.
LEMMA DecryptEffect ==
  ASSUME TypeOK, LoopInv, NEW t \in Tasks, Decrypt(t)
  PROVE  LET n == task[t].high + 1
             b == task[t].got[n]
         IN /\ task[t].pc = "loop" /\ n \in 1..Len(task[t].got) /\ b \in Blob
            /\ \/ task' = [task EXCEPT ![t] =
                    [task[t] EXCEPT !.pc = "save", !.high = n,
                                    !.loaded = consumed[b.slot.from]]]
               \/ /\ b.key \in consumed[b.slot.from]
                  /\ task' = [task EXCEPT ![t] =
                       [task[t] EXCEPT !.todo = Tail(task[t].todo), !.high = n,
                                       !.acks = task[t].acks \cup {n}]]
            /\ SyncFrame /\ UNCHANGED <<mailbox, consumed, inbox, watermark>>
<1>1. task[t].pc = "loop" /\ task[t].todo # <<>>
  BY Zenon DEF Decrypt
<1>2. PICK n : n = Head(task[t].todo) /\ n = task[t].high + 1
  BY <1>1, Working, Zenon
<1>3. n \in 1..Len(task[t].got) /\ task[t].got[n] \in Blob
  BY <1>1, <1>2, Working, Zenon
<1>4. \/ task' = [task EXCEPT ![t] =
           [task[t] EXCEPT !.pc = "save", !.high = n,
                           !.loaded = consumed[task[t].got[n].slot.from]]]
      \/ /\ task[t].got[n].key \in consumed[task[t].got[n].slot.from]
         /\ task' = [task EXCEPT ![t] =
              [task[t] EXCEPT !.todo = Tail(task[t].todo), !.high = n,
                              !.acks = task[t].acks \cup {n}]]
  BY <1>2, ZenonT(30) DEF Decrypt
<1>5. SyncFrame /\ UNCHANGED <<mailbox, consumed, inbox, watermark>>
  BY ZenonT(30) DEF Decrypt
<1> QED
  BY <1>1, <1>2, <1>3, <1>4, <1>5, Zenon

LEMMA SaveEffect ==
  ASSUME TypeOK, LoopInv, NEW t \in Tasks, Save(t)
  PROVE  LET b == task[t].got[task[t].high]
         IN /\ task[t].pc = "save" /\ task[t].high \in 1..Len(task[t].got) /\ b \in Blob
            /\ consumed' = [consumed EXCEPT ![b.slot.from] = task[t].loaded \cup {b.key}]
            /\ task' = [task EXCEPT ![t].pc = "insert"]
            /\ SyncFrame /\ UNCHANGED <<mailbox, inbox, watermark>>
<1>1. task[t].pc = "save"
  BY Zenon DEF Save
<1>2. Head(task[t].todo) = task[t].high
  BY <1>1, Working, Zenon
<1> QED
  BY <1>1, <1>2, Working, ZenonT(30) DEF Save

LEMMA InsertEffect ==
  ASSUME TypeOK, LoopInv, NEW t \in Tasks, Insert(t)
  PROVE  LET n == task[t].high
             m == task[t].got[n].slot
         IN /\ task[t].pc = "insert" /\ n \in 1..Len(task[t].got) /\ m \in Slot
            /\ Handled(t) = m
            /\ \/ task' = [task EXCEPT ![t] = Idle]
               \/ task' = [task EXCEPT ![t] =
                    [task[t] EXCEPT !.pc = "loop", !.todo = Tail(task[t].todo),
                                    !.acks = task[t].acks \cup {n}]]
            /\ inbox' = inbox \cup {m}
            /\ SyncFrame /\ UNCHANGED <<mailbox, consumed, watermark>>
<1>1. task[t].pc = "insert"
  BY Zenon DEF Insert
<1>2. PICK n : n = Head(task[t].todo) /\ n = task[t].high
  BY <1>1, Working, ZenonT(30)
<1>3. n \in 1..Len(task[t].got) /\ task[t].got[n].slot \in Slot
  BY <1>1, <1>2, Working, Zenon DEF Blob
<1>4. /\ \/ task' = [task EXCEPT ![t] = Idle]
         \/ task' = [task EXCEPT ![t] =
              [task[t] EXCEPT !.pc = "loop", !.todo = Tail(task[t].todo),
                              !.acks = task[t].acks \cup {n}]]
      /\ inbox' = inbox \cup {task[t].got[n].slot}
  BY <1>2, Zenon DEF Insert
<1>5. SyncFrame /\ UNCHANGED <<mailbox, consumed, watermark>>
  BY Zenon DEF Insert
<1>6. Handled(t) = task[t].got[n].slot
  BY <1>2 DEF Handled
<1> QED
  BY <1>1, <1>2, <1>3, <1>4, <1>5, <1>6, Zenon

\* What is left to show once a step's frame is known.
LEMMA FrameTypes ==
  ASSUME TypeOK, SyncFrame, MailboxTypeOK', task' \in [Tasks -> Sync],
         consumed' \in [Contacts -> SUBSET Nat], inbox' \subseteq Slot, watermark' \in Nat
  PROVE  TypeOK'
  BY Zenon DEF SyncFrame, TypeOK, contact, bounds

\* They keep the types.
LEMMA SyncTypes ==
  ASSUME TypeOK, LoopInv, NEW t \in Tasks, SyncStep(t)
  PROVE  TypeOK'
<1>0. task \in [Tasks -> Sync] /\ watermark \in Nat /\ MailboxTypeOK
  BY DEF TypeOK
<1>1. /\ task[t].pc \in TaskSteps /\ task[t].got \in Seq(Blob) /\ task[t].todo \in Seq(Nat)
      /\ task[t].high \in Nat /\ task[t].acks \subseteq Nat /\ task[t].loaded \subseteq Nat
      /\ Len(task[t].got) \in Nat
  BY <1>0 DEF Sync
<1>a. task[t].todo # <<>> => Head(task[t].todo) \in Nat /\ Tail(task[t].todo) \in Seq(Nat)
  BY <1>1
<1>b. UNCHANGED mailbox => MailboxTypeOK'
  BY <1>0 DEF MailboxTypeOK, mailbox
<1>c. UNCHANGED consumed => consumed' \in [Contacts -> SUBSET Nat]
  BY DEF TypeOK
<1>d. UNCHANGED inbox => inbox' \subseteq Slot
  BY DEF TypeOK
<1>e. UNCHANGED watermark => watermark' \in Nat
  BY DEF TypeOK
<1>2. CASE Fetch(t)
  <2>1. blobs[own] \in Seq(Blob)
    BY <1>2 DEF Fetch, TypeOK, MailboxTypeOK, Addr
  <2>2. [Idle EXCEPT !.pc = "fetched", !.got = blobs[own]] \in Sync
    BY <2>1, IdleType, Zenon DEF Sync, TaskSteps
  <2>3. task' \in [Tasks -> Sync]
    BY <1>0, <1>2, <2>2 DEF Fetch
  <2>f. SyncFrame /\ UNCHANGED <<mailbox, consumed, inbox, watermark>>
    BY <1>2 DEF Fetch
  <2> QED
    BY <1>b, <1>c, <1>d, <1>e, <2>3, <2>f, FrameTypes
<1>3. CASE Filter(t)
  <2>1. Above(watermark, Len(task[t].got)) \in Seq(Nat)
    BY <1>0, <1>1, AboveIds, Zenon
  <2>2. [task[t] EXCEPT !.pc = "loop", !.high = watermark,
                        !.todo = Above(watermark, Len(task[t].got))] \in Sync
    BY <1>0, <2>1, Zenon DEF Sync, TaskSteps
  <2>3. task' \in [Tasks -> Sync]
    BY <1>0, <1>3, <2>2 DEF Filter
  <2>f. SyncFrame /\ UNCHANGED <<mailbox, consumed, inbox, watermark>>
    BY <1>3 DEF Filter
  <2> QED
    BY <1>b, <1>c, <1>d, <1>e, <2>3, <2>f, FrameTypes
<1>4. CASE Decrypt(t)
  <2> DEFINE n == task[t].high + 1
             b == task[t].got[n]
             r1 == [task[t] EXCEPT !.pc = "save", !.high = n,
                                   !.loaded = consumed[b.slot.from]]
             r2 == [task[t] EXCEPT !.todo = Tail(task[t].todo), !.high = n,
                                   !.acks = task[t].acks \cup {n}]
  <2>1. /\ task[t].pc = "loop" /\ n \in 1..Len(task[t].got) /\ b \in Blob
        /\ task' = [task EXCEPT ![t] = r1] \/ task' = [task EXCEPT ![t] = r2]
        /\ SyncFrame /\ UNCHANGED <<mailbox, consumed, inbox, watermark>>
    BY <1>4, DecryptEffect, Zenon
  <2>0. n \in Nat
    BY <1>1
  <2>a. task[t].acks \cup {n} \subseteq Nat
    BY <1>1, <2>0
  <2> HIDE DEF n
  <2>2. consumed[b.slot.from] \subseteq Nat
    BY <2>1, Zenon DEF Blob, Slot, TypeOK
  <2>3. task[t].todo # <<>>
    BY <1>4, Zenon DEF Decrypt
  <2>4. r1 \in Sync
    BY <1>0, <2>0, <2>2, Zenon DEF Sync, TaskSteps
  <2>5. r2 \in Sync
    BY <1>0, <1>a, <2>0, <2>3, <2>a, Zenon DEF Sync, TaskSteps
  <2> HIDE DEF r1, r2
  <2>6. task' \in [Tasks -> Sync]
    BY <1>0, <2>1, <2>4, <2>5
  <2> QED
    BY <1>b, <1>c, <1>d, <1>e, <2>1, <2>6, FrameTypes, Zenon
<1>5. CASE Save(t)
  <2> DEFINE b == task[t].got[task[t].high]
  <2>0. /\ b \in Blob
        /\ consumed' = [consumed EXCEPT ![b.slot.from] = task[t].loaded \cup {b.key}]
    BY <1>5, SaveEffect, Zenon
  <2> HIDE DEF b
  <2>1. consumed' \in [Contacts -> SUBSET Nat]
    <3>1. consumed \in [Contacts -> SUBSET Nat]
      BY DEF TypeOK
    <3>2. task[t].loaded \cup {b.key} \subseteq Nat
      BY <1>1, <2>0, Zenon DEF Blob
    <3> QED
      BY <2>0, <3>1, <3>2, Zenon
  <2>2. task' \in [Tasks -> Sync]
    BY <1>0, <1>5, ZenonT(30) DEF Save, Sync, TaskSteps
  <2>3. SyncFrame /\ UNCHANGED <<mailbox, inbox, watermark>>
    BY <1>5, SaveEffect, Zenon
  <2> QED
    BY <1>b, <1>d, <1>e, <2>1, <2>2, <2>3, FrameTypes
<1>6. CASE Insert(t)
  <2> DEFINE r == [task[t] EXCEPT !.pc = "loop", !.todo = Tail(task[t].todo),
                                  !.acks = task[t].acks \cup {task[t].high}]
  <2>1. /\ task' = [task EXCEPT ![t] = Idle] \/ task' = [task EXCEPT ![t] = r]
        /\ inbox' = inbox \cup {task[t].got[task[t].high].slot}
        /\ task[t].got[task[t].high].slot \in Slot
        /\ SyncFrame /\ UNCHANGED <<mailbox, consumed, watermark>>
    BY <1>6, InsertEffect, Zenon
  <2>2. Tail(task[t].todo) \in Seq(Nat)
    <3>1. task[t].pc = "insert"
      BY <1>6, Zenon DEF Insert
    <3>2. Tail(task[t].todo) = Above(task[t].high, Len(task[t].got))
      BY <3>1, Working, Zenon
    <3> QED
      BY <1>1, <3>2, AboveIds, Zenon
  <2>a. task[t].acks \cup {task[t].high} \subseteq Nat
    BY <1>1
  <2>3. r \in Sync
    BY <1>0, <2>2, <2>a, Zenon DEF Sync, TaskSteps
  <2> HIDE DEF r
  <2>4. task' \in [Tasks -> Sync]
    BY <1>0, <2>1, <2>3, IdleType, Zenon
  <2>5. inbox' \subseteq Slot
    BY <2>1, Zenon DEF TypeOK
  <2> QED
    BY <1>b, <1>c, <1>e, <2>1, <2>4, <2>5, FrameTypes, Zenon
<1>7. CASE Ack(t)
  <2>1. task' \in [Tasks -> Sync]
    BY <1>0, <1>7, ZenonT(30) DEF Ack, Sync, TaskSteps
  <2>2. own # NoServer => own \in Servers
    BY DEF TypeOK, Addr
  <2>3. MailboxTypeOK'
    BY <1>0, <1>b, <1>7, <2>2, Acking DEF Ack
  <2>f. SyncFrame /\ UNCHANGED <<consumed, inbox, watermark>>
    BY <1>7 DEF Ack
  <2> QED
    BY <1>c, <1>d, <1>e, <2>1, <2>3, <2>f, FrameTypes
<1>8. CASE AckFails(t)
  <2>1. task' \in [Tasks -> Sync]
    BY <1>0, <1>8, IdleType DEF AckFails
  <2>2. own \in Servers
    BY <1>8, Zenon DEF TypeOK, Addr, AckFails
  <2>3. MailboxTypeOK'
    BY <1>0, <1>b, <1>8, <2>2, Acking DEF AckFails
  <2>f. SyncFrame /\ UNCHANGED <<consumed, inbox, watermark>>
    BY <1>8 DEF AckFails
  <2> QED
    BY <1>c, <1>d, <1>e, <2>1, <2>3, <2>f, FrameTypes
<1>9. CASE AckPanics(t)
  <2>1. task' \in [Tasks -> Sync]
    BY <1>0, <1>9, IdleType DEF AckPanics
  <2> QED
    BY <1>b, <1>9, <2>1, Zenon DEF AckPanics, TypeOK, contact, bounds
<1>10. CASE Mark(t)
  <2>1. task' \in [Tasks -> Sync]
    BY <1>0, <1>10, IdleType DEF Mark
  <2> QED
    BY <1>1, <1>b, <1>10, <2>1, Zenon DEF Mark, TypeOK, contact, bounds
<1> QED
  BY <1>2, <1>3, <1>4, <1>5, <1>6, <1>7, <1>8, <1>9, <1>10 DEF SyncStep

\* Steps that leave the sync calls and their session alone: pairing, writing,
\* moving.
Elsewhere ==
  \/ \E s \in Servers \cup {NoServer} : set_own_server_addr(s)
  \/ \E c \in Contacts : \/ add_contact(c) \/ RegisterNext(c) \/ RegisterFails(c)
                         \/ ContactPairs(c) \/ PointerArrives(c) \/ OwnerSendsFirst(c)
                         \/ WriteOk(c) \/ WriteFails(c)

\* They keep the types, and add blobs that are not delivered.
LEMMA ElsewhereStep ==
  ASSUME TypeOK, Elsewhere
  PROVE  /\ TypeOK' /\ Grows /\ MarksOnly({})
         /\ UNCHANGED <<consumed, inbox, watermark, task, lost>>
<1>0. UNCHANGED mailbox => MailboxTypeOK' /\ Grows /\ MarksOnly({})
  <2>1. \A s \in Servers : Len(blobs[s]) \in Nat
    BY DEF TypeOK, MailboxTypeOK
  <2> QED
    BY <2>1 DEF TypeOK, MailboxTypeOK, Grows, MarksOnly, mailbox
<1> USE BatchAssumption DEF BatchAssumption
<1>1. ASSUME NEW s \in Servers \cup {NoServer}, set_own_server_addr(s)
      PROVE  /\ TypeOK' /\ Grows /\ MarksOnly({})
             /\ UNCHANGED <<consumed, inbox, watermark, task, lost>>
  BY <1>0, <1>1, Zenon DEF set_own_server_addr, TypeOK, Addr, contact
<1>2. ASSUME NEW c \in Contacts, add_contact(c)
      PROVE  /\ TypeOK' /\ Grows /\ MarksOnly({})
             /\ UNCHANGED <<consumed, inbox, watermark, task, lost>>
  <2>1. pairing' \in [Contacts -> Nat]
    BY <1>2 DEF add_contact, TypeOK
  <2> DEFINE first == IF poisoned \/ own = NoServer THEN Batch ELSE 0
  <2>2. /\ reg' = [reg EXCEPT ![c] = [n |-> first, at |-> own, failed |-> poisoned]]
        /\ first \in 0..Batch
        /\ own = NoServer => first = Batch
    BY <1>2 DEF add_contact
  <2> HIDE DEF first
  <2>3. reg' \in [Contacts -> [n : 0..Batch, at : Addr, failed : BOOLEAN]]
    BY <2>2 DEF TypeOK
  <2>4. \A d \in Contacts : reg'[d].n < Batch => reg'[d].at \in Servers
    BY <2>2 DEF TypeOK, Addr
  <2> QED
    BY <1>0, <1>2, <2>1, <2>3, <2>4, Zenon DEF add_contact, TypeOK, contact, bounds
<1>3. ASSUME NEW c \in Contacts, RegisterNext(c)
      PROVE  /\ TypeOK' /\ Grows /\ MarksOnly({})
             /\ UNCHANGED <<consumed, inbox, watermark, task, lost>>
  <2>1. /\ reg[c].at \in Servers
        /\ [from |-> c, pairing |-> pairing[c], n |-> reg[c].n] \in Slot
    BY <1>3 DEF RegisterNext, TypeOK, Slot
  <2>2. MailboxTypeOK' /\ Grows /\ MarksOnly({})
    BY <1>3, <2>1, Registering, Zenon DEF RegisterNext, TypeOK
  <2>3. /\ reg' \in [Contacts -> [n : 0..Batch, at : Addr, failed : BOOLEAN]]
        /\ \A d \in Contacts : reg'[d].n < Batch => reg'[d].at \in Servers
    BY <1>3, <2>1 DEF RegisterNext, TypeOK
  <2> QED
    BY <1>3, <2>2, <2>3, Zenon DEF RegisterNext, TypeOK, contact, bounds
<1>4. ASSUME NEW c \in Contacts, RegisterFails(c)
      PROVE  /\ TypeOK' /\ Grows /\ MarksOnly({})
             /\ UNCHANGED <<consumed, inbox, watermark, task, lost>>
  <2>1. /\ reg[c].at \in Servers
        /\ [from |-> c, pairing |-> pairing[c], n |-> reg[c].n] \in Slot
    BY <1>4 DEF RegisterFails, TypeOK, Slot
  <2>2. MailboxTypeOK' /\ Grows /\ MarksOnly({})
    BY <1>0, <1>4, <2>1, Registering, Zenon DEF RegisterFails, TypeOK
  <2>3. /\ reg' \in [Contacts -> [n : 0..Batch, at : Addr, failed : BOOLEAN]]
        /\ \A d \in Contacts : reg'[d].n < Batch => reg'[d].at \in Servers
    <3> DEFINE r == [reg[c] EXCEPT !.n = Batch, !.failed = TRUE]
    <3>1. reg' = [reg EXCEPT ![c] = r]
      BY <1>4 DEF RegisterFails
    <3>2. r \in [n : 0..Batch, at : Addr, failed : BOOLEAN] /\ r.n = Batch
      <4>1. reg[c] \in [n : 0..Batch, at : Addr, failed : BOOLEAN] /\ Batch \in 0..Batch
        BY DEF TypeOK
      <4> QED
        BY <4>1, Zenon
    <3> HIDE DEF r
    <3> QED
      BY <3>1, <3>2 DEF TypeOK
  <2> QED
    BY <1>4, <2>2, <2>3, Zenon DEF RegisterFails, TypeOK, contact, bounds
<1>5. ASSUME NEW c \in Contacts, ContactPairs(c)
      PROVE  /\ TypeOK' /\ Grows /\ MarksOnly({})
             /\ UNCHANGED <<consumed, inbox, watermark, task, lost>>
  BY <1>0, <1>5, Zenon DEF ContactPairs, TypeOK, owner
<1>6. ASSUME NEW c \in Contacts, PointerArrives(c) \/ OwnerSendsFirst(c)
      PROVE  /\ TypeOK' /\ Grows /\ MarksOnly({})
             /\ UNCHANGED <<consumed, inbox, watermark, task, lost>>
  BY <1>0, <1>6, Zenon DEF PointerArrives, OwnerSendsFirst, TypeOK, owner
<1>7. ASSUME NEW c \in Contacts, WriteOk(c) \/ WriteFails(c)
      PROVE  /\ TypeOK' /\ Grows /\ MarksOnly({})
             /\ UNCHANGED <<consumed, inbox, watermark, task, lost>>
  <2>1. addr[c] \in Servers /\ NextSlot(c) \in Slot /\ sendKey[c] \in Nat
    BY <1>7, Zenon DEF WriteOk, WriteFails, CanWrite, NextSlot, TypeOK, Addr, Slot
  <2>2. MailboxTypeOK' /\ Grows /\ MarksOnly({})
    BY <1>0, <1>7, <2>1, Accepting, Zenon DEF WriteOk, WriteFails, TypeOK, reject_write
  <2>3. nextN' \in [Contacts -> Nat] /\ sendKey' \in [Contacts -> Nat]
    BY <1>7 DEF WriteOk, WriteFails, SpendN, TypeOK
  <2> QED
    BY <1>7, <2>2, <2>3, Zenon DEF WriteOk, WriteFails, TypeOK, owner
<1> QED
  BY <1>1, <1>2, <1>3, <1>4, <1>5, <1>6, <1>7, Zenon DEF Elsewhere

\* The app being killed keeps the types.
LEMMA KillTypes ==
  ASSUME TypeOK, LoopInv, Kill
  PROVE  TypeOK'
<1>1. task' \in [Tasks -> Sync]
  BY IdleType, Zenon DEF Kill
<1>2. \A t \in Tasks : task[t].pc = "insert" => Handled(t) \in Slot
  BY Working, Zenon DEF Handled, Blob
<1>3. lost' \subseteq Slot
  BY <1>2, ZenonT(30) DEF Kill, TypeOK
<1>4. /\ reg' \in [Contacts -> [n : 0..Batch, at : Addr, failed : BOOLEAN]]
      /\ \A c \in Contacts : reg'[c].n = Batch
  <2> DEFINE r(c) == [reg[c] EXCEPT !.n = Batch, !.failed = @ \/ reg[c].n < Batch]
  <2>1. reg' = [c \in Contacts |-> r(c)]
    BY Zenon DEF Kill
  <2>2. ASSUME NEW c \in Contacts
        PROVE  r(c) \in [n : 0..Batch, at : Addr, failed : BOOLEAN] /\ r(c).n = Batch
    <3>1. reg[c] \in [n : 0..Batch, at : Addr, failed : BOOLEAN] /\ Batch \in 0..Batch
      BY BatchAssumption DEF TypeOK, BatchAssumption
    <3>2. (reg[c].failed \/ reg[c].n < Batch) \in BOOLEAN
      OBVIOUS
    <3> QED
      BY <3>1, <3>2, Zenon
  <2> HIDE DEF r
  <2> QED
    BY <2>1, <2>2
<1>5. MailboxTypeOK'
  BY Zenon DEF Kill, TypeOK, MailboxTypeOK, mailbox
<1>6. \A c \in Contacts : reg'[c].n < Batch => reg'[c].at \in Servers
  BY <1>4, BatchAssumption DEF BatchAssumption
<1> QED
  BY <1>1, <1>3, <1>4, <1>5, <1>6, ZenonT(30) DEF Kill, TypeOK, contact

\* The next-state relation, in three parts.
LEMMA NextParts == Next => Elsewhere \/ Kill \/ \E t \in Tasks : SyncStep(t)
  BY DEF Next, Elsewhere, SyncStep

LEMMA TypeStep ==
  ASSUME TypeOK, LoopInv, [Next]_vars
  PROVE  TypeOK'
<1>1. CASE UNCHANGED vars
  BY <1>1, Zenon DEF vars, owner, contact, bounds, mailbox, TypeOK, MailboxTypeOK
<1> QED
  BY <1>1, ElsewhereStep, KillTypes, SyncTypes, NextParts
-----------------------------------------------------------------------------
\* No blob is deleted, and what is not acknowledged is not marked.
LEMMA SyncGrows ==
  ASSUME TypeOK, NEW t \in Tasks, SyncStep(t)
  PROVE  Grows /\ MarksOnly(task[t].acks)
<1>1. \A s \in Servers : Len(blobs[s]) \in Nat
  BY DEF TypeOK, MailboxTypeOK
<1>2. UNCHANGED mailbox => Grows /\ MarksOnly(task[t].acks)
  BY <1>1 DEF Grows, MarksOnly, mailbox
<1>3. own # NoServer => own \in Servers
  BY DEF TypeOK, Addr
<1>4. CASE Ack(t) \/ AckFails(t)
  BY <1>2, <1>3, <1>4, Acking, Zenon DEF Ack, AckFails, TypeOK
<1>5. CASE ~(Ack(t) \/ AckFails(t))
  BY <1>2, <1>5, Zenon DEF SyncStep, Fetch, Filter, Decrypt, Save, Insert, AckPanics, Mark
<1> QED
  BY <1>4, <1>5

\* What the owner keeps, or is about to, it keeps for good: a call leaves
\* "insert" only with its message in the table, or is killed and counted lost.
LEMMA KeptGrows ==
  ASSUME TypeOK, LoopInv, [Next]_vars
  PROVE  Kept \subseteq Kept'
<1>1. CASE UNCHANGED vars
  BY <1>1 DEF vars, owner, Kept, Inserting, Handled
<1>2. CASE Elsewhere
  BY <1>2, ElsewhereStep, Zenon DEF Kept, Inserting, Handled
<1>3. CASE Kill
  <2>1. lost' = lost \cup (Inserting \ inbox) /\ inbox' = inbox
    BY <1>3, Zenon DEF Kill, Inserting
  <2> QED
    BY <2>1 DEF Kept
<1>4. ASSUME NEW t \in Tasks, SyncStep(t)
      PROVE  Kept \subseteq Kept'
  <2>0. task \in [Tasks -> Sync]
    BY DEF TypeOK
  <2>1. /\ \A u \in Tasks \ {t} : task'[u] = task[u]
        /\ lost' = lost /\ inbox \subseteq inbox'
    BY <1>4, <2>0, ZenonT(30)
    DEF SyncStep, Fetch, Filter, Decrypt, Save, Insert, Ack, AckFails,
                      AckPanics, Mark, SyncFrame
  <2>2. task[t].pc = "insert" => Handled(t) \in inbox'
    BY <1>4, Zenon DEF SyncStep, Fetch, Filter, Decrypt, Save, Insert, Ack, AckFails,
                AckPanics, Mark, Handled
  <2>3. \A u \in Tasks \ {t} : task[u].pc = "insert" => Handled(u) \in Inserting'
    BY <2>1, ZenonT(30) DEF Inserting, Handled
  <2> QED
    BY <2>1, <2>2, <2>3 DEF Kept, Inserting
<1> QED
  BY <1>1, <1>2, <1>3, <1>4, NextParts

\* What a step of a call does to its record: it ends, or one of these.
Fetched(o, r) ==
  /\ r.pc = "fetched" /\ r.acks = {} /\ r.high = 0
  /\ own \in Servers /\ r.got = blobs[own] /\ UNCHANGED blobs

Filtered(o, r) ==
  /\ o.pc = "fetched" /\ r.pc = "loop" /\ r.high = watermark
  /\ r.todo = Above(watermark, Len(o.got)) /\ r.acks = o.acks

Found(o, r) ==
  /\ o.pc = "loop" /\ r.pc = "save" /\ r.high = o.high + 1 /\ r.todo = o.todo
  /\ r.high \in 1..Len(o.got) /\ r.acks = o.acks
  /\ r.loaded = consumed[o.got[r.high].slot.from]

PassedBy(o, r) ==
  /\ o.pc = "loop" /\ r.pc = "loop" /\ r.high = o.high + 1
  /\ r.high \in 1..Len(o.got)
  /\ r.todo = Above(r.high, Len(o.got)) /\ r.acks = o.acks \cup {r.high}
  /\ o.got[r.high].key \in consumed[o.got[r.high].slot.from]

Saved(o, r) ==
  /\ o.pc = "save" /\ r.pc = "insert" /\ r.high = o.high /\ r.todo = o.todo
  /\ r.acks = o.acks

Inserted(o, r) ==
  /\ o.pc = "insert" /\ r.pc = "loop" /\ r.high = o.high
  /\ r.todo = Above(r.high, Len(o.got)) /\ r.acks = o.acks \cup {r.high}
  /\ o.got[r.high].slot \in inbox'

Acked(o, r) ==
  /\ o.pc = "loop" /\ r.pc = "mark" /\ r.high = o.high /\ r.acks = o.acks

LEMMA TaskEffect ==
  ASSUME TypeOK, LoopInv, NEW t \in Tasks, SyncStep(t)
  PROVE  LET o == task[t]
             r == task'[t]
         IN \/ r = Idle
            \/ Fetched(o, r)
            \/ /\ r.got = o.got
               /\ \/ Filtered(o, r) \/ Found(o, r) \/ PassedBy(o, r)
                  \/ Saved(o, r) \/ Inserted(o, r) \/ Acked(o, r)
<1>0. task \in [Tasks -> Sync] /\ task[t] \in Sync
  BY DEF TypeOK
<1>1. DOMAIN task[t] = {"pc", "got", "todo", "high", "acks", "loaded"}
  BY <1>0 DEF Sync
<1>2. CASE Fetch(t)
  <2>1. own \in Servers /\ UNCHANGED blobs
    BY <1>2 DEF Fetch, TypeOK, Addr, mailbox
  <2>2. task'[t] = [Idle EXCEPT !.pc = "fetched", !.got = blobs[own]]
    BY <1>0, <1>2 DEF Fetch
  <2> QED
    BY <2>1, <2>2 DEF Fetched, Idle
<1>3. CASE Filter(t)
  <2>1. task'[t] = [task[t] EXCEPT !.pc = "loop", !.high = watermark,
                                   !.todo = Above(watermark, Len(task[t].got))]
    BY <1>0, <1>3 DEF Filter
  <2>2. task[t].pc = "fetched"
    BY <1>3 DEF Filter
  <2> QED
    BY <1>1, <2>1, <2>2 DEF Filtered
<1>4. CASE Decrypt(t)
  <2> DEFINE n == task[t].high + 1
             b == task[t].got[n]
             r1 == [task[t] EXCEPT !.pc = "save", !.high = n,
                                   !.loaded = consumed[b.slot.from]]
             r2 == [task[t] EXCEPT !.todo = Tail(task[t].todo), !.high = n,
                                   !.acks = task[t].acks \cup {n}]
  <2>1. /\ task[t].pc = "loop" /\ n \in 1..Len(task[t].got)
        /\ \/ task' = [task EXCEPT ![t] = r1]
           \/ b.key \in consumed[b.slot.from] /\ task' = [task EXCEPT ![t] = r2]
    BY <1>4, DecryptEffect, ZenonT(30)
  <2>2. Tail(task[t].todo) = Above(n, Len(task[t].got))
    BY <1>4, <2>1, Working, ZenonT(30) DEF Decrypt
  <2> HIDE DEF n
  <2>3. CASE task' = [task EXCEPT ![t] = r1]
    BY <1>0, <1>1, <2>1, <2>3, ZenonT(30) DEF Found, n
  <2>4. CASE b.key \in consumed[b.slot.from] /\ task' = [task EXCEPT ![t] = r2]
    BY <1>0, <1>1, <2>1, <2>2, <2>4, Zenon DEF PassedBy, n
  <2> QED
    BY <2>1, <2>3, <2>4, Zenon
<1>5. CASE Save(t)
  BY <1>0, <1>1, <1>5, Zenon DEF Save, Saved
<1>6. CASE Insert(t)
  <2> DEFINE r == [task[t] EXCEPT !.pc = "loop", !.todo = Tail(task[t].todo),
                                  !.acks = task[t].acks \cup {task[t].high}]
  <2>1. /\ task[t].pc = "insert"
        /\ task' = [task EXCEPT ![t] = Idle] \/ task' = [task EXCEPT ![t] = r]
        /\ task[t].got[task[t].high].slot \in inbox'
    BY <1>6, InsertEffect, Zenon
  <2>2. Tail(task[t].todo) = Above(task[t].high, Len(task[t].got))
    BY <2>1, Working, Zenon
  <2>3. CASE task' = [task EXCEPT ![t] = r]
    <3>1. task'[t] = r
      BY <1>0, <2>3
    <3> QED
      BY <1>1, <2>1, <2>2, <3>1, Zenon DEF Inserted
  <2>4. CASE task' = [task EXCEPT ![t] = Idle]
    BY <1>0, <2>4
  <2> QED
    BY <2>1, <2>3, <2>4, Zenon
<1>7. CASE Ack(t)
  BY <1>0, <1>1, <1>7 DEF Ack, Acked
<1>8. CASE AckFails(t) \/ AckPanics(t) \/ Mark(t)
  BY <1>0, <1>8, Zenon DEF AckFails, AckPanics, Mark
<1> QED
  BY <1>2, <1>3, <1>4, <1>5, <1>6, <1>7, <1>8, Zenon DEF SyncStep

\* A step of one call leaves the others' records alone.
LEMMA OthersKeep ==
  ASSUME TypeOK, NEW t \in Tasks, SyncStep(t)
  PROVE  \A u \in Tasks \ {t} : task'[u] = task[u]
<1>1. task \in [Tasks -> Sync]
  BY DEF TypeOK
<1> QED
  BY <1>1, Zenon
  DEF SyncStep, Fetch, Filter, Decrypt, Save, Insert, Ack, AckFails, AckPanics, Mark

\* The records of the calls, after any step: killed, as before, or one of them
\* a step further.
LEMMA TaskCases ==
  ASSUME TypeOK, [Next]_vars, NEW u \in Tasks
  PROVE  \/ task'[u] = task[u]
         \/ task'[u] = Idle
         \/ SyncStep(u)
<1>1. CASE UNCHANGED vars
  BY <1>1 DEF vars, owner
<1>2. CASE Elsewhere
  BY <1>2, ElsewhereStep
<1>3. CASE Kill
  BY <1>3, Zenon DEF Kill
<1>4. ASSUME NEW t \in Tasks, SyncStep(t)
      PROVE  task'[u] = task[u] \/ SyncStep(u)
  BY <1>4, OthersKeep
<1> QED
  BY <1>1, <1>2, <1>3, <1>4, NextParts

\* A call works through its list in order.
LEMMA LoopStep ==
  ASSUME TypeOK, LoopInv, [Next]_vars
  PROVE  LoopInv'
<1> SUFFICES ASSUME NEW u \in Tasks
             PROVE  /\ task'[u].pc = "loop" =>
                         task'[u].todo = Above(task'[u].high, Len(task'[u].got))
                    /\ task'[u].pc \in {"save", "insert"} =>
                         /\ task'[u].high \in 1..Len(task'[u].got)
                         /\ task'[u].todo = Above(task'[u].high - 1, Len(task'[u].got))
  BY Zenon DEF LoopInv, Above
<1>0. task[u].high \in Nat
  BY DEF TypeOK, Sync
<1>1. /\ task[u].pc = "loop" => task[u].todo = Above(task[u].high, Len(task[u].got))
      /\ task[u].pc \in {"save", "insert"} =>
           /\ task[u].high \in 1..Len(task[u].got)
           /\ task[u].todo = Above(task[u].high - 1, Len(task[u].got))
  BY DEF LoopInv
<1>2. CASE task'[u] = task[u]
  BY <1>1, <1>2, Zenon
<1>3. CASE task'[u] = Idle
  BY <1>3 DEF Idle
<1>4. CASE SyncStep(u)
  <2>1. (task[u].high + 1) - 1 = task[u].high
    BY <1>0
  <2>2. \/ task'[u] = Idle
        \/ Fetched(task[u], task'[u])
        \/ /\ task'[u].got = task[u].got
           /\ \/ Filtered(task[u], task'[u]) \/ Found(task[u], task'[u])
              \/ PassedBy(task[u], task'[u]) \/ Saved(task[u], task'[u])
              \/ Inserted(task[u], task'[u]) \/ Acked(task[u], task'[u])
    BY <1>4, TaskEffect, Zenon
  <2> QED
    BY <1>1, <1>3, <2>1, <2>2, Zenon
       DEF Fetched, Filtered, Found, PassedBy, Saved, Inserted, Acked
<1> QED
  BY <1>2, <1>3, <1>4, TaskCases, Zenon

\* It acknowledges ids it is done with.
LEMMA AckStep ==
  ASSUME TypeOK, LoopInv, AckInv, [Next]_vars
  PROVE  AckInv'
<1> SUFFICES ASSUME NEW u \in Tasks
             PROVE  task'[u].acks \subseteq Passed(u)'
  BY DEF AckInv
<1>0. task[u].high \in Nat /\ watermark \in Nat
  BY DEF TypeOK, Sync
<1>1. task[u].acks \subseteq Passed(u)
  BY DEF AckInv
<1>2. CASE task'[u] = task[u]
  BY <1>1, <1>2 DEF Passed
<1>3. CASE task'[u] = Idle
  BY <1>3 DEF Idle
<1>4. CASE SyncStep(u)
  <2>2. \/ task'[u] = Idle
        \/ Fetched(task[u], task'[u])
        \/ Filtered(task[u], task'[u]) \/ Found(task[u], task'[u])
        \/ PassedBy(task[u], task'[u]) \/ Saved(task[u], task'[u])
        \/ Inserted(task[u], task'[u]) \/ Acked(task[u], task'[u])
    BY <1>4, TaskEffect, Zenon
  <2> QED
    <3>1. CASE Fetched(task[u], task'[u]) \/ Filtered(task[u], task'[u])
      BY <1>0, <1>1, <3>1, Zenon DEF Fetched, Filtered, Passed
    <3>2. CASE Found(task[u], task'[u])
      <4>1. (task[u].high + 1) - 1 = task[u].high
        BY <1>0
      <4> QED
        BY <1>1, <3>2, <4>1, Zenon DEF Found, Passed
    <3>3. CASE PassedBy(task[u], task'[u]) \/ Inserted(task[u], task'[u])
      <4>1. /\ 1..task[u].high \subseteq 1..(task[u].high + 1)
            /\ 1..(task[u].high - 1) \subseteq 1..task[u].high
            /\ task[u].high + 1 \in 1..(task[u].high + 1)
        BY <1>0
      <4>2. task[u].pc = "insert" => task[u].high \in 1..task[u].high
        BY <1>0 DEF LoopInv
      <4> QED
        BY <1>1, <3>3, <4>1, <4>2, Zenon DEF PassedBy, Inserted, Passed
    <3>4. CASE Saved(task[u], task'[u]) \/ Acked(task[u], task'[u])
      BY <1>1, <3>4, Zenon DEF Saved, Acked, Passed
    <3> QED
      BY <1>3, <2>2, <3>1, <3>2, <3>3, <3>4, Zenon
<1> QED
  BY <1>2, <1>3, <1>4, TaskCases

\* No step deletes or rewrites a row.
LEMMA AnyGrows ==
  ASSUME TypeOK, [Next]_vars
  PROVE  Grows
<1>1. CASE UNCHANGED vars
  <2>1. \A s \in Servers : Len(blobs[s]) \in Nat
    BY DEF TypeOK, MailboxTypeOK
  <2>2. blobs' = blobs
    BY <1>1 DEF vars, mailbox
  <2> QED
    BY <2>1, <2>2 DEF Grows
<1>2. CASE Kill
  <2>1. \A s \in Servers : Len(blobs[s]) \in Nat
    BY DEF TypeOK, MailboxTypeOK
  <2>2. blobs' = blobs
    BY <1>2, Zenon DEF Kill, mailbox
  <2> QED
    BY <2>1, <2>2 DEF Grows
<1> QED
  BY <1>1, <1>2, ElsewhereStep, SyncGrows, NextParts

\* The positions of a table's rows, before and after a step.
LEMMA Rows ==
  ASSUME TypeOK, TypeOK', NEW s \in Servers
  PROVE  /\ Len(blobs[s]) \in Nat /\ Len(blobs'[s]) \in Nat
         /\ DOMAIN blobs[s] = 1..Len(blobs[s]) /\ DOMAIN blobs'[s] = 1..Len(blobs'[s])
         /\ \A i \in 1..Len(blobs[s]) : blobs[s][i] \in Blob
         /\ \A i \in 1..Len(blobs'[s]) : blobs'[s][i] \in Blob
<1>1. blobs[s] \in Seq(Blob) /\ blobs'[s] \in Seq(Blob)
  BY Zenon DEF TypeOK, MailboxTypeOK
<1> QED
  BY <1>1

\* What is covered stays covered, and a key that was kept stays kept.
LEMMA CoveredStays ==
  ASSUME TypeOK, TypeOK', LoopInv, [Next]_vars,
         NEW s \in Servers, NEW i \in 1..Len(blobs[s]), Covered(s, i)
  PROVE  Covered(s, i)'
<1>1. Grows /\ Kept \subseteq Kept'
  BY AnyGrows, KeptGrows
<1>2. /\ Len(blobs[s]) \in Nat /\ Len(blobs'[s]) \in Nat
      /\ DOMAIN blobs[s] = 1..Len(blobs[s]) /\ DOMAIN blobs'[s] = 1..Len(blobs'[s])
  BY Rows
<1>3. /\ DOMAIN blobs[s] \subseteq DOMAIN blobs'[s]
      /\ \A j \in DOMAIN blobs[s] : /\ blobs'[s][j].slot = blobs[s][j].slot
                                    /\ blobs'[s][j].key = blobs[s][j].key
  BY <1>1, <1>2 DEF Grows
<1>4. CASE blobs[s][i].slot \in Kept
  BY <1>1, <1>2, <1>3, <1>4, Zenon DEF Covered
<1>5. CASE Shadowed(s, blobs[s][i])
  BY <1>1, <1>2, <1>3, <1>5, Zenon DEF Covered, Shadowed
<1> QED
  BY <1>4, <1>5, Zenon DEF Covered

\* KeyKept after a step, of a contact and a key from before it.
KeyStillKept(s, c, k) ==
  \E i \in DOMAIN blobs'[s] :
    blobs'[s][i].slot.from = c /\ blobs'[s][i].key = k /\ blobs'[s][i].slot \in Kept'

LEMMA KeyStays ==
  ASSUME TypeOK, TypeOK', LoopInv, [Next]_vars,
         NEW s \in Servers, NEW c, NEW k, KeyKept(s, c, k)
  PROVE  KeyStillKept(s, c, k)
<1>1. Grows /\ Kept \subseteq Kept'
  BY AnyGrows, KeptGrows
<1>2. /\ Len(blobs[s]) \in Nat /\ Len(blobs'[s]) \in Nat
      /\ DOMAIN blobs[s] = 1..Len(blobs[s]) /\ DOMAIN blobs'[s] = 1..Len(blobs'[s])
  BY Rows
<1> QED
  BY <1>1, <1>2 DEF KeyKept, KeyStillKept, Grows
-----------------------------------------------------------------------------
\* Where the watermark, the stored session and the delivered marks come from.
LEMMA Sources ==
  ASSUME TypeOK, [Next]_vars
  PROVE  /\ \/ watermark' = watermark
            \/ \E t \in Tasks : task[t].pc = "mark" /\ watermark' = task[t].high
         /\ \/ consumed' = consumed
            \/ \E t \in Tasks : Save(t)
         /\ \A s \in Servers : \A i \in 1..Len(blobs'[s]) :
              blobs'[s][i].delivered =>
                /\ i <= Len(blobs[s])
                /\ blobs[s][i].delivered \/ \E t \in Tasks : i \in task[t].acks
<1>1. CASE UNCHANGED <<blobs, watermark, consumed>>
  <2>1. \A s \in Servers : Len(blobs[s]) \in Nat
    BY DEF TypeOK, MailboxTypeOK
  <2> QED
    BY <1>1, <2>1
<1>2. CASE UNCHANGED vars
  BY <1>1, <1>2, Zenon DEF vars, mailbox, owner
<1>3. CASE Elsewhere
  BY <1>3, ElsewhereStep, Zenon DEF MarksOnly
<1>4. CASE Kill
  BY <1>1, <1>4, Zenon DEF Kill, mailbox
<1>5. ASSUME NEW t \in Tasks, SyncStep(t)
      PROVE  /\ \/ watermark' = watermark
                \/ task[t].pc = "mark" /\ watermark' = task[t].high
             /\ consumed' = consumed \/ Save(t)
             /\ MarksOnly(task[t].acks)
  <2>1. MarksOnly(task[t].acks)
    BY <1>5, SyncGrows
  <2>2. CASE Mark(t)
    BY <2>1, <2>2 DEF Mark
  <2>3. CASE Save(t)
    BY <2>1, <2>3, Zenon DEF Save
  <2>4. CASE ~Mark(t) /\ ~Save(t)
    BY <1>5, <2>1, <2>4, Zenon
    DEF SyncStep, Fetch, Filter, Decrypt, Insert, Ack, AckFails,
                            AckPanics
  <2> QED
    BY <2>2, <2>3, <2>4, Zenon
<1> QED
  BY <1>2, <1>3, <1>4, <1>5, NextParts, Zenon DEF MarksOnly

\* With one server, the fetched rows remain those of its table.
LEMMA CopyStep ==
  ASSUME OneServer, TypeOK, TypeOK', LoopInv, CopyInv, [Next]_vars
  PROVE  CopyInv'
<1> SUFFICES ASSUME NEW u \in Tasks, NEW s \in Servers
             PROVE  /\ Len(task'[u].got) <= Len(blobs'[s])
                    /\ \A i \in 1..Len(task'[u].got) :
                         /\ task'[u].got[i].slot = blobs'[s][i].slot
                         /\ task'[u].got[i].key = blobs'[s][i].key
  BY Zenon DEF CopyInv
<1>a. task[u] \in Sync
  BY Zenon DEF TypeOK
<1>0. /\ Len(task[u].got) \in Nat /\ Len(blobs[s]) \in Nat /\ Len(blobs'[s]) \in Nat
  BY <1>a, Rows DEF Sync
<1>1. CASE task'[u].got = task[u].got
  BY <1>0, <1>1, AnyGrows DEF CopyInv, Grows
<1>2. CASE task'[u] = Idle
  <2>1. task'[u].got = <<>>
    BY <1>2 DEF Idle
  <2> QED
    BY <1>0, <2>1
<1>3. CASE Fetched(task[u], task'[u])
  <2>1. task'[u].got = blobs'[s]
    BY <1>3 DEF Fetched, OneServer
  <2> QED
    BY <1>0, <2>1
<1>4. CASE task'[u] = task[u]
  BY <1>1, <1>4, Zenon
<1>5. CASE SyncStep(u)
  BY <1>1, <1>2, <1>3, <1>5, TaskEffect, Zenon
<1> QED
  BY <1>2, <1>4, <1>5, TaskCases, Zenon

\* The watermark and the calls' highest ids stay within the table.
LEMMA MarkStep ==
  ASSUME TypeOK, TypeOK', LoopInv, CopyInv, MarkInv, [Next]_vars
  PROVE  MarkInv'
<1> SUFFICES ASSUME NEW s \in Servers
             PROVE  /\ watermark' <= Len(blobs'[s])
                    /\ \A u \in Tasks : task'[u].high <= Len(blobs'[s])
  BY DEF MarkInv
<1>0. /\ Len(blobs[s]) \in Nat /\ Len(blobs'[s]) \in Nat /\ watermark \in Nat
      /\ Len(blobs[s]) <= Len(blobs'[s])
      /\ watermark <= Len(blobs[s])
  BY Rows, AnyGrows, Zenon DEF TypeOK, Grows, MarkInv
<1>1. \A u \in Tasks : task[u].high \in Nat /\ task[u].high <= Len(blobs[s])
  BY Zenon DEF TypeOK, Sync, MarkInv
<1>2. watermark' <= Len(blobs'[s])
  BY <1>0, <1>1, Sources
<1>3. ASSUME NEW u \in Tasks
      PROVE  task'[u].high <= Len(blobs'[s])
  <2>1. CASE task'[u].high = task[u].high
    BY <1>0, <1>1, <2>1
  <2>2. CASE task'[u].high = 0 \/ task'[u].high = watermark
    BY <1>0, <2>2
  <2>3. CASE task'[u].high \in 1..Len(task[u].got)
    <3>a. task[u] \in Sync
      BY Zenon DEF TypeOK
    <3>1. Len(task[u].got) \in Nat /\ Len(task[u].got) <= Len(blobs[s])
      BY <3>a DEF CopyInv, Sync
    <3> QED
      BY <1>0, <2>3, <3>1
  <2>4. CASE SyncStep(u)
    <3>1. \/ task'[u].high = task[u].high \/ task'[u].high = 0
          \/ task'[u].high = watermark \/ task'[u].high \in 1..Len(task[u].got)
      <4>1. \/ task'[u] = Idle
            \/ Fetched(task[u], task'[u])
            \/ Filtered(task[u], task'[u]) \/ Found(task[u], task'[u])
            \/ PassedBy(task[u], task'[u]) \/ Saved(task[u], task'[u])
            \/ Inserted(task[u], task'[u]) \/ Acked(task[u], task'[u])
        BY <2>4, TaskEffect, Zenon
      <4>2. Idle.high = 0
        BY DEF Idle
      <4>3. task'[u] = Idle => task'[u].high = 0
        BY <4>2, Zenon
      <4> QED
        BY <4>1, <4>3, Zenon
           DEF Fetched, Filtered, Found, PassedBy, Saved, Inserted, Acked
    <3> QED
      BY <2>1, <2>2, <2>3, <3>1, Zenon
  <2> QED
    BY <2>1, <2>2, <2>4, TaskCases DEF Idle
<1> QED
  BY <1>2, <1>3

\* Every key of a stored session, and of a session a call has loaded, decrypted
\* a message that is kept: saving an older session forgets keys, it adds none.
LEMMA KeyStep ==
  ASSUME TypeOK, TypeOK', LoopInv, CopyInv, KeyInv, [Next]_vars
  PROVE  KeyInv'
<1> SUFFICES ASSUME NEW s \in Servers
             PROVE  /\ \A c \in Contacts : \A k \in consumed'[c] : KeyStillKept(s, c, k)
                    /\ \A u \in Tasks : task'[u].pc = "save" =>
                         \A k \in task'[u].loaded :
                           KeyStillKept(s, task'[u].got[task'[u].high].slot.from, k)
  BY Zenon DEF KeyInv, KeyKept, KeyStillKept
<1>1. \A c \in Contacts : \A k \in consumed[c] : KeyStillKept(s, c, k)
  BY KeyStays, Zenon DEF KeyInv
<1>2. ASSUME NEW t \in Tasks, Save(t)
      PROVE  \A c \in Contacts : \A k \in consumed'[c] : KeyStillKept(s, c, k)
  <2> DEFINE n == task[t].high
             b == task[t].got[n]
  <2>1. /\ task[t].pc = "save" /\ n \in 1..Len(task[t].got) /\ b \in Blob
        /\ consumed' = [consumed EXCEPT ![b.slot.from] = task[t].loaded \cup {b.key}]
        /\ task' = [task EXCEPT ![t].pc = "insert"]
        /\ UNCHANGED mailbox
    BY <1>2, SaveEffect, Zenon
  <2>2. \A k \in task[t].loaded : KeyStillKept(s, b.slot.from, k)
    BY <2>1, KeyStays, Zenon DEF KeyInv
  <2>3. n \in DOMAIN blobs'[s] /\ b.slot = blobs'[s][n].slot /\ b.key = blobs'[s][n].key
    <3>1. task[t] \in Sync
      BY Zenon DEF TypeOK
    <3>2. Len(task[t].got) \in Nat /\ n \in Nat
      BY <3>1 DEF Sync
    <3>3. DOMAIN blobs'[s] = 1..Len(blobs'[s]) /\ Len(blobs'[s]) \in Nat
      BY Rows
    <3> QED
      BY <2>1, <3>2, <3>3 DEF CopyInv, mailbox
  <2>4. b.slot \in Kept'
    <3>1. task[t] \in Sync /\ task \in [Tasks -> Sync]
      BY Zenon DEF TypeOK
    <3>2. task'[t].pc = "insert" /\ task'[t].got = task[t].got /\ task'[t].todo = task[t].todo
      BY <2>1, <3>1, Zenon DEF Sync
    <3>3. Head(task[t].todo) = n
      BY <2>1, Working, Zenon
    <3> QED
      BY <3>2, <3>3, Zenon DEF Kept, Inserting, Handled
  <2>5. KeyStillKept(s, b.slot.from, b.key)
    BY <2>3, <2>4, Zenon DEF KeyStillKept
  <2> HIDE DEF b
  <2>6. consumed \in [Contacts -> SUBSET Nat]
    BY Zenon DEF TypeOK
  <2> QED
    BY <1>1, <2>1, <2>2, <2>5, <2>6, Zenon
<1>3. \A c \in Contacts : \A k \in consumed'[c] : KeyStillKept(s, c, k)
  BY <1>1, <1>2, Sources, Zenon
<1>4. ASSUME NEW u \in Tasks, task'[u].pc = "save"
      PROVE  \A k \in task'[u].loaded :
               KeyStillKept(s, task'[u].got[task'[u].high].slot.from, k)
  <2>1. CASE task'[u] = task[u]
    BY <1>4, <2>1, KeyStays, Zenon DEF KeyInv
  <2>2. CASE SyncStep(u)
    <3>1. task'[u].got = task[u].got /\ Found(task[u], task'[u])
      <4>1. \/ task'[u] = Idle
            \/ Fetched(task[u], task'[u])
            \/ /\ task'[u].got = task[u].got
               /\ \/ Filtered(task[u], task'[u]) \/ Found(task[u], task'[u])
                  \/ PassedBy(task[u], task'[u]) \/ Saved(task[u], task'[u])
                  \/ Inserted(task[u], task'[u]) \/ Acked(task[u], task'[u])
        BY <2>2, TaskEffect, Zenon
      <4>2. task'[u] # Idle
        BY <1>4 DEF Idle
      <4> QED
        BY <1>4, <4>1, <4>2, Zenon DEF Fetched, Filtered, PassedBy, Saved, Inserted, Acked
    <3> DEFINE n == task'[u].high
    <3>2. n \in 1..Len(task[u].got) /\ task'[u].loaded = consumed[task[u].got[n].slot.from]
      BY <3>1, Zenon DEF Found
    <3>3. task[u].got[n].slot.from \in Contacts
      <4>1. task[u] \in Sync
        BY Zenon DEF TypeOK
      <4>2. task[u].got \in Seq(Blob)
        BY <4>1 DEF Sync
      <4> HIDE DEF n
      <4>3. task[u].got[n] \in Blob
        BY <3>2, <4>2
      <4> QED
        BY <4>3, Zenon DEF Blob, Slot
    <3> QED
      BY <1>1, <3>1, <3>2, <3>3, Zenon
  <2> QED
    BY <1>4, <2>1, <2>2, TaskCases DEF Idle
<1> QED
  BY <1>3, <1>4, Zenon

\* A blob whose key is used up is covered: by itself if it is the one that was
\* decrypted with it, by the other one if not.
LEMMA KeyCovers ==
  ASSUME TypeOK, NEW s \in Servers, NEW i \in DOMAIN blobs[s],
         KeyKept(s, blobs[s][i].slot.from, blobs[s][i].key)
  PROVE  Covered(s, i)
  BY Zenon DEF KeyKept, Covered, Shadowed

\* The ids a call has come past were counted before, or are covered now.
LEMMA NewlyPassed ==
  ASSUME TypeOK, TypeOK', LoopInv, CopyInv, MarkInv, KeyInv, [Next]_vars,
         NEW u \in Tasks, NEW s \in Servers, NEW i \in Passed(u)'
  PROVE  /\ i \in 1..Len(blobs[s])
         /\ i \in Passed(u) \/ i <= watermark \/ Covered(s, i) \/ Covered(s, i)'
<1> USE DEF Passed
<1>0. task[u] \in Sync /\ watermark \in Nat
  BY Zenon DEF TypeOK
<1>1. /\ task[u].high \in Nat /\ task[u].high <= Len(blobs[s])
      /\ watermark <= Len(blobs[s])
      /\ Len(blobs[s]) \in Nat /\ Len(task[u].got) \in Nat
      /\ Len(task[u].got) <= Len(blobs[s])
  BY <1>0, Rows DEF Sync, MarkInv, CopyInv
<1>2. i \in Passed(u) => i \in 1..Len(blobs[s])
  BY <1>1
<1>3. CASE task'[u] = task[u]
  BY <1>2, <1>3, Zenon
<1>4. CASE task'[u] = Idle
  BY <1>4 DEF Idle
<1>5. CASE SyncStep(u)
  <2>1. CASE Fetched(task[u], task'[u])
    BY <2>1 DEF Fetched
  <2>2. CASE Filtered(task[u], task'[u])
    BY <1>0, <1>1, <2>2 DEF Filtered
  <2>3. CASE Found(task[u], task'[u])
    <3>1. (task[u].high + 1) - 1 = task[u].high
      BY <1>1
    <3> QED
      BY <1>2, <2>3, <3>1, Zenon DEF Found
  <2>4. CASE PassedBy(task[u], task'[u])
    <3> DEFINE n == task[u].high + 1
    <3>1. /\ task[u].pc = "loop" /\ n \in 1..Len(task[u].got)
          /\ i \in 1..n
          /\ task[u].got[n].key \in consumed[task[u].got[n].slot.from]
      BY <2>4, Zenon DEF PassedBy
    <3>2. i \in 1..task[u].high \/ i = n
      BY <1>1, <3>1
    <3>3. n \in 1..Len(blobs[s])
      BY <1>1, <3>1
    <3>4. task[u].got[n].slot.from \in Contacts
      <4>2. task[u].got[n] \in Blob
        BY <1>0, <3>1 DEF Sync
      <4> QED
        BY <4>2, Zenon DEF Blob, Slot
    <3>5. KeyKept(s, blobs[s][n].slot.from, blobs[s][n].key)
      BY <3>1, <3>4, Zenon DEF CopyInv, KeyInv
    <3>6. Covered(s, n)
      BY <3>3, <3>5, KeyCovers, Rows, Zenon
    <3> QED
      BY <1>2, <3>1, <3>2, <3>3, <3>6, Zenon
  <2>5. CASE Inserted(task[u], task'[u])
    <3>0. PICK n \in Nat : n = task[u].high
      BY <1>1
    <3>1. /\ task[u].pc = "insert" /\ i \in 1..n
          /\ task[u].got[n].slot \in inbox'
      BY <2>5, <3>0, Zenon DEF Inserted
    <3>2. n \in 1..Len(task[u].got)
      BY <3>0, <3>1, Zenon DEF LoopInv
    <3>3. i \in 1..(n - 1) \/ i = n
      BY <1>1, <3>1
    <3>4. n \in 1..Len(blobs[s])
      BY <1>1, <3>2
    <3>5. blobs'[s][n].slot = task[u].got[n].slot
      BY <3>2, <3>4, AnyGrows, Zenon DEF CopyInv, Grows
    <3>6. Covered(s, n)'
      BY <3>1, <3>5, Zenon DEF Covered, Kept
    <3> QED
      BY <1>2, <3>0, <3>1, <3>3, <3>4, <3>6, Zenon
  <2>6. CASE Saved(task[u], task'[u]) \/ Acked(task[u], task'[u])
    BY <1>2, <2>6, Zenon DEF Saved, Acked
  <2> QED
    BY <1>4, <1>5, <2>1, <2>2, <2>3, <2>4, <2>5, <2>6, TaskEffect, Zenon
<1> QED
  BY <1>3, <1>4, <1>5, TaskCases, Zenon

\* Whatever the watermark, the server or a call counts as dealt with is covered.
LEMMA CoverStep ==
  ASSUME TypeOK, TypeOK', SyncInv, [Next]_vars
  PROVE  CoverInv'
<1> USE DEF SyncInv
<1> SUFFICES ASSUME NEW s \in Servers, NEW i \in DOMAIN blobs'[s],
                    \/ i <= watermark' \/ blobs'[s][i].delivered
                    \/ \E t \in Tasks : i \in Passed(t)'
             PROVE  Covered(s, i)'
  BY DEF CoverInv
<1>0. /\ DOMAIN blobs'[s] = 1..Len(blobs'[s]) /\ DOMAIN blobs[s] = 1..Len(blobs[s])
      /\ Len(blobs'[s]) \in Nat /\ Len(blobs[s]) \in Nat
  BY Rows, Zenon
<1>1. ASSUME i \in 1..Len(blobs[s]),
             i <= watermark \/ blobs[s][i].delivered \/ \E t \in Tasks : i \in Passed(t)
      PROVE  Covered(s, i)'
  BY <1>0, <1>1, CoveredStays, Zenon DEF CoverInv
<1>2. CASE i <= watermark'
  <2>1. CASE watermark' = watermark
    <3>1. watermark \in Nat /\ watermark <= Len(blobs[s])
      BY Zenon DEF TypeOK, MarkInv
    <3> QED
      BY <1>0, <1>1, <1>2, <2>1, <3>1
  <2>2. ASSUME NEW t \in Tasks, task[t].pc = "mark", watermark' = task[t].high
        PROVE  Covered(s, i)'
    <3>1. task[t].high \in Nat /\ task[t].high <= Len(blobs[s])
      BY Zenon DEF TypeOK, Sync, MarkInv
    <3>2. i \in Passed(t)
      BY <1>0, <1>2, <2>2, <3>1 DEF Passed
    <3> QED
      BY <1>0, <1>1, <1>2, <2>2, <3>1, <3>2
  <2> QED
    BY <2>1, <2>2, Sources, Zenon
<1>3. CASE blobs'[s][i].delivered
  <2>1. /\ i <= Len(blobs[s])
        /\ blobs[s][i].delivered \/ \E t \in Tasks : i \in task[t].acks
    BY <1>0, <1>3, Sources, Zenon
  <2>2. i \in 1..Len(blobs[s])
    BY <1>0, <2>1
  <2> QED
    BY <1>1, <2>1, <2>2, Zenon DEF AckInv
<1>4. ASSUME NEW t \in Tasks, i \in Passed(t)'
      PROVE  Covered(s, i)'
  BY <1>1, <1>4, NewlyPassed, CoveredStays, Zenon
<1> QED
  BY <1>2, <1>3, <1>4
-----------------------------------------------------------------------------
\* The invariant holds at the start, and every step keeps it.
LEMMA InitInv == Init => TypeOK /\ SyncInv
<1> SUFFICES ASSUME Init
             PROVE  TypeOK /\ SyncInv
  OBVIOUS
<1>1. /\ \A t \in Tasks : task[t] = Idle
      /\ \A s \in Servers : blobs[s] = <<>>
      /\ watermark = 0
      /\ \A c \in Contacts : consumed[c] = {}
  BY DEF Init, MailboxInit
<1>2. TypeOK
  <2>1. task \in [Tasks -> Sync]
    BY IdleType DEF Init
  <2>2. MailboxTypeOK
    BY DEF Init, MailboxInit, MailboxTypeOK
  <2>3. /\ reg \in [Contacts -> [n : 0..Batch, at : Addr, failed : BOOLEAN]]
        /\ \A c \in Contacts : reg[c].n = Batch
    BY BatchAssumption DEF Init, Addr, BatchAssumption
  <2>4. ~(Batch < Batch)
    BY BatchAssumption DEF BatchAssumption
  <2> QED
    BY <2>1, <2>2, <2>3, <2>4, Zenon DEF Init, TypeOK, Addr
<1>3. CopyInv /\ LoopInv /\ AckInv /\ MarkInv
  BY <1>1 DEF CopyInv, LoopInv, AckInv, MarkInv, Idle
<1>4. CoverInv /\ KeyInv
  BY <1>1 DEF CoverInv, KeyInv, Idle
<1> QED
  BY <1>2, <1>3, <1>4 DEF SyncInv

LEMMA InvStep ==
  ASSUME OneServer, TypeOK, SyncInv, [Next]_vars
  PROVE  TypeOK' /\ SyncInv'
<1>1. TypeOK'
  BY TypeStep DEF SyncInv
<1> QED
  BY <1>1, CopyStep, LoopStep, AckStep, MarkStep, CoverStep, KeyStep DEF SyncInv

\* Type correctness, with any number of Servers: the tables, the calls' records
\* and the contacts' counters stay of their kinds through every step.
THEOREM TypeSafe == Spec => []TypeOK
<1>1. Init => TypeOK /\ LoopInv
  BY InitInv DEF SyncInv
<1>2. TypeOK /\ LoopInv /\ [Next]_vars => (TypeOK /\ LoopInv)'
  BY TypeStep, LoopStep
<1> QED
  BY <1>1, <1>2, PTL DEF Spec

\* WatermarkCovers: with one Server, whatever calls, kills and failures happen
\* at the same time, sync's watermark passes no blob that was not stored, but
\* for the two exceptions the invariant names.
THEOREM WatermarkSafe ==
  ASSUME OneServer
  PROVE  Spec => []WatermarkCovers
<1>1. Init => TypeOK /\ SyncInv
  BY InitInv
<1>2. (TypeOK /\ SyncInv) /\ [Next]_vars => (TypeOK /\ SyncInv)'
  BY InvStep
<1>3. TypeOK /\ SyncInv => WatermarkCovers
  BY Zenon DEF TypeOK, Addr, SyncInv, CoverInv, Covered, WatermarkCovers
<1> QED
  BY <1>1, <1>2, <1>3, PTL DEF Spec

\* DeliveredWasKept: with one Server, sync acknowledges no blob that the owner
\* has not stored, with the same exceptions.
THEOREM DeliveredSafe ==
  ASSUME OneServer
  PROVE  Spec => []DeliveredWasKept
<1>1. Init => TypeOK /\ SyncInv
  BY InitInv
<1>2. (TypeOK /\ SyncInv) /\ [Next]_vars => (TypeOK /\ SyncInv)'
  BY InvStep
<1>3. TypeOK /\ SyncInv => DeliveredWasKept
  BY DEF SyncInv, CoverInv, Covered, DeliveredWasKept
<1> QED
  BY <1>1, <1>2, <1>3, PTL DEF Spec
-----------------------------------------------------------------------------
\* Only the slot a contact comes to next is ever used up.
LEMMA SlotStep ==
  ASSUME TypeOK, SlotInv, [Next]_vars
  PROVE  SlotInv'
<1> DEFINE S(c, p, n) == [from |-> c, pairing |-> p, n |-> n]
<1>0. /\ slots \in [Servers -> SUBSET Slot]
      /\ nextN \in [Contacts -> Nat] /\ pairing \in [Contacts -> Nat]
  BY DEF TypeOK, MailboxTypeOK
<1>r. /\ reg \in [Contacts -> [n : 0..Batch, at : Addr, failed : BOOLEAN]]
      /\ \A c \in Contacts : reg[c].n < Batch => reg[c].at \in Servers
  BY DEF TypeOK
<1>a. \A c \in Contacts : reg[c].n \in Nat /\ (reg[c].at # NoServer => reg[c].at \in Servers)
  BY <1>r, BatchAssumption DEF Addr, BatchAssumption
<1>1. CASE UNCHANGED <<slots, nextN, pairing, reg>>
  BY <1>1, Zenon DEF SlotInv
<1>2. ASSUME NEW c \in Contacts, add_contact(c)
      PROVE  SlotInv'
  <2>1. /\ reg' = [reg EXCEPT ![c] =
                     [n |-> IF poisoned \/ own = NoServer THEN Batch ELSE 0,
                      at |-> own, failed |-> poisoned]]
        /\ pairing' = [pairing EXCEPT ![c] = pairing[c] + 1]
        /\ slots' = slots /\ nextN' = nextN
    BY <1>2, Zenon DEF add_contact, mailbox, contact
  <2>2. \A d \in Contacts \ {c} : reg'[d] = reg[d] /\ pairing'[d] = pairing[d]
    BY <1>0, <1>r, <2>1, Zenon
  <2>3. ~reg'[c].failed /\ reg'[c].at # NoServer => reg'[c].n = 0
    BY <1>r, <2>1
  <2>4. ASSUME NEW d \in Contacts, ~reg'[d].failed, reg'[d].at # NoServer, NEW n \in Nat,
               n < reg'[d].n, n >= nextN'[d]
        PROVE  S(d, pairing'[d], n) \in slots'[reg'[d].at]
    <3>1. CASE d = c
      BY <2>3, <2>4, <3>1
    <3>2. CASE d # c
      BY <2>1, <2>2, <2>4, <3>2, Zenon DEF SlotInv
    <3> QED
      BY <3>1, <3>2, Zenon
  <2> QED
    BY <2>4, Zenon DEF SlotInv
<1>3. ASSUME NEW c \in Contacts, RegisterNext(c)
      PROVE  SlotInv'
  <2>1. /\ reg[c].n < Batch
        /\ reg' = [reg EXCEPT ![c].n = reg[c].n + 1]
        /\ slots' = [slots EXCEPT ![reg[c].at] =
                       slots[reg[c].at] \cup {S(c, pairing[c], reg[c].n)}]
        /\ pairing' = pairing /\ nextN' = nextN
    BY <1>3, Zenon DEF RegisterNext, register_slot, contact
  <2>2. reg'[c].n = reg[c].n + 1 /\ reg'[c].at = reg[c].at /\ reg'[c].failed = reg[c].failed
    BY <1>r, <2>1, Zenon
  <2>3. \A d \in Contacts \ {c} : reg'[d] = reg[d]
    BY <1>r, <2>1, Zenon
  <2>4. /\ \A s \in Servers : slots[s] \subseteq slots'[s]
        /\ S(c, pairing[c], reg[c].n) \in slots'[reg[c].at]
    BY <1>0, <1>r, <2>1, Zenon
  <2>5. ASSUME NEW d \in Contacts, ~reg'[d].failed, reg'[d].at # NoServer, NEW n \in Nat,
               n < reg'[d].n, n >= nextN'[d]
        PROVE  S(d, pairing'[d], n) \in slots'[reg'[d].at]
    <3>1. reg'[d].at = reg[d].at /\ reg'[d].failed = reg[d].failed
      BY <2>2, <2>3
    <3>2. n < reg[d].n \/ (d = c /\ n = reg[c].n)
      BY <1>a, <2>2, <2>3, <2>5
    <3> QED
      BY <1>a, <2>1, <2>4, <2>5, <3>1, <3>2, Zenon DEF SlotInv
  <2> QED
    BY <2>5, Zenon DEF SlotInv
<1>4. ASSUME NEW c \in Contacts, RegisterFails(c)
      PROVE  SlotInv'
  <2>1. /\ reg[c].n < Batch
        /\ reg' = [reg EXCEPT ![c] = [reg[c] EXCEPT !.n = Batch, !.failed = TRUE]]
        /\ \/ slots' = [slots EXCEPT ![reg[c].at] =
                          slots[reg[c].at] \cup {S(c, pairing[c], reg[c].n)}]
           \/ slots' = slots
        /\ pairing' = pairing /\ nextN' = nextN
    BY <1>4, Zenon DEF RegisterFails, register_slot, contact, mailbox
  <2>2. reg'[c].failed
    BY <1>r, <2>1, Zenon
  <2>3. \A d \in Contacts \ {c} : reg'[d] = reg[d]
    BY <1>r, <2>1, Zenon
  <2>4. \A s \in Servers : slots[s] \subseteq slots'[s]
    BY <1>0, <1>r, <2>1
  <2> QED
    BY <1>a, <2>1, <2>2, <2>3, <2>4, Zenon DEF SlotInv
<1>5. ASSUME NEW c \in Contacts, WriteOk(c) \/ WriteFails(c)
      PROVE  SlotInv'
  <2>1. /\ \/ slots' = [slots EXCEPT ![addr[c]] = slots[addr[c]] \ {NextSlot(c)}]
           \/ slots' = slots
        /\ nextN' = [nextN EXCEPT ![c] = nextN[c] + 1]
        /\ pairing' = pairing /\ reg' = reg
    BY <1>5, Zenon DEF WriteOk, WriteFails, accept_write, reject_write, SpendN, owner, mailbox
  <2>2. \A s \in Servers : slots[s] \ {NextSlot(c)} \subseteq slots'[s]
    BY <1>0, <2>1
  <2>3. nextN'[c] = nextN[c] + 1 /\ \A d \in Contacts \ {c} : nextN'[d] = nextN[d]
    BY <1>0, <2>1
  <2>4. ASSUME NEW d \in Contacts, NEW n \in Nat, n >= nextN'[d]
        PROVE  S(d, pairing[d], n) # NextSlot(c) /\ n >= nextN[d]
    <3>1. nextN[c] \in Nat
      BY <1>0
    <3>2. d # c \/ n # nextN[c]
      BY <2>3, <2>4, <3>1
    <3>3. S(d, pairing[d], n).from = d /\ S(d, pairing[d], n).n = n
      OBVIOUS
    <3>4. NextSlot(c).from = c /\ NextSlot(c).n = nextN[c]
      BY DEF NextSlot
    <3>5. S(d, pairing[d], n) # NextSlot(c)
      BY <3>2, <3>3, <3>4
    <3>6. n >= nextN[d]
      BY <2>3, <2>4, <3>1
    <3> QED
      BY <3>5, <3>6
  <2>5. ASSUME NEW d \in Contacts, ~reg'[d].failed, reg'[d].at # NoServer, NEW n \in Nat,
               n < reg'[d].n, n >= nextN'[d]
        PROVE  S(d, pairing'[d], n) \in slots'[reg'[d].at]
    BY <1>a, <2>1, <2>2, <2>4, <2>5, Zenon DEF SlotInv
  <2> QED
    BY <2>5, Zenon DEF SlotInv
<1>6. CASE Kill
  <2>1. /\ \A c \in Contacts : reg'[c] = [reg[c] EXCEPT !.n = Batch,
                                           !.failed = reg[c].failed \/ reg[c].n < Batch]
        /\ UNCHANGED <<slots, nextN, pairing>>
    BY <1>6, Zenon DEF Kill, mailbox, contact
  <2>2. ASSUME NEW c \in Contacts
        PROVE  /\ reg'[c].at = reg[c].at
               /\ ~reg'[c].failed => ~reg[c].failed /\ reg'[c].n = reg[c].n
    <3>1. reg[c] \in [n : 0..Batch, at : Addr, failed : BOOLEAN]
      BY <1>r
    <3>2. reg'[c].at = reg[c].at /\ reg'[c].n = Batch
      BY <2>1, <3>1, ZenonT(30)
    <3>3. reg'[c].failed = (reg[c].failed \/ reg[c].n < Batch)
      BY <2>1, <3>1, Zenon
    <3>4. reg[c].n \in 0..Batch
      BY <3>1
    <3>5. ~(reg[c].n < Batch) => reg[c].n = Batch
      BY <3>4, BatchAssumption DEF BatchAssumption
    <3> QED
      BY <3>2, <3>3, <3>5, Zenon
  <2> QED
    BY <2>1, <2>2, ZenonT(30) DEF SlotInv
<1>7. ASSUME NEW t \in Tasks, SyncStep(t)
      PROVE  UNCHANGED <<slots, nextN, pairing, reg>>
  BY <1>7, Zenon
  DEF SyncStep, Fetch, Filter, Decrypt, Save, Insert, Ack, AckFails, AckPanics,
              Mark, SyncFrame, contact, mailbox, ack
<1>8. ASSUME NEW c \in Contacts, ContactPairs(c) \/ PointerArrives(c) \/ OwnerSendsFirst(c)
      PROVE  UNCHANGED <<slots, nextN, pairing, reg>>
  BY <1>8, Zenon DEF ContactPairs, PointerArrives, OwnerSendsFirst, owner, mailbox
<1>9. ASSUME NEW s \in Servers \cup {NoServer}, set_own_server_addr(s)
      PROVE  UNCHANGED <<slots, nextN, pairing, reg>>
  BY <1>9 DEF set_own_server_addr, contact, mailbox
<1>10. CASE UNCHANGED vars
  BY <1>1, <1>10 DEF vars, owner, contact, mailbox
<1> QED
  BY <1>1, <1>2, <1>3, <1>4, <1>5, <1>6, <1>7, <1>8, <1>9, <1>10, NextParts, Zenon DEF Elsewhere

\* NextSlotRegistered: with any number of Servers, a failed write spends its
\* number and its number only, so a contact's next write finds its slot open
\* within the batch that add_contact registered.
THEOREM SlotSafe == Spec => []NextSlotRegistered
<1>1. Init => TypeOK /\ LoopInv /\ SlotInv
  <2>1. Init => SlotInv
    <3>1. Init => \A c \in Contacts : reg[c].at = NoServer
      BY DEF Init
    <3> QED
      BY <3>1 DEF SlotInv
  <2> QED
    BY <2>1, InitInv DEF SyncInv
<1>2. (TypeOK /\ LoopInv /\ SlotInv) /\ [Next]_vars => (TypeOK /\ LoopInv /\ SlotInv)'
  BY TypeStep, LoopStep, SlotStep
<1>3. TypeOK /\ SlotInv => NextSlotRegistered
  BY BatchAssumption DEF SlotInv, NextSlotRegistered, TypeOK, NextSlot, BatchAssumption
<1> QED
  BY <1>1, <1>2, <1>3, PTL DEF Spec
=============================================================================
