----------------------------- MODULE StatusProofs -----------------------------
(***************************************************************************)
(* Proofs about what a client and its contacts are told: the address of    *)
(* the owner's Server mailbox (PointerUpdate), and the status of a message *)
(* (DeliveryStatus).  The two share no state; each is proved for any value *)
(* of its constants.                                                       *)
(*                                                                         *)
(* PointerUpdate: NumberBound relates every number in circulation to those *)
(* the owner has given out, also when its counter was set back.  Served    *)
(* says where the newest update of a contact is; it is what a broadcast    *)
(* under a new number establishes, and what SettledOnCurrent needs at rest.*)
(***************************************************************************)
EXTENDS PointerUpdate, DeliveryStatus, TLAPS

\* No number in circulation is beyond those the owner has given out.
NumberBound ==
  /\ \A c \in Contacts : seqOf[c] <= seq + behind
  /\ \A u \in wire \cup handling : u.seq <= seq + behind
  /\ \A c \in Contacts : \A u \in seen[c] : u.to = c /\ u.seq <= seq + behind
  /\ \A b \in bundles : b.seq <= seq + behind
  /\ \A t \in tasks : t.pc = "send" => t.seq <= seq

\* Every change of the address has its number.
Announced == \A t \in tasks : t.pc = "send"

\* The newest number stands for the current address wherever it is on the way to
\* contact c, it is handled there alone, and it has reached c, is on its way or
\* is yet to be sent.
Served(c) ==
  /\ \A t \in tasks : t.seq = seq /\ c \in t.todo => t.addr = own
  /\ \A u \in wire \cup handling : u.to = c /\ u.seq = seq => u.addr = own
  /\ seqOf[c] = seq => addrOf[c] = own /\ \A h \in handling : h.to # c
  /\ \A g, h \in handling : g.to = c /\ h.to = c /\ g.seq = seq => g = h
  /\ \/ seqOf[c] = seq
     \/ \E u \in wire \cup handling : u.to = c /\ u.seq = seq
     \/ \E t \in tasks : t.seq = seq /\ c \in t.todo

SettleInv ==
  \A c \in Contacts \ unsure : behind = 0 /\ (Announced => Served(c))
-----------------------------------------------------------------------------
\* Every action keeps the variables in shape.
LEMMA PointerTypeStep ==
  ASSUME PointerTypeOK, NumberBound, [PointerNext]_pointerVars
  PROVE  PointerTypeOK'
<1>0. \A b \in bundles : b.seq <= seq + behind
  BY Zenon DEF NumberBound
<1> USE DEF PointerTypeOK, Task, Update, Bundle, Asm, owner, contact, limits, history
<1>1. ASSUME NEW a \in Addrs, set_own_server_addr(a) PROVE PointerTypeOK'
  <2>1. tasks' \subseteq Task
    BY <1>1 DEF set_own_server_addr
  <2>2. own' \in Addrs /\ changes' \in Nat
    BY <1>1 DEF set_own_server_addr
  <2> QED
    BY <1>1, <2>1, <2>2, Zenon DEF set_own_server_addr
<1>2. ASSUME NEW t \in tasks, ReadAddr(t) PROVE PointerTypeOK'
  <2>1. tasks' \subseteq Task
    BY <1>2 DEF ReadAddr, Proceed
  <2> QED
    BY <1>2, <2>1, Zenon DEF ReadAddr
<1>3. ASSUME NEW t \in tasks, TickSeq(t) PROVE PointerTypeOK'
  <2>1. seq' \in Nat /\ behind' \in Nat /\ unsure' \subseteq Contacts
    BY <1>3 DEF TickSeq
  <2>2. tasks' \subseteq Task
    BY <1>3, <2>1 DEF TickSeq, Proceed
  <2> QED
    BY <1>3, <2>1, <2>2, Zenon DEF TickSeq
<1>4. ASSUME NEW t \in tasks, NEW c \in Contacts, SendUpdate(t, c) PROVE PointerTypeOK'
  <2>1. tasks' \subseteq Task
    BY <1>4 DEF SendUpdate, Proceed
  <2>2. wire' \subseteq Update /\ faults' \in Nat /\ unsure' \subseteq Contacts
    BY <1>4 DEF SendUpdate
  <2> QED
    BY <1>4, <2>1, <2>2, Zenon DEF SendUpdate
<1>5. ASSUME NEW u \in wire, Check(u) PROVE PointerTypeOK'
  <2>1. seen' \in [Contacts -> SUBSET Update]
    BY <1>5, Zenon DEF Check
  <2>2. wire' \cup handling' \subseteq Update /\ unsure' \subseteq Contacts
    BY <1>5, Zenon DEF Check
  <2> QED
    BY <1>5, <2>1, <2>2, Zenon DEF Check
<1>6. ASSUME NEW u \in handling, ApplyUpdate(u) PROVE PointerTypeOK'
  BY <1>6, Zenon DEF ApplyUpdate
<1>7. CASE KillOwner
  <2>1. faults' \in Nat /\ unsure' \subseteq Contacts
    BY <1>7 DEF KillOwner
  <2> QED
    BY <1>7, <2>1, Zenon DEF KillOwner
<1>8. CASE push_backup \/ export_backup
  <2>1. backups' \in Nat /\ asm' \subseteq Asm
    BY <1>8, AddrAssumption DEF push_backup, export_backup
  <2> QED
    BY <1>8, <2>1, Zenon DEF push_backup, export_backup
<1>9. ASSUME NEW a \in asm, ReadOwn(a) PROVE PointerTypeOK'
  <2>1. asm' \subseteq Asm
    BY <1>9 DEF ReadOwn
  <2> QED
    BY <1>9, <2>1, Zenon DEF ReadOwn
<1>10. ASSUME NEW a \in asm, ReadCounter(a) PROVE PointerTypeOK'
  <2>1. bundles' \subseteq Bundle
    BY <1>10 DEF ReadCounter
  <2> QED
    BY <1>10, <2>1, Zenon DEF ReadCounter
<1>11. ASSUME NEW b \in bundles, Restore(b) PROVE PointerTypeOK'
  <2>1. faults' \in Nat /\ behind' \in Nat /\ own' \in Addrs
    BY <1>0, <1>11 DEF Restore
  <2> QED
    BY <1>11, <2>1, Zenon DEF Restore
<1>12. ASSUME NEW c \in Contacts, KillContact(c) PROVE PointerTypeOK'
  <2>1. faults' \in Nat
    BY <1>12 DEF KillContact
  <2> QED
    BY <1>12, <2>1, Zenon DEF KillContact
<1>13. ASSUME NEW c \in Contacts, BackupContact(c) PROVE PointerTypeOK'
  BY <1>13, Zenon DEF BackupContact
<1>14. ASSUME NEW c \in Contacts, RestoreContact(c) PROVE PointerTypeOK'
  <2>1. faults' \in Nat /\ seqOf' \in [Contacts -> Nat]
    BY <1>14 DEF RestoreContact
  <2> QED
    BY <1>14, <2>1, Zenon DEF RestoreContact
<1>15. CASE UNCHANGED pointerVars
  BY <1>15, Zenon DEF pointerVars
<1> QED
  BY <1>1, <1>2, <1>3, <1>4, <1>5, <1>6, <1>7, <1>8, <1>9, <1>10, <1>11, <1>12, <1>13, <1>14,
     <1>15, Zenon DEF PointerNext

\* The numbers that are left to reach again make up for a counter set back.
LEMMA NumberStep ==
  ASSUME PointerTypeOK, NumberBound, [PointerNext]_pointerVars
  PROVE  NumberBound'
<1> DEFINE Peak == seq + behind
           Contacted(k) == \A c \in Contacts : seqOf[c] <= k
           Travels(k)   == \A u \in wire \cup handling : u.seq <= k
           Kept(k)      == \A c \in Contacts : \A u \in seen[c] : u.to = c /\ u.seq <= k
           Saved(k)     == \A b \in bundles : b.seq <= k
           Running      == \A t \in tasks : t.pc = "send" => t.seq <= seq
<1>0. /\ seq \in Nat /\ behind \in Nat /\ Peak \in Nat
      /\ \A c \in Contacts : seqOf[c] \in Nat
      /\ \A u \in wire \cup handling : u.to \in Contacts /\ u.seq \in Nat
      /\ \A c \in Contacts : \A u \in seen[c] : u.seq \in Nat
      /\ \A b \in bundles : b.seq \in Nat
      /\ \A t \in tasks : t.seq \in Nat
  BY DEF PointerTypeOK, Task, Update, Bundle
<1>1. Contacted(Peak) /\ Travels(Peak) /\ Kept(Peak) /\ Saved(Peak) /\ Running
  BY Zenon DEF NumberBound
<1>2. ASSUME NEW a \in Addrs, set_own_server_addr(a) PROVE NumberBound'
  <2>1. UNCHANGED <<seq, behind, seqOf, seen, bundles, wire, handling>>
    BY <1>2, Zenon DEF set_own_server_addr, contact, history
  <2>2. \A t \in tasks' : t \in tasks \/ t.pc # "send"
    BY <1>2 DEF set_own_server_addr
  <2> QED
    BY <1>1, <2>1, <2>2, Zenon DEF NumberBound
<1>3. ASSUME NEW t \in tasks, ReadAddr(t) PROVE NumberBound'
  <2>1. UNCHANGED <<seq, behind, seqOf, seen, bundles, wire, handling>>
    BY <1>3, Zenon DEF ReadAddr, contact, history
  <2>2. \A v \in tasks' : v \in tasks \/ v.pc # "send"
    BY <1>3 DEF ReadAddr, Proceed, PointerTypeOK, Task
  <2> QED
    BY <1>1, <2>1, <2>2, Zenon DEF NumberBound
<1>4. ASSUME NEW t \in tasks, TickSeq(t) PROVE NumberBound'
  <2>1. UNCHANGED <<seqOf, seen, bundles, wire, handling>>
    BY <1>4, Zenon DEF TickSeq, contact
  <2>2. seq' = seq + 1 /\ Peak <= seq' + behind' /\ seq' + behind' \in Nat
    BY <1>0, <1>4 DEF TickSeq
  <2>3. \A v \in tasks' : v \in tasks \/ v.seq = seq'
    BY <1>4 DEF TickSeq, Proceed, PointerTypeOK, Task
  <2>4. Contacted(seq' + behind') /\ Travels(seq' + behind')
    BY <1>0, <1>1, <2>2
  <2>5. Kept(seq' + behind') /\ Saved(seq' + behind')
    BY <1>0, <1>1, <2>2
  <2>6. Running'
    BY <1>0, <1>1, <2>2, <2>3
  <2> QED
    BY <2>1, <2>4, <2>5, <2>6, Zenon DEF NumberBound
<1>5. ASSUME NEW t \in tasks, NEW c \in Contacts, SendUpdate(t, c) PROVE NumberBound'
  <2>1. UNCHANGED <<seq, behind, seqOf, seen, bundles, handling>>
    BY <1>5, Zenon DEF SendUpdate, contact
  <2>2. \A v \in tasks' : v \in tasks \/ v.seq = t.seq
    BY <1>5 DEF SendUpdate, Proceed, PointerTypeOK, Task
  <2>3. \A u \in wire' : u \in wire \/ u.seq = t.seq
    BY <1>5 DEF SendUpdate
  <2>4. t.seq <= seq /\ t.seq <= Peak
    BY <1>0, <1>1, <1>5 DEF SendUpdate
  <2>5. Running' /\ Travels(Peak)'
    BY <1>1, <2>1, <2>2, <2>3, <2>4, Zenon
  <2> QED
    BY <1>1, <2>1, <2>5, Zenon DEF NumberBound
<1>6. ASSUME NEW u \in wire, Check(u) PROVE NumberBound'
  <2>1. /\ UNCHANGED <<seq, behind, seqOf, bundles, tasks>>
        /\ wire' \cup handling' \subseteq wire \cup handling
    BY <1>6, Zenon DEF Check, owner
  <2>2. \A c \in Contacts : \A v \in seen'[c] : v \in seen[c] \/ (v = u /\ c = u.to)
    BY <1>6 DEF Check, PointerTypeOK
  <2>3. Kept(Peak)'
    BY <1>1, <2>1, <2>2, Zenon
  <2> QED
    BY <1>1, <2>1, <2>3, Zenon DEF NumberBound
<1>7. ASSUME NEW u \in handling, ApplyUpdate(u) PROVE NumberBound'
  <2>1. UNCHANGED <<seq, behind, seen, bundles, tasks, wire>> /\ handling' \subseteq handling
    BY <1>7, Zenon DEF ApplyUpdate, owner, history
  <2>2. \A c \in Contacts : seqOf'[c] = seqOf[c] \/ seqOf'[c] = u.seq
    BY <1>7, Zenon DEF ApplyUpdate, PointerTypeOK
  <2>3. Contacted(Peak)'
    BY <1>1, <2>1, <2>2, Zenon
  <2> QED
    BY <1>1, <2>1, <2>3, Zenon DEF NumberBound
<1>8. CASE KillOwner \/ push_backup \/ export_backup \/ \E a \in asm : ReadOwn(a)
  <2>1. UNCHANGED <<seq, behind, seqOf, seen, bundles, wire, handling>> /\ tasks' \subseteq tasks
    BY <1>8, Zenon DEF KillOwner, push_backup, export_backup, ReadOwn, contact, history
  <2> QED
    BY <1>1, <2>1, Zenon DEF NumberBound
<1>9. ASSUME NEW a \in asm, ReadCounter(a) PROVE NumberBound'
  <2>1. UNCHANGED <<seq, behind, seqOf, seen, tasks, wire, handling>>
    BY <1>9, Zenon DEF ReadCounter, contact, history
  <2>2. \A b \in bundles' : b \in bundles \/ b.seq = seq
    BY <1>9 DEF ReadCounter
  <2>3. seq <= Peak
    BY <1>0
  <2>4. Saved(Peak)'
    BY <1>1, <2>1, <2>2, <2>3, Zenon
  <2> QED
    BY <1>1, <2>1, <2>4, Zenon DEF NumberBound
<1>10. ASSUME NEW b \in bundles, Restore(b) PROVE NumberBound'
  <2>1. UNCHANGED <<seqOf, seen, bundles, wire, handling>> /\ tasks' = {}
    BY <1>10, Zenon DEF Restore, contact
  <2>2. seq' + behind' = Peak
    BY <1>0, <1>1, <1>10 DEF Restore
  <2> HIDE DEF Peak
  <2> QED
    BY <1>1, <2>1, <2>2, Zenon DEF NumberBound
<1>11. ASSUME NEW c \in Contacts, KillContact(c) PROVE NumberBound'
  <2>1. UNCHANGED <<seq, behind, seqOf, seen, bundles, tasks, wire>> /\ handling' \subseteq handling
    BY <1>11, Zenon DEF KillContact, owner, contact
  <2> QED
    BY <1>1, <2>1, Zenon DEF NumberBound
<1>12. ASSUME NEW c \in Contacts, BackupContact(c) PROVE NumberBound'
  <2>1. UNCHANGED <<seq, behind, seqOf, bundles, tasks, wire, handling>>
    BY <1>12, Zenon DEF BackupContact, owner, history
  <2>2. \A d \in Contacts : seen'[d] \subseteq seen[d]
    BY <1>12, Zenon DEF BackupContact, PointerTypeOK
  <2> QED
    BY <1>1, <2>1, <2>2, Zenon DEF NumberBound
<1>13. ASSUME NEW c \in Contacts, RestoreContact(c) PROVE NumberBound'
  <2>1. UNCHANGED <<seq, behind, bundles, tasks>> /\ handling' \subseteq handling
    BY <1>13, Zenon DEF RestoreContact, owner
  <2>2. \A d \in Contacts : seen'[d] \subseteq seen[d]
    BY <1>13, Zenon DEF RestoreContact, PointerTypeOK
  <2>3. \A d \in Contacts : seqOf'[d] = seqOf[d] \/ seqOf'[d] = 0
    BY <1>13, Zenon DEF RestoreContact, PointerTypeOK
  <2>4. Contacted(Peak)'
    BY <1>0, <1>1, <2>1, <2>3
  <2>5. \A u \in wire' : u \in wire \/ u \in seen[c]
    BY <1>13, Zenon DEF RestoreContact
  <2> QED
    BY <1>1, <2>1, <2>2, <2>4, <2>5, Zenon DEF NumberBound
<1>14. CASE UNCHANGED pointerVars
  BY <1>1, <1>14, Zenon DEF pointerVars, owner, contact, history, NumberBound
<1> QED
  BY <1>2, <1>3, <1>4, <1>5, <1>6, <1>7, <1>8, <1>9, <1>10, <1>11, <1>12, <1>13, <1>14,
     Zenon DEF PointerNext

\* A broadcast of the current address under a new number serves every contact,
\* and only what unsure stands for takes a contact from it.
LEMMA SettleStep ==
  ASSUME PointerTypeOK, NumberBound, SettleInv, [PointerNext]_pointerVars
  PROVE  SettleInv'
<1>0. /\ seq \in Nat /\ behind \in Nat
      /\ \A c \in Contacts : seqOf[c] \in Nat
      /\ \A u \in wire \cup handling : u.to \in Contacts /\ u.seq \in Nat
      /\ \A t \in tasks : t.seq \in Nat
  BY DEF PointerTypeOK, Task, Update
<1>1. \A c \in Contacts \ unsure : behind = 0 /\ (Announced => Served(c))
  BY Zenon DEF SettleInv
<1>2. ASSUME NEW a \in Addrs, set_own_server_addr(a) PROVE SettleInv'
  <2> DEFINE v == [n |-> changes + 1, pc |-> "read", addr |-> a, seq |-> 0, todo |-> {}]
  <2>1. UNCHANGED <<behind, unsure>> /\ v \in tasks'
    BY <1>2, Zenon DEF set_own_server_addr, history
  <2>2. v.pc # "send"
    OBVIOUS
  <2> HIDE DEF v
  <2> QED
    BY <1>1, <2>1, <2>2, Zenon DEF SettleInv, Announced
<1>3. ASSUME NEW t \in tasks, ReadAddr(t) PROVE SettleInv'
  <2> DEFINE v == [t EXCEPT !.pc = "tick", !.addr = own]
  <2>1. UNCHANGED <<behind, unsure>> /\ v \in tasks'
    BY <1>3, Zenon DEF ReadAddr, Proceed, history
  <2>2. v.pc # "send"
    BY DEF PointerTypeOK, Task
  <2> HIDE DEF v
  <2> QED
    BY <1>1, <2>1, <2>2, Zenon DEF SettleInv, Announced
<1>4. ASSUME NEW t \in tasks, TickSeq(t) PROVE SettleInv'
  <2> SUFFICES ASSUME NEW c \in Contacts \ unsure' PROVE behind' = 0 /\ (Announced' => Served(c)')
    BY DEF SettleInv
  <2> DEFINE v == [t EXCEPT !.pc = "send", !.seq = seq', !.todo = Contacts]
  <2>1. /\ t.addr = own /\ behind = 0 /\ behind' = 0 /\ seq' = seq + 1
        /\ tasks' = (tasks \ {t}) \cup {v}
        /\ UNCHANGED <<own, addrOf, seqOf, wire, handling>>
    BY <1>4, Zenon DEF TickSeq, Proceed, contact
  <2>2. v.pc = "send" /\ v.addr = own /\ v.seq = seq' /\ v.todo = Contacts
    BY <2>1 DEF PointerTypeOK, Task
  <2> HIDE DEF v
  <2>3. /\ seqOf[c] # seq' /\ \A u \in wire \cup handling : u.seq # seq'
        /\ \A w \in tasks : w.pc = "send" => w.seq # seq'
    BY <1>0, <2>1 DEF NumberBound
  <2>4. ASSUME Announced' PROVE \A w \in tasks' : w.seq = seq' => w = v
    BY <2>1, <2>3, <2>4, Zenon DEF Announced
  <2> QED
    BY <2>1, <2>2, <2>3, <2>4, Zenon DEF Served
<1>5. ASSUME NEW t \in tasks, NEW d \in Contacts, SendUpdate(t, d) PROVE SettleInv'
  <2> SUFFICES ASSUME NEW c \in Contacts \ unsure' PROVE behind' = 0 /\ (Announced' => Served(c)')
    BY DEF SettleInv
  <2> DEFINE u == [to |-> d, addr |-> t.addr, seq |-> t.seq]
             v == [t EXCEPT !.todo = @ \ {d}]
  <2>1. /\ t.pc = "send" /\ d \in t.todo
        /\ UNCHANGED <<own, seq, seqOf, addrOf, handling, behind>>
    BY <1>5, Zenon DEF SendUpdate, contact
  <2>2. \/ wire' = wire \cup {u} /\ unsure' = unsure
        \/ wire' = wire /\ unsure \subseteq unsure' /\ (t.seq = seq => d \in unsure')
    BY <1>5, Zenon DEF SendUpdate
  <2>3. behind = 0 /\ (Announced => Served(c))
    BY <1>1, <2>2, Zenon
  <2>4. \/ tasks' = tasks \ {t} /\ t.todo = {d}
        \/ tasks' = (tasks \ {t}) \cup {v}
    BY <1>5, Zenon DEF SendUpdate, Proceed
  <2>5. v.pc = t.pc /\ v.addr = t.addr /\ v.seq = t.seq /\ v.todo = t.todo \ {d}
    BY DEF PointerTypeOK, Task
  <2>6. u.to = d /\ u.addr = t.addr /\ u.seq = t.seq
    OBVIOUS
  <2> HIDE DEF u, v
  <2>7. ASSUME Announced' PROVE Served(c)
    BY <2>1, <2>3, <2>4, <2>7, Zenon DEF Announced
  <2>8. \A w \in tasks' : c \in w.todo /\ w.seq = seq =>
          \E x \in tasks : c \in x.todo /\ x.seq = seq /\ x.addr = w.addr
    BY <2>4, <2>5, Zenon
  <2>9. CASE c # d \/ t.seq # seq
    <3>1. \A x \in tasks : c \in x.todo /\ x.seq = seq =>
            \E w \in tasks' : c \in w.todo /\ w.seq = seq
      BY <2>4, <2>5, <2>9, Zenon
    <3>2. \A x \in wire' \cup handling' : x.to = c /\ x.seq = seq => x \in wire \cup handling
      BY <2>1, <2>2, <2>6, <2>9, Zenon
    <3>3. wire \subseteq wire'
      BY <2>2, Zenon
    <3> QED
      BY <2>1, <2>3, <2>7, <2>8, <3>1, <3>2, <3>3, Zenon DEF Served
  <2>10. CASE c = d /\ t.seq = seq
    <3>1. wire' = wire \cup {u}
      BY <2>2, <2>10, Zenon
    <3>2. ASSUME Served(c) PROVE u.addr = own
      BY <2>1, <2>6, <2>10, <3>2, Zenon DEF Served
    <3> QED
      BY <2>1, <2>3, <2>6, <2>7, <2>8, <2>10, <3>1, <3>2, Zenon DEF Served
  <2> QED
    BY <2>9, <2>10
<1>6. ASSUME NEW u \in wire, Check(u) PROVE SettleInv'
  <2> SUFFICES ASSUME NEW c \in Contacts \ unsure' PROVE behind' = 0 /\ (Announced' => Served(c)')
    BY DEF SettleInv
  <2>1. /\ UNCHANGED <<own, seq, tasks, addrOf, seqOf, behind>> /\ wire' = wire \ {u}
        /\ handling' = IF IsValid(u) THEN handling \cup {u} ELSE handling
    BY <1>6, Zenon DEF Check, owner
  <2>2. unsure \subseteq unsure' /\ (IsValid(u) /\ Collides(u) => u.to \in unsure')
    BY <1>6, Zenon DEF Check
  <2>3. behind = 0 /\ (Announced' => Served(c))
    BY <1>1, <2>1, <2>2, Zenon DEF Announced
  <2>4. CASE u.to # c
    BY <2>1, <2>3, <2>4, Zenon DEF Served
  <2>5. CASE u.to = c /\ ~IsValid(u)
    <3>1. u.seq = seq => seqOf[c] = seq
      BY <1>0, <2>3, <2>5 DEF IsValid, NumberBound
    <3> QED
      BY <2>1, <2>3, <2>5, <3>1, Zenon DEF Served
  <2>6. CASE u.to = c /\ IsValid(u)
    <3>1. \A h \in handling : h.to = c => h.seq # seq /\ u.seq # seq
      BY <2>2, <2>6, Zenon DEF Collides
    <3>2. seqOf[c] # seq
      BY <1>0, <2>3, <2>6 DEF IsValid, NumberBound
    <3>3. wire' \cup handling' = wire \cup handling /\ handling' = handling \cup {u}
      BY <2>1, <2>6, Zenon
    <3> QED
      BY <2>1, <2>3, <2>6, <3>1, <3>2, <3>3, Zenon DEF Served
  <2> QED
    BY <2>4, <2>5, <2>6, Zenon
<1>7. ASSUME NEW u \in handling, ApplyUpdate(u) PROVE SettleInv'
  <2> SUFFICES ASSUME NEW c \in Contacts \ unsure' PROVE behind' = 0 /\ (Announced' => Served(c)')
    BY DEF SettleInv
  <2>1. UNCHANGED <<own, seq, tasks, wire, behind, unsure>> /\ handling' = handling \ {u}
    BY <1>7, Zenon DEF ApplyUpdate, owner, history
  <2>2. /\ c # u.to => addrOf'[c] = addrOf[c] /\ seqOf'[c] = seqOf[c]
        /\ c = u.to => addrOf'[c] = u.addr /\ seqOf'[c] = u.seq
    BY <1>7, Zenon DEF ApplyUpdate, PointerTypeOK
  <2>3. behind = 0 /\ (Announced' => Served(c))
    BY <1>1, <2>1, Zenon DEF Announced
  <2>4. CASE c # u.to
    BY <2>1, <2>2, <2>3, <2>4, Zenon DEF Served
  <2>5. CASE c = u.to
    BY <2>1, <2>2, <2>3, <2>5, Zenon DEF Served
  <2> QED
    BY <2>4, <2>5
<1>8. CASE KillOwner
  <2> SUFFICES ASSUME NEW c \in Contacts \ unsure' PROVE behind' = 0 /\ (Announced' => Served(c)')
    BY DEF SettleInv
  <2>1. /\ UNCHANGED <<own, seq, addrOf, seqOf, wire, handling, behind>> /\ tasks' = {}
        /\ c \notin unsure
        /\ \A t \in tasks : t.pc = "send" /\ ~(t.seq = seq /\ c \in t.todo)
    BY <1>8, Zenon DEF KillOwner, contact
  <2>2. behind = 0 /\ Served(c)
    BY <1>1, <2>1, Zenon DEF Announced
  <2> QED
    BY <2>1, <2>2, Zenon DEF Served
<1>9. ASSUME NEW b \in bundles, Restore(b) PROVE SettleInv'
  BY <1>9, Zenon DEF Restore, SettleInv
<1>10. ASSUME NEW d \in Contacts, KillContact(d) PROVE SettleInv'
  <2> SUFFICES ASSUME NEW c \in Contacts \ unsure' PROVE behind' = 0 /\ (Announced' => Served(c)')
    BY DEF SettleInv
  <2>1. /\ UNCHANGED <<own, seq, tasks, addrOf, seqOf, wire, behind>>
        /\ handling' = handling \ Theirs(d)
        /\ c \notin unsure /\ (c = d => \A h \in Theirs(d) : h.seq # seq)
    BY <1>10, Zenon DEF KillContact, owner, contact
  <2>2. behind = 0 /\ (Announced' => Served(c))
    BY <1>1, <2>1, Zenon DEF Announced
  <2>3. \A h \in handling : h.to = c /\ h.seq = seq => h \in handling'
    BY <2>1, Zenon DEF Theirs
  <2>4. handling' \subseteq handling
    BY <2>1, Zenon
  <2> QED
    BY <2>1, <2>2, <2>3, <2>4, Zenon DEF Served
<1>11. ASSUME NEW d \in Contacts, RestoreContact(d) PROVE SettleInv'
  <2> SUFFICES ASSUME NEW c \in Contacts \ unsure' PROVE behind' = 0 /\ (Announced' => Served(c)')
    BY DEF SettleInv
  <2>1. /\ UNCHANGED <<own, seq, tasks, behind>> /\ handling' = handling \ Theirs(d)
        /\ c \notin unsure /\ c # d
    BY <1>11, Zenon DEF RestoreContact, owner
  <2>2. addrOf'[c] = addrOf[c] /\ seqOf'[c] = seqOf[c]
    BY <1>11, <2>1, Zenon DEF RestoreContact, PointerTypeOK
  <2>3. wire \subseteq wire' /\ \A u \in wire' : u \in wire \/ u.to = d
    BY <1>11, Zenon DEF RestoreContact, NumberBound
  <2>4. behind = 0 /\ (Announced' => Served(c))
    BY <1>1, <2>1, Zenon DEF Announced
  <2>5. handling' \subseteq handling /\ \A h \in handling : h.to = c => h \in handling'
    BY <2>1, Zenon DEF Theirs
  <2>6. \A u \in wire' \cup handling' : u.to = c => u \in wire \cup handling
    BY <2>1, <2>3, <2>5, Zenon
  <2>7. ASSUME Served(c) PROVE Served(c)'
    BY <2>1, <2>2, <2>3, <2>5, <2>6, <2>7, Zenon DEF Served
  <2> QED
    BY <2>1, <2>4, <2>7, Zenon
<1>12. CASE \/ push_backup \/ export_backup
            \/ \E a \in asm : ReadOwn(a) \/ ReadCounter(a)
            \/ \E c \in Contacts : BackupContact(c)
            \/ UNCHANGED pointerVars
  <2>1. UNCHANGED <<own, seq, tasks, addrOf, seqOf, wire, handling, behind, unsure>>
    <3>1. CASE push_backup \/ export_backup
      BY <3>1, Zenon DEF push_backup, export_backup, contact, history
    <3>2. CASE \E a \in asm : ReadOwn(a) \/ ReadCounter(a)
      BY <3>2, Zenon DEF ReadOwn, ReadCounter, contact, history
    <3>3. CASE (\E c \in Contacts : BackupContact(c)) \/ UNCHANGED pointerVars
      BY <3>3, Zenon DEF BackupContact, pointerVars, owner, contact, history
    <3> QED
      BY <1>12, <3>1, <3>2, <3>3, Zenon
  <2>2. Announced' = Announced
    BY <2>1, Zenon DEF Announced
  <2>3. ASSUME NEW c \in Contacts, Served(c) PROVE Served(c)'
    BY <2>1, <2>3, Zenon DEF Served
  <2> QED
    BY <2>1, <2>2, <2>3, Zenon DEF SettleInv
<1> QED
  BY <1>2, <1>3, <1>4, <1>5, <1>6, <1>7, <1>8, <1>9, <1>10, <1>11, <1>12, Zenon
  DEF PointerNext

\* The invariants together, for every behaviour.
LEMMA UpdateInvariant == PointerSpec => [](PointerTypeOK /\ NumberBound /\ SettleInv)
<1>1. PointerInit => PointerTypeOK /\ NumberBound /\ SettleInv
  <2> SUFFICES ASSUME PointerInit PROVE PointerTypeOK /\ NumberBound /\ SettleInv
    OBVIOUS
  <2>1. PointerTypeOK
    BY DEF PointerInit, PointerTypeOK
  <2>2. NumberBound
    BY DEF PointerInit, NumberBound
  <2>3. SettleInv
    <3>1. \A c \in Contacts : addrOf[c] = own /\ seqOf[c] = 0
      BY DEF PointerInit
    <3> QED
      BY <3>1 DEF PointerInit, SettleInv, Served
  <2> QED
    BY <2>1, <2>2, <2>3
<1>2. (PointerTypeOK /\ NumberBound /\ SettleInv) /\ [PointerNext]_pointerVars
        => (PointerTypeOK /\ NumberBound /\ SettleInv)'
  BY PointerTypeStep, NumberStep, SettleStep
<1> QED
  BY <1>1, <1>2, PTL DEF PointerSpec

\* No contact is ahead of the numbers the owner has given out, whichever backup
\* it was restored from and however often: the broadcast after those that repeat
\* such numbers is accepted by everyone.
THEOREM BroadcastAccepted == PointerSpec => []NextIsAccepted
<1>1. NumberBound => NextIsAccepted
  BY Zenon DEF NumberBound, NextIsAccepted
<1> QED
  BY <1>1, UpdateInvariant, PTL

\* A broadcast of the current address under a new number brings every contact it
\* is delivered to, and that handles it alone, to that address: for any number of
\* contacts, broadcasts at the same time, losses, kills and restores before it.
THEOREM ContactsSettle == PointerSpec => []SettledOnCurrent
<1>1. SettleInv => SettledOnCurrent
  BY Zenon DEF SettleInv, SettledOnCurrent, Announced, Served
<1> QED
  BY <1>1, UpdateInvariant, PTL
-----------------------------------------------------------------------------
(***************************************************************************)
(* DeliveryStatus: what a status claims is true because each way to set it *)
(* comes after what it claims; that a failure is final is true only while  *)
(* answers arrive, and CalmInv says how the places an envelope can be      *)
(* exclude each other then.                                                *)
(***************************************************************************)
\* Whatever makes a row Delivered comes from a stored message.
DeliveredInv ==
  /\ DeliveredIsReceived
  /\ receipts \subseteq inbox
  /\ \A m \in Msgs : call[m] = "insert_Delivered" => m \in inbox

\* Calls that have handed the envelope to nobody, as far as they know.
Unserved == {"idle", "direct", "schedule", "error"}

CalmInv ==
  lost = 0 =>
    /\ late = {}
    /\ \A m \in Msgs : call[m] \in Unserved =>
         m \notin inbox \cup queue \cup failed \cup applying /\ row[m] = "none"
    /\ \A m \in queue : m \notin inbox \cup failed \cup applying /\ row[m] # "Failed"
    /\ \A m \in failed \cup applying : m \notin inbox
    /\ \A m \in Msgs : row[m] = "Failed" => m \notin inbox
-----------------------------------------------------------------------------
\* Every action keeps the variables in shape.
LEMMA StatusTypeStep == StatusTypeOK /\ [StatusNext]_statusVars => StatusTypeOK'
<1> SUFFICES ASSUME StatusTypeOK, [StatusNext]_statusVars PROVE StatusTypeOK'
  OBVIOUS
<1> USE DEF StatusTypeOK, sender, node, recipient, bounds,
            Goto
<1>1. ASSUME NEW m \in Msgs, NEW c \in Calls, Goto(m, c)
      PROVE  call' \in [Msgs -> Calls]
  BY <1>1
<1>2. ASSUME NEW m \in Msgs, Stores(m)
      PROVE  inbox' \subseteq Msgs /\ receipts' \subseteq Msgs
  BY <1>2 DEF Stores
<1>3. Loses => lost' \in Nat
  BY DEF Loses
<1>4. ASSUME NEW m \in Msgs, mark_failed(m)
      PROVE  queue' \subseteq Msgs /\ failed' \subseteq Msgs
  BY <1>4 DEF mark_failed
<1>5. ASSUME NEW m \in Msgs, send(m) \/ DirectOk(m) PROVE StatusTypeOK'
  BY <1>1, <1>2, <1>5, Zenon DEF send, DirectOk, Calls
<1>6. ASSUME NEW m \in Msgs, DirectFails(m) PROVE StatusTypeOK'
  BY <1>1, <1>2, <1>3, <1>6, Zenon DEF DirectFails, Calls
<1>7. ASSUME NEW m \in Msgs, LateArrival(m) PROVE StatusTypeOK'
  BY <1>2, <1>7 DEF LateArrival
<1>8. ASSUME NEW m \in Msgs, ScheduleOk(m) \/ ScheduleFails(m)
      PROVE  StatusTypeOK'
  BY <1>1, <1>3, <1>8 DEF ScheduleOk, ScheduleFails, Calls
<1>9. ASSUME NEW m \in Msgs, Insert(m) PROVE StatusTypeOK'
  BY <1>1, <1>9, Zenon DEF Insert, Calls
<1>10. ASSUME NEW m \in Msgs, DialOk(m) PROVE StatusTypeOK'
  BY <1>2, <1>10 DEF DialOk
<1>11. ASSUME NEW m \in Msgs, DialFails(m) PROVE StatusTypeOK'
  BY <1>2, <1>3, <1>4, <1>11 DEF DialFails
<1>12. CASE Poll
  BY <1>12 DEF Poll
<1>13. ASSUME NEW m \in Msgs,
              MarkFailed(m) \/ ReceiptArrives(m) \/ ReceiptLost(m)
       PROVE  StatusTypeOK'
  BY <1>13, Zenon DEF MarkFailed, ReceiptArrives, ReceiptLost
<1>14. CASE Kill
  BY <1>14, Zenon DEF Kill, Calls
<1>15. CASE UNCHANGED statusVars
  BY <1>15 DEF statusVars
<1> QED
  BY <1>5, <1>6, <1>7, <1>8, <1>9, <1>10, <1>11, <1>12, <1>13, <1>14, <1>15, Zenon
  DEF StatusNext

\* The recipient's store only grows, and comes before answer and receipt.
LEMMA DeliveredStep ==
  ASSUME StatusTypeOK, DeliveredInv, [StatusNext]_statusVars
  PROVE  DeliveredInv'
<1> USE DEF DeliveredInv, DeliveredIsReceived, sender, node,
            recipient, Stores
<1>1. ASSUME NEW m \in Msgs, send(m) PROVE DeliveredInv'
  BY <1>1 DEF send, Goto, StatusTypeOK
<1>2. ASSUME NEW m \in Msgs, DirectOk(m) PROVE DeliveredInv'
  BY <1>2 DEF DirectOk, Goto, StatusTypeOK
<1>3. ASSUME NEW m \in Msgs, DirectFails(m) PROVE DeliveredInv'
  BY <1>3, Zenon DEF DirectFails, Goto, StatusTypeOK
<1>4. ASSUME NEW m \in Msgs, LateArrival(m) PROVE DeliveredInv'
  BY <1>4, ZenonT(30) DEF LateArrival
<1>5. ASSUME NEW m \in Msgs, ScheduleOk(m) \/ ScheduleFails(m)
      PROVE  DeliveredInv'
  BY <1>5, Zenon DEF ScheduleOk, ScheduleFails, Goto, StatusTypeOK
<1>6. ASSUME NEW m \in Msgs, Insert(m) PROVE DeliveredInv'
  BY <1>6, Zenon DEF Insert, Goto, StatusTypeOK
<1>7. ASSUME NEW m \in Msgs, DialOk(m) \/ DialFails(m) PROVE DeliveredInv'
  BY <1>7, Zenon DEF DialOk, DialFails
<1>8. CASE Poll
  BY <1>8 DEF Poll
<1>9. ASSUME NEW m \in Msgs, MarkFailed(m) \/ ReceiptLost(m)
      PROVE  DeliveredInv'
  BY <1>9, Zenon DEF MarkFailed, ReceiptLost, StatusTypeOK
<1>10. ASSUME NEW m \in Msgs, ReceiptArrives(m) PROVE DeliveredInv'
  BY <1>10 DEF ReceiptArrives, StatusTypeOK
<1>11. CASE Kill
  BY <1>11, Zenon DEF Kill, StatusTypeOK
<1>12. CASE UNCHANGED statusVars
  BY <1>12, ZenonT(30) DEF statusVars
<1> QED
  BY <1>1, <1>2, <1>3, <1>4, <1>5, <1>6, <1>7, <1>8, <1>9, <1>10, <1>11, <1>12, ZenonT(30)
  DEF StatusNext

\* While receipts arrive an envelope is queued, given up or stored, not two of
\* these.
LEMMA CalmStep ==
  ASSUME StatusTypeOK, CalmInv, [StatusNext]_statusVars
  PROVE  CalmInv'
<1> SUFFICES ASSUME lost' = 0 PROVE CalmInv'
  BY Zenon DEF CalmInv
<1>0. lost = 0 /\ ~Loses
  <2>1. Loses => lost' # 0
    BY DEF Loses, StatusTypeOK
  <2> QED
    BY <2>1, Zenon
    DEF StatusNext, send, DirectOk, DirectFails,
    LateArrival, ScheduleOk, ScheduleFails,
        Insert, DialOk, DialFails, Poll, MarkFailed,
        ReceiptArrives, ReceiptLost,
        Kill, statusVars, bounds
<1> USE <1>0 DEF CalmInv, Unserved, sender, node, recipient,
                 Stores
<1>1. ASSUME NEW m \in Msgs, send(m) PROVE CalmInv'
  BY <1>1, Zenon DEF send, Goto, StatusTypeOK
<1>2. ASSUME NEW m \in Msgs, DirectOk(m) PROVE CalmInv'
  BY <1>2, Zenon DEF DirectOk, Goto, StatusTypeOK
<1>3. ASSUME NEW m \in Msgs, DirectFails(m) PROVE CalmInv'
  BY <1>3, Zenon DEF DirectFails, Goto, StatusTypeOK
<1>4. ASSUME NEW m \in Msgs PROVE ~LateArrival(m)
  BY DEF LateArrival
<1>5. ASSUME NEW m \in Msgs, ScheduleOk(m) PROVE CalmInv'
  BY <1>5, Zenon DEF ScheduleOk, Goto, StatusTypeOK
<1>6. ASSUME NEW m \in Msgs, ScheduleFails(m) PROVE CalmInv'
  BY <1>6, Zenon DEF ScheduleFails, Goto, StatusTypeOK
<1>7. ASSUME NEW m \in Msgs, Insert(m) PROVE CalmInv'
  BY <1>7, Zenon DEF Insert, Goto, StatusTypeOK
<1>8. ASSUME NEW m \in Msgs, DialOk(m) PROVE CalmInv'
  BY <1>8 DEF DialOk, StatusTypeOK
<1>9. ASSUME NEW m \in Msgs, DialFails(m) PROVE CalmInv'
  BY <1>9 DEF DialFails, mark_failed, StatusTypeOK
<1>10. CASE Poll
  BY <1>10, ZenonT(30) DEF Poll
<1>11. ASSUME NEW m \in Msgs, MarkFailed(m) PROVE CalmInv'
  BY <1>11 DEF MarkFailed, StatusTypeOK
<1>12. ASSUME NEW m \in Msgs, ReceiptArrives(m) \/ ReceiptLost(m)
       PROVE  CalmInv'
  BY <1>12 DEF ReceiptArrives, ReceiptLost, StatusTypeOK
<1>13. CASE Kill
  BY <1>13, Zenon DEF Kill, StatusTypeOK
<1>14. CASE UNCHANGED statusVars
  BY <1>14, Zenon DEF statusVars
<1> QED
  BY <1>1, <1>2, <1>3, <1>4, <1>5, <1>6, <1>7, <1>8, <1>9, <1>10, <1>11, <1>12,
     <1>13, <1>14, ZenonT(30)
  DEF StatusNext

\* The invariants together, for every behaviour.
LEMMA StatusInvariant == StatusSpec => [](StatusTypeOK /\ DeliveredInv /\ CalmInv)
<1>1. StatusInit => StatusTypeOK /\ DeliveredInv /\ CalmInv
  BY DEF StatusInit, StatusTypeOK, DeliveredInv, DeliveredIsReceived, CalmInv,
     Calls
<1>2. (StatusTypeOK /\ DeliveredInv /\ CalmInv) /\ [StatusNext]_statusVars
        => (StatusTypeOK /\ DeliveredInv /\ CalmInv)'
  BY StatusTypeStep, DeliveredStep, CalmStep
<1> QED
  BY <1>1, <1>2, PTL DEF StatusSpec

\* A row shows Delivered only for a message the recipient has stored, whatever
\* is lost, delayed, dialled again or kills.
THEOREM NoFalseDelivered == StatusSpec => []DeliveredIsReceived
<1>1. DeliveredInv => DeliveredIsReceived
  BY DEF DeliveredInv
<1> QED
  BY <1>1, StatusInvariant, PTL

\* While receipts arrive, a row that sync's poll marks Failed is of a message
\* the recipient does not have.
THEOREM NoFalseFailed == StatusSpec => []FailedNotReceived
<1>1. CalmInv => FailedNotReceived
  BY DEF CalmInv, FailedNotReceived
<1> QED
  BY <1>1, StatusInvariant, PTL

\* While receipts arrive, a send that returned an error can be repeated: the
\* recipient has not stored it and the own Server does not dial for it.
THEOREM ErrorLeavesNothing == StatusSpec => []FailureLeavesNoTrace
<1>1. CalmInv => FailureLeavesNoTrace
  BY DEF CalmInv, FailureLeavesNoTrace, Unserved
<1> QED
  BY <1>1, StatusInvariant, PTL
=============================================================================
