--------------------------- MODULE PointerUpdate ----------------------------
(***************************************************************************)
(* Mailbox-pointer updates: an owner changes its Server mailbox and tells  *)
(* its contacts (set_own_server_addr, broadcast_pointer_update and the     *)
(* MailboxPointerUpdate case of handle_decrypted in client.rs); the owner  *)
(* and its contacts are killed, or restored from backups (backup.rs).      *)
(*                                                                         *)
(* Each change spawns a broadcast task, at any time; an update travels     *)
(* through a Server mailbox, directly or through a retry queue, so updates *)
(* may be lost and overtake each other.  A contact handles an update by a  *)
(* check and a write that are two calls to its store, and several updates  *)
(* at the same time.                                                       *)
(***************************************************************************)
EXTENDS Naturals

CONSTANTS
  Contacts,    \* the owner's contacts
  Addrs,       \* the addresses it may have, NoServer included
  NoServer,    \* it has no Server mailbox
  MaxChanges,  \* bound on changes of the address
  MaxBackups,  \* bound on the owner's backups
  MaxFaults    \* bound on failed deliveries, kills and restores

ASSUME AddrAssumption == NoServer \in Addrs

VARIABLES
  own,       \* owner: its address, in memory and stored
  seq,       \* owner: pointer_broadcast_seq
  tasks,     \* owner: broadcasts that are running
  asm,       \* owner: backups being made, with the addresses read so far
  bundles,   \* owner: the backups it has made
  addrOf,    \* contact: the owner's address on file
  seqOf,     \* contact: pointer_seq of the owner
  copy,      \* contact: the owner's address in its own backup
  seen,      \* contact: updates decrypted since that backup
  wire,      \* updates sent and not handled
  handling,  \* updates found valid and not yet applied
  changes, backups, faults,
  behind,    \* history: numbers given out that the counter has yet to reach again
  unsure     \* history: contacts the last broadcast may not have brought up to date

owner   == <<own, seq, tasks, asm, bundles>>
contact == <<addrOf, seqOf, copy, seen>>
limits  == <<changes, backups, faults>>
history == <<behind, unsure>>
pointerVars == <<owner, contact, wire, handling, limits, history>>

Update == [to : Contacts, addr : Addrs, seq : Nat]
Task   == [n : Nat, pc : {"read", "tick", "send"}, addr : Addrs, seq : Nat,
           todo : SUBSET Contacts]
Bundle == [from : Addrs, own : Addrs, seq : Nat]
Asm    == [n : Nat, pc : {"own", "counter"}, from : Addrs, own : Addrs]

PointerTypeOK ==
  /\ own \in Addrs /\ seq \in Nat
  /\ tasks \subseteq Task /\ asm \subseteq Asm /\ bundles \subseteq Bundle
  /\ addrOf \in [Contacts -> Addrs] /\ seqOf \in [Contacts -> Nat]
  /\ copy \in [Contacts -> Addrs] /\ seen \in [Contacts -> SUBSET Update]
  /\ wire \cup handling \subseteq Update
  /\ changes \in Nat /\ backups \in Nat /\ faults \in Nat
  /\ behind \in Nat /\ unsure \subseteq Contacts

\* Every contact has the address from pairing, and a backup made after it.
PointerInit ==
  /\ own \in Addrs
  /\ seq = 0
  /\ tasks = {} /\ asm = {} /\ bundles = {}
  /\ addrOf = [c \in Contacts |-> own]
  /\ seqOf = [c \in Contacts |-> 0]
  /\ copy = addrOf
  /\ seen = [c \in Contacts |-> {}]
  /\ wire = {} /\ handling = {}
  /\ changes = 0 /\ backups = 0 /\ faults = 0
  /\ behind = 0 /\ unsure = {}
-----------------------------------------------------------------------------
\* set_own_server_addr and clear_own_server_addr: persist, remember, spawn.
set_own_server_addr(a) ==
  /\ changes < MaxChanges
  /\ changes' = changes + 1
  /\ own' = a
  /\ tasks' = tasks \cup
       {[n |-> changes + 1, pc |-> "read", addr |-> a, seq |-> 0, todo |-> {}]}
  /\ UNCHANGED <<seq, asm, bundles, contact, wire, handling, backups, faults, history>>

Proceed(t, u) == tasks' = (tasks \ {t}) \cup {u}

\* broadcast_pointer_update reads the address that is current by now.
ReadAddr(t) ==
  /\ t.pc = "read"
  /\ Proceed(t, [t EXCEPT !.pc = "tick", !.addr = own])
  /\ UNCHANGED <<own, seq, asm, bundles, contact, wire, handling, limits, history>>

\* increment_and_get_pointer_broadcast_seq.  A broadcast of the current address
\* under a number never given out before makes up for all earlier ones.
TickSeq(t) ==
  /\ t.pc = "tick"
  /\ seq' = seq + 1
  /\ behind' = IF behind = 0 THEN 0 ELSE behind - 1
  /\ Proceed(t, [t EXCEPT !.pc = "send", !.seq = seq', !.todo = Contacts])
  /\ unsure' = IF t.addr = own /\ behind = 0 THEN {} ELSE Contacts
  /\ UNCHANGED <<own, asm, bundles, contact, wire, handling, limits>>

\* deliver to the next contact; a failure is dropped.
SendUpdate(t, c) ==
  /\ t.pc = "send" /\ c \in t.todo
  /\ \/ /\ wire' = wire \cup {[to |-> c, addr |-> t.addr, seq |-> t.seq]}
        /\ UNCHANGED <<faults, unsure>>
     \/ /\ faults < MaxFaults
        /\ faults' = faults + 1
        /\ unsure' = IF t.seq = seq THEN unsure \cup {c} ELSE unsure
        /\ UNCHANGED wire
  /\ IF t.todo = {c} THEN tasks' = tasks \ {t}
                     ELSE Proceed(t, [t EXCEPT !.todo = @ \ {c}])
  /\ UNCHANGED <<own, seq, asm, bundles, contact, handling, changes, backups, behind>>
-----------------------------------------------------------------------------
\* Mutants: the counter is not compared; an update must be the next one.
IsValid_Always(u) == TRUE
IsValid_NextOnly(u) == u.seq = seqOf[u.to] + 1

\* pointer_update_is_valid, its signature being genuine.
IsValid(u) == u.seq > seqOf[u.to]

\* The newest update is handled together with another one of the same contact.
Collides(u) == \E h \in handling : h.to = u.to /\ (h.seq = seq \/ u.seq = seq)

\* An update is decrypted and checked; a stale one is ignored.
Check(u) ==
  /\ u \in wire
  /\ wire' = wire \ {u}
  /\ seen' = [seen EXCEPT ![u.to] = @ \cup {u}]
  /\ handling' = IF IsValid(u) THEN handling \cup {u} ELSE handling
  /\ unsure' = IF IsValid(u) /\ Collides(u) THEN unsure \cup {u.to} ELSE unsure
  /\ UNCHANGED <<owner, addrOf, seqOf, copy, limits, behind>>

\* set_contact_pointer_update, which does not compare again.
ApplyUpdate(u) ==
  /\ u \in handling
  /\ handling' = handling \ {u}
  /\ addrOf' = [addrOf EXCEPT ![u.to] = u.addr]
  /\ seqOf' = [seqOf EXCEPT ![u.to] = u.seq]
  /\ UNCHANGED <<owner, copy, seen, wire, limits, history>>
-----------------------------------------------------------------------------
\* The owner's app is killed.  Broadcasts are not taken up again.
KillOwner ==
  /\ faults < MaxFaults
  /\ faults' = faults + 1
  /\ tasks' = {} /\ asm' = {}
  /\ unsure' = unsure \cup
       {c \in Contacts : \E t \in tasks : t.pc # "send" \/ (t.seq = seq /\ c \in t.todo)}
  /\ UNCHANGED <<own, seq, bundles, contact, wire, handling, changes, backups, behind>>

\* push_backup reads where to push to; export_backup makes a file.
push_backup ==
  /\ own # NoServer /\ backups < MaxBackups
  /\ backups' = backups + 1
  /\ asm' = asm \cup {[n |-> backups + 1, pc |-> "own", from |-> own, own |-> own]}
  /\ UNCHANGED <<own, seq, tasks, bundles, contact, wire, handling, changes, faults, history>>

export_backup ==
  /\ backups < MaxBackups
  /\ backups' = backups + 1
  /\ asm' = asm \cup {[n |-> backups + 1, pc |-> "own", from |-> NoServer, own |-> own]}
  /\ UNCHANGED <<own, seq, tasks, bundles, contact, wire, handling, changes, faults, history>>

\* assemble reads the address, then the counter.  A push may be overtaken or lost,
\* so that any bundle may be the one that is left on the Server.
ReadOwn(a) ==
  /\ a.pc = "own"
  /\ asm' = (asm \ {a}) \cup {[a EXCEPT !.pc = "counter", !.own = own]}
  /\ UNCHANGED <<own, seq, tasks, bundles, contact, wire, handling, limits, history>>

ReadCounter(a) ==
  /\ a.pc = "counter"
  /\ asm' = asm \ {a}
  /\ bundles' = bundles \cup {[from |-> a.from, own |-> a.own, seq |-> seq]}
  /\ UNCHANGED <<own, seq, tasks, contact, wire, handling, limits, history>>

\* Mutant: the counter is not restored.
Restore_NoSeq(b) ==
  /\ faults < MaxFaults
  /\ faults' = faults + 1
  /\ own' = IF b.from = NoServer THEN b.own ELSE b.from
  /\ seq' = 0
  /\ tasks' = {} /\ asm' = {}
  /\ behind' = (seq + behind) - b.seq
  /\ unsure' = Contacts
  /\ UNCHANGED <<bundles, contact, wire, handling, changes, backups>>

\* import_backup or restore on a new device, from any backup, the old device
\* being gone.  restore takes the address it has fetched the bundle from for its
\* own, whatever the bundle says.  Nothing is broadcast.
Restore(b) ==
  /\ faults < MaxFaults
  /\ faults' = faults + 1
  /\ own' = IF b.from = NoServer THEN b.own ELSE b.from
  /\ seq' = b.seq
  /\ tasks' = {} /\ asm' = {}
  /\ behind' = (seq + behind) - b.seq
  /\ unsure' = Contacts
  /\ UNCHANGED <<bundles, contact, wire, handling, changes, backups>>

Theirs(c) == {h \in handling : h.to = c}

\* A contact's app is killed: an update it has decrypted is not handled again.
KillContact(c) ==
  /\ faults < MaxFaults
  /\ faults' = faults + 1
  /\ handling' = handling \ Theirs(c)
  /\ unsure' = IF \E h \in Theirs(c) : h.seq = seq THEN unsure \cup {c} ELSE unsure
  /\ UNCHANGED <<owner, contact, wire, changes, backups, behind>>

\* A contact makes a backup of its own: the address and the session are in it.
BackupContact(c) ==
  /\ copy' = [copy EXCEPT ![c] = addrOf[c]]
  /\ seen' = [seen EXCEPT ![c] = {}]
  /\ UNCHANGED <<owner, addrOf, seqOf, wire, handling, limits, history>>

\* A contact is restored from it.  pointer_seq is not in a backup, and updates it
\* has decrypted since come again if its mailbox has kept them.
RestoreContact(c) ==
  /\ faults < MaxFaults
  /\ faults' = faults + 1
  /\ addrOf' = [addrOf EXCEPT ![c] = copy[c]]
  /\ seqOf' = [seqOf EXCEPT ![c] = 0]
  /\ seen' = [seen EXCEPT ![c] = {}]
  /\ \E again \in SUBSET seen[c] : wire' = wire \cup again
  /\ handling' = handling \ Theirs(c)
  /\ unsure' = unsure \cup {c}
  /\ UNCHANGED <<owner, copy, changes, backups, behind>>

PointerNext ==
  \/ \E a \in Addrs : set_own_server_addr(a)
  \/ \E t \in tasks : ReadAddr(t) \/ TickSeq(t) \/ \E c \in Contacts : SendUpdate(t, c)
  \/ \E u \in wire : Check(u)
  \/ \E u \in handling : ApplyUpdate(u)
  \/ KillOwner
  \/ push_backup \/ export_backup
  \/ \E a \in asm : ReadOwn(a) \/ ReadCounter(a)
  \/ \E b \in bundles : Restore(b)
  \/ \E c \in Contacts : KillContact(c) \/ BackupContact(c) \/ RestoreContact(c)

PointerSpec == PointerInit /\ [][PointerNext]_pointerVars
-----------------------------------------------------------------------------
\* No contact, and no update on its way, has a number beyond those the owner has
\* given out: an owner that kept its counter is always accepted next, and one
\* restored from an older backup is ignored for as many broadcasts as there
\* were numbers given out between the backup and its loss, and then no more.
NextIsAccepted ==
  /\ \A c \in Contacts : seqOf[c] <= seq + behind
  /\ \A u \in wire \cup handling : u.seq <= seq + behind

\* A broadcast of the current address under a new number brings every contact to
\* that address once it is through, whatever was lost, killed, restored, raced or
\* overtaken before it, and whichever older update comes later.  Left out are the
\* contacts it was not delivered to, those that handled it together with another
\* update, and those that were killed handling it or restored since.
SettledOnCurrent ==
  tasks = {} => \A c \in Contacts \ unsure :
    (\A u \in wire \cup handling : u.to # c) => addrOf[c] = own

\* An update is accepted "only if ... `seq` is strictly greater than the last
\* `seq` this receiver has already accepted" (docs/PROTOCOL.md:126): a contact
\* never goes back to an older one.
NoRollback ==
  [][\A c \in Contacts :
       <<addrOf'[c], seqOf'[c]>> # <<addrOf[c], seqOf[c]>> => seqOf'[c] > seqOf[c]]_pointerVars

\* Contacts have the owner's address once all broadcasts are through, as long as
\* nothing is lost, killed or restored.
ContactsFollow ==
  tasks = {} /\ wire = {} /\ handling = {} /\ faults = 0
    => \A c \in Contacts : addrOf[c] = own
=============================================================================
