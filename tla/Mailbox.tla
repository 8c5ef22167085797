------------------------------- MODULE Mailbox -------------------------------
(***************************************************************************)
(* The tables of a pm-node mailbox (store.rs): write-authorization slots   *)
(* and the blobs deposited against them, of a node with a data_dir, so     *)
(* that a restart changes nothing.  Rows of blobs are never deleted        *)
(* and ids come from AUTOINCREMENT, so a blob's id is its position.        *)
(*                                                                         *)
(* A slot is what SHA256 of the derived auth identifies: the writer, the   *)
(* pairing whose secret it was derived from, and the sequence number.      *)
(***************************************************************************)
EXTENDS Naturals, Sequences

CONSTANTS
  Servers,     \* the nodes an owner may use, one after the other
  Contacts,    \* the owner's contacts
  Batch,       \* SLOT_REPLENISH_BATCH
  MaxPairings, \* bound on how often a pair is paired
  MaxWrites    \* bound on a contact's write attempts

ASSUME BatchAssumption == Batch \in Nat

VARIABLES
  slots,   \* registered_slots of each server
  blobs    \* blobs of each server, by id

mailbox == <<slots, blobs>>

Slot == [from : Contacts, pairing : Nat, n : Nat]
\* key names the Olm message key the envelope was encrypted with.
Blob == [slot : Slot, key : Nat, delivered : BOOLEAN]

MailboxTypeOK ==
  /\ slots \in [Servers -> SUBSET Slot]
  /\ blobs \in [Servers -> Seq(Blob)]

MailboxInit ==
  /\ slots = [s \in Servers |-> {}]
  /\ blobs = [s \in Servers |-> <<>>]

\* INSERT OR IGNORE of a slot hash.
register_slot(s, slot) ==
  /\ slots' = [slots EXCEPT ![s] = @ \cup {slot}]
  /\ UNCHANGED blobs

\* write, one transaction: consume the slot and store the blob.
accept_write(s, slot, key) ==
  /\ slot \in slots[s]
  /\ slots' = [slots EXCEPT ![s] = @ \ {slot}]
  /\ blobs' = [blobs EXCEPT ![s] =
       Append(@, [slot |-> slot, key |-> key, delivered |-> FALSE])]

\* write without a matching slot: WriteError::NoMatchingSlot.
reject_write(s, slot) ==
  /\ slot \notin slots[s]
  /\ UNCHANGED mailbox

\* ack: mark the given ids delivered; ids that do not exist are ignored.
ack(s, ids) ==
  /\ blobs' = [blobs EXCEPT ![s] =
       [i \in DOMAIN @ |-> IF i \in ids THEN [@[i] EXCEPT !.delivered = TRUE]
                                        ELSE @[i]]]
  /\ UNCHANGED slots
=============================================================================
