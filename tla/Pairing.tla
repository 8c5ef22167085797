------------------------------ MODULE Pairing -------------------------------
(***************************************************************************)
(* One device pairing with several people: pairing_payload and             *)
(* add_contact_from_payload on both sides, the one-time keys of the        *)
(* device's account, the contact rows that a second pairing finds, and the *)
(* first messages (client.rs, pairing.rs, session.rs).                     *)
(*                                                                         *)
(* The device has a Server, where the others write; it sends to them       *)
(* directly, and falls back on its own Server when that fails.  What a     *)
(* session makes of its messages is Session's subject; here a session is a *)
(* name that both ends must share.                                         *)
(***************************************************************************)
EXTENDS Naturals

CONSTANTS
  Peers,      \* the people the device pairs with
  Batch,      \* SLOT_REPLENISH_BATCH
  MaxKeys,    \* bound on the codes the device shows
  MaxCodes,   \* bound on the codes a peer shows
  MaxAdds,    \* bound on codes being read
  MaxFails,   \* bound on registrations that fail half-way
  MaxSends,   \* bound on messages
  MaxLives,   \* bound on installations of a peer's app
  MaxKills    \* bound on the device's app being killed

ASSUME PairingAssumption == Batch \in Nat /\ "device" \notin Peers

VARIABLES
  account,  \* unused one-time keys of the account in memory
  pickle,   \* the same in the stored account
  keys,     \* one-time keys generated so far
  code,     \* the code on the device's screen: key and nonce
  codeOf,   \* the code on each peer's screen
  row,      \* the device's contact rows
  rowOf,    \* each peer's row for the device
  life,     \* installations of each peer's app; each has its own account
  slots,    \* write slots open on the device's Server
  mail,     \* blobs there that have not been handled
  saving,   \* attribute_and_store calls between accepting and saving
  adds, fails, sends, kills,
  taken,    \* history: who used up each key
  overtaken \* history: keys generated while an older account awaited saving

peerVars == <<codeOf, rowOf, life>>
counts == <<adds, fails, sends, kills>>
history == <<taken, overtaken>>
vars == <<account, pickle, keys, code, row, peerVars, slots, mail, saving, counts,
          history>>

NoSession == [peer |-> "none", life |-> 0, key |-> 0, no |-> 0]
NoCode == [key |-> 0, nonce |-> 0]

\* codes: the two codes the row was made from, the device's first; key:
\* pending_otk, for the device's rows the installation that generated it.
NoCodes == <<0, 0>>
NoRow == [life |-> 0, codes |-> NoCodes, secret |-> {}, key |-> 0,
          sess |-> NoSession, n |-> 0, full |-> FALSE]

Sess    == [peer : Peers \cup {"none"}, life : Nat, key : Nat, no : Nat]
Secret  == SUBSET ((Peers \cup {"device"}) \X Nat)
Row     == [life : Nat, codes : Nat \X Nat, secret : Secret, key : Nat,
            sess : Sess, n : Nat, full : BOOLEAN]
Blob    == [from : Peers, sess : Sess, id : Nat]
Handler == [pc : {"account", "session"}, peer : Peers, sess : Sess,
            account : SUBSET Nat]

TypeOK ==
  /\ keys \in Nat /\ sends \in Nat
  /\ account \subseteq Nat /\ pickle \subseteq Nat
  /\ code \in [key : Nat, nonce : Nat]
  /\ codeOf \in [Peers -> Nat] /\ life \in [Peers -> Nat]
  /\ row \in [Peers -> Row] /\ rowOf \in [Peers -> Row]
  /\ mail \subseteq Blob
  /\ saving \subseteq Handler

\* The peers have their pairing screens open.
Init ==
  /\ account = {} /\ pickle = {} /\ keys = 0
  /\ code = NoCode /\ codeOf = [p \in Peers |-> 1]
  /\ row = [p \in Peers |-> NoRow] /\ rowOf = [p \in Peers |-> NoRow]
  /\ life = [p \in Peers |-> 1]
  /\ slots = {} /\ mail = {} /\ saving = {}
  /\ adds = 0 /\ fails = 0 /\ sends = 0 /\ kills = 0
  /\ taken = {} /\ overtaken = {}
-----------------------------------------------------------------------------
\* Nonces are random, so they are told apart by who drew them and when.
Nonce(i) == <<"device", i>>
NonceOf(p, i) == <<p, i>>

\* The nonces are sorted, so only the set of the two matters.
\* Mutant: one's own nonce first.
compute_pair_secret_Unsorted(a, b) == <<a, b>>

compute_pair_secret(a, b) == {a, b}

\* A new key is generated and the account saved under its lock; the code shows
\* one of the keys that are there, as the map they come in has no order.
\* Mutant: the account is not saved.
pairing_payload_NotSaved ==
  /\ keys < MaxKeys /\ keys' = keys + 1
  /\ account' = account \cup {keys + 1}
  /\ \E k \in account' : code' = [key |-> k, nonce |-> keys + 1]
  /\ overtaken' = overtaken \cup
       IF \E h \in saving : h.pc = "account" THEN {keys + 1} ELSE {}
  /\ UNCHANGED <<pickle, row, peerVars, slots, mail, saving, counts, taken>>

pairing_payload ==
  /\ keys < MaxKeys /\ keys' = keys + 1
  /\ account' = account \cup {keys + 1} /\ pickle' = account'
  /\ \E k \in account' : code' = [key |-> k, nonce |-> keys + 1]
  /\ overtaken' = overtaken \cup
       IF \E h \in saving : h.pc = "account" THEN {keys + 1} ELSE {}
  /\ UNCHANGED <<row, peerVars, slots, mail, saving, counts, taken>>

\* A peer opens the pairing screen, or asks for another code.
PeerCode(p) ==
  /\ codeOf[p] < MaxCodes
  /\ codeOf' = [codeOf EXCEPT ![p] = @ + 1]
  /\ UNCHANGED <<account, pickle, keys, code, row, rowOf, life, slots, mail, saving,
                 counts, history>>

\* The row of a pairing between the device and p, or what becomes of it in
\* another one: it keeps its session and its counter.
Upserted(r, p, secret, key, full) ==
  [r EXCEPT !.life = life[p], !.codes = <<code.nonce, codeOf[p]>>,
            !.secret = secret, !.key = key, !.full = full]

\* The device reads p's code.  A call of the Server may fail, and the slots
\* before it stay registered.
add_contact(p) ==
  /\ code # NoCode /\ adds < MaxAdds /\ adds' = adds + 1
  /\ LET secret == compute_pair_secret(Nonce(code.nonce), NonceOf(p, codeOf[p])) IN
     \E m \in IF fails < MaxFails THEN 0..Batch ELSE {Batch} :
       /\ fails' = IF m = Batch THEN fails ELSE fails + 1
       /\ row' = [row EXCEPT ![p] = Upserted(@, p, secret, life[p], m = Batch)]
       /\ slots' = slots \cup {<<secret, n>> : n \in 0..(m - 1)}
  /\ UNCHANGED <<account, pickle, keys, code, peerVars, mail, saving, sends, kills, history>>

\* p reads the device's code.
PeerAdds(p) ==
  /\ code # NoCode /\ adds < MaxAdds /\ adds' = adds + 1
  /\ rowOf' = [rowOf EXCEPT ![p] =
       Upserted(@, p, compute_pair_secret(NonceOf(p, codeOf[p]), Nonce(code.nonce)),
                code.key, FALSE)]
  /\ UNCHANGED <<account, pickle, keys, code, codeOf, row, life, slots, mail,
                 saving, fails, sends, kills, history>>
-----------------------------------------------------------------------------
\* The session deliver uses: the stored one, or a new one from the pending key.
\* It is named after the peer's installation and the device's key, if it used one.
SessionFor(p, r, l, k) ==
  IF r.sess # NoSession THEN r.sess ELSE [peer |-> p, life |-> l, key |-> k, no |-> sends + 1]

\* p writes to the device's Server.  The number is spent, and the pending key
\* cleared, before the Server accepts or refuses the slot; the session is saved
\* when it accepts.
PeerSends(p) ==
  /\ sends < MaxSends /\ sends' = sends + 1
  /\ rowOf[p].codes # NoCodes /\ (rowOf[p].sess # NoSession \/ rowOf[p].key # 0)
  /\ LET r == rowOf[p]
         slot == <<r.secret, r.n>>
         s == SessionFor(p, r, life[p], r.key)
     IN /\ slots' = slots \ {slot}
        /\ mail' = IF slot \in slots
                   THEN mail \cup {[from |-> p, sess |-> s, id |-> sends + 1]}
                   ELSE mail
        /\ rowOf' = [rowOf EXCEPT ![p] =
             [r EXCEPT !.n = @ + 1, !.key = IF r.sess = NoSession THEN 0 ELSE @,
                       !.sess = IF slot \in slots THEN s ELSE @]]
  /\ UNCHANGED <<account, pickle, keys, code, codeOf, row, life, saving, adds, fails, kills,
                 history>>

\* attribute_and_store: the contact whose session the blob is for, or one
\* without a session whose account made the blob with a key that is still there.
Known(e)   == \E c \in Peers : row[c].sess = e.sess
\* Mutant: the sender's account is not compared.
MadeBy_AnyAccount(c, e) == row[c].life # 0 /\ row[c].sess = NoSession

MadeBy(c, e) == row[c].life = e.sess.life /\ c = e.from /\ row[c].sess = NoSession

Decrypts(e) ==
  /\ e \in mail /\ Known(e)
  /\ mail' = mail \ {e}
  /\ UNCHANGED <<account, pickle, keys, code, row, peerVars, slots, saving,
                 counts, history>>

Accepts(e, c) ==
  /\ e \in mail /\ ~Known(e) /\ MadeBy(c, e) /\ e.sess.key \in account
  /\ account' = account \ {e.sess.key}
  /\ mail' = mail \ {e}
  /\ saving' = saving \cup {[pc |-> "account", peer |-> c, sess |-> e.sess, account |-> account']}
  /\ taken' = taken \cup {<<e.from, e.sess.key>>}
  /\ UNCHANGED <<pickle, keys, code, row, peerVars, slots, counts, overtaken>>

Unattributed(e) ==
  /\ e \in mail /\ ~Known(e)
  /\ \A c \in Peers : ~(MadeBy(c, e) /\ e.sess.key \in account)
  /\ mail' = mail \ {e}
  /\ UNCHANGED <<account, pickle, keys, code, row, peerVars, slots, saving,
                 counts, history>>

\* The account as it was when the lock was released, then the session.
SaveAccount(h) ==
  /\ h \in saving /\ h.pc = "account"
  /\ pickle' = h.account
  /\ saving' = (saving \ {h}) \cup {[h EXCEPT !.pc = "session"]}
  /\ UNCHANGED <<account, keys, code, row, peerVars, slots, mail, counts, history>>

SaveSession(h) ==
  /\ h \in saving /\ h.pc = "session"
  /\ row' = [row EXCEPT ![h.peer].sess = h.sess]
  /\ saving' = saving \ {h}
  /\ UNCHANGED <<account, pickle, keys, code, peerVars, slots, mail, counts, history>>

\* The device sends to p, who may be out of reach.  p takes a session it has, or
\* makes one if it has none and the key is of its account.  Either way the
\* device saves the session if its own Server takes over the message.
Send(p) ==
  /\ sends < MaxSends /\ sends' = sends + 1
  /\ row[p].life # 0 /\ (row[p].sess # NoSession \/ row[p].key # 0)
  /\ LET s == SessionFor(p, row[p], row[p].key, 0) IN
     /\ \E ok \in BOOLEAN :
          row' = [row EXCEPT ![p].sess = IF ok THEN s ELSE @,
                             ![p].key = IF row[p].sess = NoSession THEN 0 ELSE @]
     /\ \/ UNCHANGED rowOf
        \/ /\ row[p].sess = NoSession /\ row[p].key = life[p]
           /\ rowOf[p].codes # NoCodes /\ rowOf[p].sess = NoSession
           /\ rowOf' = [rowOf EXCEPT ![p].sess = s]
  /\ UNCHANGED <<account, pickle, keys, code, codeOf, life, slots, mail, saving,
                 adds, fails, kills, history>>
-----------------------------------------------------------------------------
\* p starts over on a new phone with nothing but the recovery phrase: the same
\* identity key, a new account, no contacts, and in time another code.
Reinstall(p) ==
  /\ life[p] < MaxLives /\ codeOf[p] < MaxCodes /\ rowOf[p] # NoRow
  /\ life' = [life EXCEPT ![p] = @ + 1]
  /\ rowOf' = [rowOf EXCEPT ![p] = NoRow]
  /\ codeOf' = [codeOf EXCEPT ![p] = @ + 1]
  /\ UNCHANGED <<account, pickle, keys, code, row, slots, mail, saving, counts, history>>

\* The device's app is killed and opened again.
Kill ==
  /\ kills < MaxKills /\ kills' = kills + 1
  /\ account' = pickle
  /\ code' = NoCode /\ saving' = {}
  /\ UNCHANGED <<pickle, keys, row, peerVars, slots, mail, adds, fails, sends, history>>

Next ==
  \/ pairing_payload \/ Kill
  \/ \E p \in Peers : \/ PeerCode(p) \/ add_contact(p) \/ PeerAdds(p) \/ PeerSends(p)
                      \/ Send(p) \/ Reinstall(p)
  \/ \E e \in mail : Decrypts(e) \/ Unattributed(e) \/ \E c \in Peers : Accepts(e, c)
  \/ \E h \in saving : SaveAccount(h) \/ SaveSession(h)

Spec == Init /\ [][Next]_vars
-----------------------------------------------------------------------------
\* A key somebody holds and has not used can still be accepted, unless another
\* contact who was shown the same key came first, or the app was killed after a
\* handler had put back an account from before the key (client.rs, 851-854).
HeldKeyUsable ==
  \A p \in Peers :
    LET k == rowOf[p].key IN
    k # 0 => \/ k \in account \/ k \in overtaken
             \/ \E q \in Peers : <<q, k>> \in taken

\* Every session stored for a contact is one that contact takes part in, though
\* attribute_and_store finds the sender by trying.
SessionIsContacts == \A p \in Peers : row[p].sess = NoSession \/ row[p].sess.peer = p

\* Who read which code first does not matter: once both ends have completed from
\* the same two codes and every slot is registered, the next number the peer
\* writes with is registered too, until the batch is used up.
SlotReady ==
  \A p \in Peers :
    /\ row[p].full /\ row[p].codes = rowOf[p].codes /\ rowOf[p].n < Batch
    => <<rowOf[p].secret, rowOf[p].n>> \in slots

\* "a fresh one-time key" (pairing_payload): no two codes carry the same.
KeysAreFresh ==
  \A p, q \in Peers :
    rowOf[p].key # 0 /\ rowOf[p].key = rowOf[q].key => rowOf[p].codes[1] = rowOf[q].codes[1]

\* "sessions re-key" (identity.rs): the session stored for a contact is one with
\* the installation whose keys the row holds, also after the contact has started
\* over and both ends have paired again.
PairingAgainRekeys ==
  \A p \in Peers : row[p].sess # NoSession => row[p].sess.life = row[p].life
=============================================================================
