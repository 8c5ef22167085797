---------------------------- MODULE PairingProofs ----------------------------
(***************************************************************************)
(* Proofs about Pairing, for any peers and bounds: what becomes of the     *)
(* one-time keys that codes hand out, and whose session is stored for      *)
(* whom.  HeldKeyUsable speaks of keys in contact rows; the invariant      *)
(* speaks of every key ever generated, and of the three copies of the      *)
(* account: in memory, stored, and in the hands of a handler.  SlotReady   *)
(* speaks of the next slot of a pair; the invariant, of all slots the peer *)
(* has not come to, and of the rows that are left from earlier             *)
(* installations.                                                          *)
(***************************************************************************)
EXTENDS Pairing, TLAPS

-----------------------------------------------------------------------------
\* Both ends derive their secret from two nonces that somebody drew.
LEMMA SecretType ==
  ASSUME NEW p \in Peers, NEW i \in Nat, NEW j \in Nat
  PROVE  /\ compute_pair_secret(Nonce(i), NonceOf(p, j)) \in Secret
         /\ compute_pair_secret(NonceOf(p, j), Nonce(i)) \in Secret
  BY DEF compute_pair_secret, Nonce, NonceOf, Secret

\* Pairing leaves the session of a row alone.
LEMMA UpsertedRow ==
  ASSUME TypeOK, NEW r \in Row, NEW p \in Peers, NEW s \in Secret, NEW k \in Nat,
         NEW f \in BOOLEAN
  PROVE  /\ Upserted(r, p, s, k, f) \in Row
         /\ Upserted(r, p, s, k, f).sess = r.sess
         /\ Upserted(r, p, s, k, f).key = k
<1>1. life[p] \in Nat /\ <<code.nonce, codeOf[p]>> \in Nat \X Nat
  BY Zenon DEF TypeOK
<1> QED
  BY <1>1, Zenon DEF Upserted, Row

\* deliver goes on with the stored session or makes one with the contact.
LEMMA NewSession ==
  ASSUME TypeOK, NEW r \in Row, NEW p \in Peers, NEW l \in Nat, NEW k \in Nat
  PROVE  /\ SessionFor(p, r, l, k) \in Sess
         /\ \/ SessionFor(p, r, l, k) = r.sess /\ r.sess # NoSession
            \/ SessionFor(p, r, l, k).peer = p
  BY DEF TypeOK, SessionFor, Row, Sess

\* A row with another key or session is a row.
WithSession(r, s)  == [r EXCEPT !.sess = s]
WithBoth(r, s, k)  == [r EXCEPT !.sess = s, !.key = k]
Advanced(r, s, k)  == [r EXCEPT !.n = r.n + 1, !.key = k, !.sess = s]

\* Saving a session changes nothing else of the row.
LEMMA RowWithSession ==
  ASSUME NEW r \in Row, NEW s \in Sess
  PROVE  /\ WithSession(r, s) \in Row /\ WithSession(r, s).sess = s
         /\ WithSession(r, s).key = r.key
  BY Zenon DEF Row, WithSession

\* The same with the pending key.
LEMMA RowWithBoth ==
  ASSUME NEW r \in Row, NEW s \in Sess, NEW k \in Nat
  PROVE  WithBoth(r, s, k) \in Row /\ WithBoth(r, s, k).sess = s
  BY Zenon DEF Row, WithBoth

\* The same with the key and the next number.
LEMMA RowAdvanced ==
  ASSUME NEW r \in Row, NEW s \in Sess, NEW k \in Nat
  PROVE  /\ Advanced(r, s, k) \in Row /\ Advanced(r, s, k).sess = s
         /\ Advanced(r, s, k).key = k
<1>1. r.n + 1 \in Nat
  BY DEF Row
<1> QED
  BY <1>1, Zenon DEF Row, Advanced

\* Nobody has a key or a session before pairing.
LEMMA EmptyRow == NoRow \in Row /\ NoRow.sess = NoSession /\ NoRow.key = 0
  BY Zenon DEF NoRow, Row, NoCodes, NoSession, Sess, Secret

\* deliver on p's side: the key goes, the session is the stored one or p's own.
LEMMA PeerSendsEffect ==
  ASSUME TypeOK, NEW p \in Peers, PeerSends(p)
  PROVE  /\ rowOf' \in [Peers -> Row]
         /\ \A q \in Peers : q # p => rowOf'[q] = rowOf[q]
         /\ rowOf'[p].key \in {0, rowOf[p].key}
         /\ rowOf'[p].sess = rowOf[p].sess \/ rowOf'[p].sess.peer = p
         /\ mail' \subseteq Blob
         /\ \A e \in mail' : \/ e \in mail
                             \/ /\ e.from = p
                                /\ \/ e.sess = rowOf[p].sess /\ rowOf[p].sess # NoSession
                                   \/ e.sess.peer = p
<1> DEFINE r == rowOf[p]
           s == SessionFor(p, r, life[p], r.key)
           slot == <<r.secret, r.n>>
           b == [from |-> p, sess |-> s, id |-> sends + 1]
           k == IF r.sess = NoSession THEN 0 ELSE r.key
           t == IF slot \in slots THEN s ELSE r.sess
           u == Advanced(r, t, k)
<1>1. /\ r \in Row /\ r.key \in Nat /\ r.n + 1 \in Nat /\ r.sess \in Sess
      /\ life[p] \in Nat /\ sends + 1 \in Nat
  BY DEF TypeOK, Row
<1>2. /\ s \in Sess
      /\ (s = r.sess /\ r.sess # NoSession) \/ s.peer = p
  BY <1>1, NewSession
<1>3. rowOf' = [rowOf EXCEPT ![p] = u]
  BY Zenon DEF PeerSends, Advanced
<1>4. k \in Nat /\ k \in {0, r.key} /\ t \in Sess /\ t \in {s, r.sess}
  BY <1>1, <1>2, Zenon
<1> HIDE DEF s, k, t
<1>5. u \in Row /\ u.key = k /\ u.sess = t
  <2> HIDE DEF r
  <2>1. r \in Row /\ t \in Sess /\ k \in Nat
    BY <1>1, <1>4, Zenon
  <2> QED
    BY <2>1, RowAdvanced
<1>6. b \in Blob /\ b.from = p /\ b.sess = s
  BY <1>1, <1>2, Zenon DEF Blob
<1>7. mail' \subseteq mail \cup {b}
  BY Zenon DEF PeerSends, s
<1> HIDE DEF u, b
<1>8. /\ rowOf' \in [Peers -> Row] /\ rowOf'[p] = u
      /\ \A q \in Peers : q # p => rowOf'[q] = rowOf[q]
  BY <1>3, <1>5, Zenon DEF TypeOK
<1> QED
  BY <1>2, <1>4, <1>5, <1>6, <1>7, <1>8, Zenon DEF TypeOK

\* The same on the device's side; p makes a session only if it has none.
LEMMA SendEffect ==
  ASSUME TypeOK, NEW p \in Peers, Send(p)
  PROVE  /\ row' \in [Peers -> Row] /\ rowOf' \in [Peers -> Row]
         /\ \A q \in Peers : q # p => row'[q] = row[q] /\ rowOf'[q] = rowOf[q]
         /\ row'[p].sess = row[p].sess \/ row'[p].sess.peer = p
         /\ rowOf'[p].key = rowOf[p].key
         /\ rowOf'[p].sess = rowOf[p].sess \/ rowOf'[p].sess.peer = p
<1> DEFINE s == SessionFor(p, row[p], row[p].key, 0)
           k == IF row[p].sess = NoSession THEN 0 ELSE row[p].key
<1>1. row[p] \in Row /\ row[p].key \in Nat /\ row[p].sess \in Sess /\ rowOf[p] \in Row
  BY Zenon DEF TypeOK, Row
<1>2. /\ s \in Sess
      /\ (s = row[p].sess /\ row[p].sess # NoSession) \/ s.peer = p
  BY <1>1, NewSession
<1>3. k \in Nat
  BY <1>1, Zenon
<1>4. PICK t \in {s, row[p].sess} : row' = [row EXCEPT ![p].sess = t, ![p].key = k]
  BY Zenon DEF Send
<1>5. \/ rowOf' = rowOf
      \/ rowOf' = [rowOf EXCEPT ![p].sess = s] /\ row[p].sess = NoSession
  BY Zenon DEF Send
<1> HIDE DEF s, k
<1> DEFINE u == WithBoth(row[p], t, k)
           v == WithSession(rowOf[p], s)
<1>6. u \in Row /\ u.sess = t /\ v \in Row /\ v.sess = s /\ v.key = rowOf[p].key
  <2>1. t \in Sess
    BY <1>1, <1>2, Zenon
  <2>2. u \in Row /\ u.sess = t
    BY <1>1, <1>3, <2>1, RowWithBoth, Zenon
  <2>3. v \in Row /\ v.sess = s /\ v.key = rowOf[p].key
    BY <1>1, <1>2, RowWithSession, Zenon
  <2> QED
    BY <2>2, <2>3, Zenon
<1>7. row' = [row EXCEPT ![p] = u]
  BY <1>4, Zenon DEF TypeOK, WithBoth
<1>8. rowOf' = rowOf \/ (rowOf' = [rowOf EXCEPT ![p] = v] /\ row[p].sess = NoSession)
  BY <1>5, Zenon DEF WithSession
<1> HIDE DEF u, v
<1>9. /\ row' \in [Peers -> Row] /\ row'[p].sess = t
      /\ \A q \in Peers : q # p => row'[q] = row[q]
  BY <1>6, <1>7, Zenon DEF TypeOK
<1>10. /\ rowOf' \in [Peers -> Row] /\ rowOf'[p].key = rowOf[p].key
       /\ \A q \in Peers : q # p => rowOf'[q] = rowOf[q]
       /\ rowOf'[p].sess = rowOf[p].sess \/ rowOf'[p].sess.peer = p
  BY <1>2, <1>6, <1>8, Zenon DEF TypeOK
<1> QED
  BY <1>2, <1>4, <1>9, <1>10, Zenon

\* attribute_and_store saves the session for the contact it found.
LEMMA SaveSessionEffect ==
  ASSUME TypeOK, NEW h \in saving, SaveSession(h)
  PROVE  /\ row' \in [Peers -> Row] /\ h.peer \in Peers /\ row'[h.peer].sess = h.sess
         /\ \A q \in Peers : q # h.peer => row'[q] = row[q]
<1>1. h.peer \in Peers /\ h.sess \in Sess
  BY Zenon DEF TypeOK, Handler
<1> DEFINE u == WithSession(row[h.peer], h.sess)
<1>2. u \in Row /\ u.sess = h.sess
  BY <1>1, RowWithSession, Zenon DEF TypeOK
<1>3. row' = [row EXCEPT ![h.peer] = u]
  BY Zenon DEF SaveSession, WithSession
<1> HIDE DEF u
<1> QED
  BY <1>1, <1>2, <1>3, Zenon DEF TypeOK

\* The variables keep their types.
LEMMA TypeStep == TypeOK /\ [Next]_vars => TypeOK'
<1> SUFFICES ASSUME TypeOK, [Next]_vars PROVE TypeOK'
  BY Zenon
<1> USE DEF TypeOK, peerVars, counts, history
<1>1. CASE pairing_payload
  <2>1. keys' \in Nat /\ account' \subseteq Nat /\ pickle' \subseteq Nat
    BY <1>1 DEF pairing_payload
  <2>2. code' \in [key : Nat, nonce : Nat]
    BY <1>1, <2>1 DEF pairing_payload
  <2> QED
    BY <1>1, <2>1, <2>2, Zenon DEF pairing_payload
<1>2. CASE Kill
  BY <1>2, Zenon DEF Kill, NoCode
<1>3. ASSUME NEW p \in Peers, PeerCode(p) PROVE TypeOK'
  BY <1>3 DEF PeerCode
<1>4. ASSUME NEW p \in Peers, add_contact(p) PROVE TypeOK'
  <2>1. PICK s \in Secret, f \in BOOLEAN :
          row' = [row EXCEPT ![p] = Upserted(row[p], p, s, life[p], f)]
    BY <1>4, SecretType, Zenon DEF add_contact
  <2>2. Upserted(row[p], p, s, life[p], f) \in Row
    BY UpsertedRow, Zenon
  <2>3. row' \in [Peers -> Row]
    BY <2>1, <2>2, Zenon
  <2> QED
    BY <1>4, <2>3, Zenon DEF add_contact
<1>5. ASSUME NEW p \in Peers, PeerAdds(p) PROVE TypeOK'
  <2>1. PICK s \in Secret :
          rowOf' = [rowOf EXCEPT ![p] = Upserted(rowOf[p], p, s, code.key, FALSE)]
    BY <1>5, SecretType, Zenon DEF PeerAdds
  <2>2. Upserted(rowOf[p], p, s, code.key, FALSE) \in Row
    BY UpsertedRow, Zenon
  <2>3. rowOf' \in [Peers -> Row]
    BY <2>1, <2>2, Zenon
  <2> QED
    BY <1>5, <2>3, Zenon DEF PeerAdds
<1>6. ASSUME NEW p \in Peers, PeerSends(p) PROVE TypeOK'
  <2>1. sends' \in Nat
    BY <1>6 DEF PeerSends
  <2>2. rowOf' \in [Peers -> Row] /\ mail' \subseteq Blob
    BY <1>6, PeerSendsEffect, Zenon
  <2> QED
    BY <1>6, <2>1, <2>2, Zenon DEF PeerSends
<1>7. ASSUME NEW p \in Peers, Send(p) PROVE TypeOK'
  <2>1. sends' \in Nat
    BY <1>7 DEF Send
  <2>2. row' \in [Peers -> Row] /\ rowOf' \in [Peers -> Row]
    BY <1>7, SendEffect, Zenon
  <2> QED
    BY <1>7, <2>1, <2>2, Zenon DEF Send
<1>8. ASSUME NEW p \in Peers, Reinstall(p) PROVE TypeOK'
  BY <1>8, EmptyRow DEF Reinstall
<1>9. ASSUME NEW e \in mail, Decrypts(e) \/ Unattributed(e) PROVE TypeOK'
  BY <1>9, Zenon DEF Decrypts, Unattributed
<1>10. ASSUME NEW e \in mail, NEW c \in Peers, Accepts(e, c) PROVE TypeOK'
  <2>1. [pc |-> "account", peer |-> c, sess |-> e.sess, account |-> account'] \in Handler
    BY <1>10, Zenon DEF Accepts, Handler, Blob
  <2> QED
    BY <1>10, <2>1, Zenon DEF Accepts
<1>11. ASSUME NEW h \in saving, SaveAccount(h) PROVE TypeOK'
  <2>1. [h EXCEPT !.pc = "session"] \in Handler /\ h.account \subseteq Nat
    BY Zenon DEF Handler
  <2> QED
    BY <1>11, <2>1, Zenon DEF SaveAccount
<1>12. ASSUME NEW h \in saving, SaveSession(h) PROVE TypeOK'
  BY <1>12, SaveSessionEffect, Zenon DEF SaveSession
<1>13. CASE UNCHANGED vars
  BY <1>13, Zenon DEF vars
<1> QED
  BY <1>1, <1>2, <1>3, <1>4, <1>5, <1>6, <1>7, <1>8, <1>9, <1>10, <1>11, <1>12, <1>13, Zenon
  DEF Next
-----------------------------------------------------------------------------
\* A generated key that was used, or that a restart may forget.
Spent(k) == k \in overtaken \/ \E q \in Peers : <<q, k>> \in taken

\* Every copy of the account has all keys generated so far that are not spent,
\* and no code and no row holds another.
KeyInv ==
  /\ \A k \in 1..keys : k \in account \/ Spent(k)
  /\ \A k \in 1..keys : k \in pickle \/ Spent(k)
  /\ \A h \in saving : h.pc = "account" =>
       \A k \in 1..keys : k \in h.account \/ Spent(k)
  /\ \A k \in account \cup pickle : k \in 1..keys
  /\ \A h \in saving : \A k \in h.account : k \in 1..keys
  /\ code # NoCode => code.key \in 1..keys
  /\ \A p \in Peers : rowOf[p].key = 0 \/ rowOf[p].key \in 1..keys

\* Handlers save copies that are at worst older than a key marked overtaken.
LEMMA KeyStep ==
  ASSUME TypeOK, KeyInv, [Next]_vars
  PROVE  KeyInv'
<1>1. CASE pairing_payload
  <2>1. /\ keys \in Nat /\ keys' = keys + 1
        /\ account' = account \cup {keys + 1} /\ pickle' = account'
        /\ code'.key \in account'
        /\ UNCHANGED <<rowOf, saving, taken>>
        /\ overtaken \subseteq overtaken'
        /\ (\E h \in saving : h.pc = "account") => keys + 1 \in overtaken'
    BY <1>1 DEF pairing_payload, peerVars, TypeOK
  <2>2. \A k \in 1..keys' : k \in 1..keys \/ k = keys + 1
    BY <2>1
  <2>3. \A k \in 1..keys : k \in 1..keys'
    BY <2>1
  <2>4. keys + 1 \in 1..keys'
    BY <2>1
  <2>5. \A k : Spent(k) => Spent(k)'
    BY <2>1, Zenon DEF Spent
  <2>6. \A k \in 1..keys' : k \in account' \/ Spent(k)'
    BY <2>1, <2>2, <2>5, Zenon DEF KeyInv
  <2>7. \A h \in saving : h.pc = "account" =>
          \A k \in 1..keys' : k \in h.account \/ Spent(k)'
    BY <2>1, <2>2, <2>5, Zenon DEF KeyInv, Spent
  <2> QED
    BY <2>1, <2>3, <2>4, <2>6, <2>7, Zenon DEF KeyInv
<1>2. CASE Kill
  BY <1>2, Zenon DEF Kill, peerVars, history, KeyInv, Spent
<1>3. ASSUME NEW p \in Peers, PeerAdds(p) PROVE KeyInv'
  <2>1. PICK s \in Secret :
          rowOf' = [rowOf EXCEPT ![p] = Upserted(rowOf[p], p, s, code.key, FALSE)]
    BY <1>3, SecretType, Zenon DEF PeerAdds, TypeOK
  <2>2. code # NoCode /\ UNCHANGED <<account, pickle, keys, code, saving, history>>
    BY <1>3, Zenon DEF PeerAdds
  <2>3. Upserted(rowOf[p], p, s, code.key, FALSE).key = code.key
    BY UpsertedRow, Zenon DEF TypeOK
  <2>4. \A q \in Peers : rowOf'[q].key = 0 \/ rowOf'[q].key \in 1..keys
    BY <2>1, <2>2, <2>3, Zenon DEF KeyInv, TypeOK
  <2> QED
    BY <2>2, <2>4, Zenon DEF KeyInv, Spent, history
<1>4. ASSUME NEW p \in Peers, PeerSends(p) PROVE KeyInv'
  <2>1. \A q \in Peers : rowOf'[q].key \in {0, rowOf[q].key}
    BY <1>4, PeerSendsEffect, Zenon
  <2> QED
    BY <1>4, <2>1, Zenon DEF PeerSends, history, KeyInv, Spent
<1>5. ASSUME NEW p \in Peers, Send(p) PROVE KeyInv'
  <2>1. \A q \in Peers : rowOf'[q].key = rowOf[q].key
    BY <1>5, SendEffect, Zenon
  <2> QED
    BY <1>5, <2>1, Zenon DEF Send, history, KeyInv, Spent
<1>6. ASSUME NEW p \in Peers, Reinstall(p) PROVE KeyInv'
  <2>1. \A q \in Peers : rowOf'[q].key \in {0, rowOf[q].key}
    BY <1>6, EmptyRow, Zenon DEF Reinstall, TypeOK
  <2> QED
    BY <1>6, <2>1, Zenon DEF Reinstall, history, KeyInv, Spent
<1>7. ASSUME NEW e \in mail, NEW c \in Peers, Accepts(e, c) PROVE KeyInv'
  <2> DEFINE h == [pc |-> "account", peer |-> c, sess |-> e.sess, account |-> account']
  <2>1. /\ account' = account \ {e.sess.key} /\ e.from \in Peers
        /\ saving' = saving \cup {h} /\ h.account = account'
        /\ taken' = taken \cup {<<e.from, e.sess.key>>}
        /\ UNCHANGED <<pickle, keys, code, rowOf, overtaken>>
    BY <1>7, Zenon DEF Accepts, peerVars, TypeOK, Blob
  <2> HIDE DEF h
  <2>2. Spent(e.sess.key)' /\ \A k : Spent(k) => Spent(k)'
    BY <2>1, Zenon DEF Spent
  <2>3. \A k \in 1..keys : k \in account' \/ Spent(k)'
    BY <2>1, <2>2, Zenon DEF KeyInv
  <2> QED
    BY <2>1, <2>2, <2>3, Zenon DEF KeyInv
<1>8. ASSUME NEW h \in saving, SaveAccount(h) PROVE KeyInv'
  <2> DEFINE g == [h EXCEPT !.pc = "session"]
  <2>1. g.pc = "session" /\ g.account = h.account
    BY Zenon DEF TypeOK, Handler
  <2>2. /\ pickle' = h.account /\ h.pc = "account"
        /\ saving' = (saving \ {h}) \cup {g}
        /\ UNCHANGED <<account, keys, code, rowOf, history>>
    BY <1>8, Zenon DEF SaveAccount, peerVars
  <2> HIDE DEF g
  <2> QED
    BY <2>1, <2>2, Zenon DEF KeyInv, Spent, history
<1>9. CASE /\ UNCHANGED <<account, pickle, keys, code, rowOf, history>>
           /\ saving' \subseteq saving
  BY <1>9, Zenon DEF KeyInv, Spent, history
<1> QED
  BY <1>1, <1>2, <1>3, <1>4, <1>5, <1>6, <1>7, <1>8, <1>9, Zenon
  DEF Next, PeerCode, add_contact, Decrypts, Unattributed, SaveSession, vars, peerVars

\* Every session, stored or on its way to be, is one of its contact.
SessionInv ==
  /\ SessionIsContacts
  /\ \A p \in Peers : rowOf[p].sess = NoSession \/ rowOf[p].sess.peer = p
  /\ \A e \in mail : e.sess.peer = e.from
  /\ \A h \in saving : h.sess.peer = h.peer

\* A session is made with the contact, or found by trying and compared with the
\* account the contact's row names.
LEMMA SessionStep ==
  ASSUME TypeOK, SessionInv, [Next]_vars
  PROVE  SessionInv'
<1> USE DEF SessionInv, SessionIsContacts
<1>1. ASSUME NEW p \in Peers, add_contact(p) PROVE SessionInv'
  <2>1. PICK s \in Secret, f \in BOOLEAN :
          row' = [row EXCEPT ![p] = Upserted(row[p], p, s, life[p], f)]
    BY <1>1, SecretType, Zenon DEF add_contact, TypeOK
  <2>2. Upserted(row[p], p, s, life[p], f).sess = row[p].sess
    BY UpsertedRow DEF TypeOK
  <2>3. \A q \in Peers : row'[q].sess = row[q].sess
    BY <2>1, <2>2, Zenon DEF TypeOK
  <2> QED
    BY <1>1, <2>3, Zenon DEF add_contact, peerVars
<1>2. ASSUME NEW p \in Peers, PeerAdds(p) PROVE SessionInv'
  <2>1. PICK s \in Secret :
          rowOf' = [rowOf EXCEPT ![p] = Upserted(rowOf[p], p, s, code.key, FALSE)]
    BY <1>2, SecretType, Zenon DEF PeerAdds, TypeOK
  <2>2. Upserted(rowOf[p], p, s, code.key, FALSE).sess = rowOf[p].sess
    <3>1. rowOf[p] \in Row
      BY Zenon DEF TypeOK
    <3> QED
      BY <3>1, Zenon DEF Upserted, Row
  <2>3. \A q \in Peers : rowOf'[q].sess = rowOf[q].sess
    BY <2>1, <2>2, Zenon DEF TypeOK
  <2> QED
    BY <1>2, <2>3, Zenon DEF PeerAdds
<1>3. ASSUME NEW p \in Peers, PeerSends(p) PROVE SessionInv'
  <2>1. UNCHANGED <<row, saving>>
    BY <1>3, Zenon DEF PeerSends
  <2>2. \A q \in Peers : q # p => rowOf'[q] = rowOf[q]
    BY <1>3, PeerSendsEffect, Zenon
  <2>3. rowOf'[p].sess = rowOf[p].sess \/ rowOf'[p].sess.peer = p
    BY <1>3, PeerSendsEffect, Zenon
  <2>4. \A e \in mail' : \/ e \in mail
                         \/ /\ e.from = p
                            /\ \/ e.sess = rowOf[p].sess /\ rowOf[p].sess # NoSession
                               \/ e.sess.peer = p
    BY <1>3, PeerSendsEffect, Zenon
  <2>5. \A e \in mail' : e.sess.peer = e.from
    BY <2>4, Zenon
  <2>6. \A q \in Peers : rowOf'[q].sess = NoSession \/ rowOf'[q].sess.peer = q
    BY <2>2, <2>3
  <2> QED
    BY <2>1, <2>5, <2>6, Zenon
<1>4. ASSUME NEW p \in Peers, Send(p) PROVE SessionInv'
  <2>1. UNCHANGED <<mail, saving>>
    BY <1>4, Zenon DEF Send
  <2>2. \A q \in Peers : q # p => row'[q] = row[q] /\ rowOf'[q] = rowOf[q]
    BY <1>4, SendEffect, Zenon
  <2>3. row'[p].sess = row[p].sess \/ row'[p].sess.peer = p
    BY <1>4, SendEffect, Zenon
  <2>4. rowOf'[p].sess = rowOf[p].sess \/ rowOf'[p].sess.peer = p
    BY <1>4, SendEffect, Zenon
  <2> QED
    BY <2>1, <2>2, <2>3, <2>4
<1>5. ASSUME NEW p \in Peers, Reinstall(p) PROVE SessionInv'
  BY <1>5, EmptyRow, Zenon DEF Reinstall, TypeOK
<1>6. ASSUME NEW e \in mail, NEW c \in Peers, Accepts(e, c) PROVE SessionInv'
  <2> DEFINE h == [pc |-> "account", peer |-> c, sess |-> e.sess, account |-> account']
  <2>1. c = e.from /\ mail' \subseteq mail /\ saving' = saving \cup {h}
    BY <1>6, Zenon DEF Accepts, MadeBy
  <2>2. h.sess = e.sess /\ h.peer = c
    BY Zenon
  <2>3. UNCHANGED <<row, rowOf>>
    BY <1>6, Zenon DEF Accepts, peerVars
  <2> HIDE DEF h
  <2> QED
    BY <2>1, <2>2, <2>3, Zenon
<1>7. ASSUME NEW h \in saving, SaveAccount(h) PROVE SessionInv'
  <2> DEFINE g == [h EXCEPT !.pc = "session"]
  <2>1. g.sess = h.sess /\ g.peer = h.peer
    BY Zenon DEF TypeOK, Handler
  <2>2. saving' \subseteq saving \cup {g} /\ UNCHANGED <<row, rowOf, mail>>
    BY <1>7, Zenon DEF SaveAccount, peerVars
  <2> HIDE DEF g
  <2> QED
    BY <2>1, <2>2, Zenon
<1>8. ASSUME NEW h \in saving, SaveSession(h) PROVE SessionInv'
  BY <1>8, SaveSessionEffect DEF SaveSession, peerVars
<1>9. CASE UNCHANGED <<row, rowOf>> /\ mail' \subseteq mail /\ saving' \subseteq saving
  BY <1>9, Zenon
<1> QED
  BY <1>1, <1>2, <1>3, <1>4, <1>5, <1>6, <1>7, <1>8, <1>9, Zenon
  DEF Next, pairing_payload, Kill, PeerCode, Decrypts, Unattributed, vars, peerVars

\* The invariants together, for every behaviour.
LEMMA PairingInvariant == Spec => [](TypeOK /\ KeyInv /\ SessionInv)
<1>1. Init => TypeOK /\ KeyInv /\ SessionInv
  <2> SUFFICES ASSUME Init PROVE TypeOK /\ KeyInv /\ SessionInv
    BY Zenon
  <2>1. \A p \in Peers : row[p] = NoRow /\ rowOf[p] = NoRow
    BY Zenon DEF Init
  <2>2. TypeOK
    BY EmptyRow, Zenon DEF Init, TypeOK, NoCode
  <2>3. KeyInv
    BY <2>1, EmptyRow DEF Init, KeyInv
  <2>4. SessionInv
    BY <2>1, EmptyRow, Zenon DEF Init, SessionInv, SessionIsContacts
  <2> QED
    BY <2>2, <2>3, <2>4, Zenon
<1>2. (TypeOK /\ KeyInv /\ SessionInv) /\ [Next]_vars
        => (TypeOK /\ KeyInv /\ SessionInv)'
  BY TypeStep, KeyStep, SessionStep, Zenon
<1> QED
  BY <1>1, <1>2, PTL DEF Spec

\* A one-time key that a contact still holds is accepted by the account in
\* memory, was used by a contact shown the same key, or was generated while a
\* handler of attribute_and_store was about to save an older account.
THEOREM HeldKeysAccounted == Spec => []HeldKeyUsable
<1>1. KeyInv => HeldKeyUsable
  BY Zenon DEF KeyInv, HeldKeyUsable, Spent
<1> QED
  BY <1>1, PairingInvariant, PTL

\* The session stored for a contact is one that contact takes part in, although
\* attribute_and_store finds the sender of a blob by trying.
THEOREM SessionsOfContacts == Spec => []SessionIsContacts
<1>1. SessionInv => SessionIsContacts
  BY Zenon DEF SessionInv
<1> QED
  BY <1>1, PairingInvariant, PTL
-----------------------------------------------------------------------------
\* The secret of a pairing, from the two codes.
SecretOf(p, codes) == {Nonce(codes[1]), NonceOf(p, codes[2])}

\* What the device's row r, p's row o, p's latest code c, the present installation
\* l of its app and the open slots have to do with each other.  Both ends derive
\* the same secret from the same codes; a row made with an earlier installation
\* has an older code than any that p has used since; and with the present one,
\* the slots p has not come to are open.
Agree(p, r, o, c, l, open) ==
  /\ c > 0 /\ r.life <= l /\ o.codes[2] <= c
  /\ o.codes # NoCodes => o.secret = SecretOf(p, o.codes)
  /\ r.full => r.secret = SecretOf(p, r.codes) /\ r.codes[2] \in 1..c
  /\ r.full /\ r.life < l =>
       r.codes[2] < c /\ (o.codes = NoCodes \/ r.codes[2] < o.codes[2])
  /\ r.full /\ r.life = l =>
       \A n \in Nat : o.n <= n /\ n < Batch => <<r.secret, n>> \in open

SlotInv == \A p \in Peers : Agree(p, row[p], rowOf[p], codeOf[p], life[p], slots)

\* What pairing and slots depend on of a row.
Same(a, b) ==
  /\ a.life = b.life /\ a.codes = b.codes /\ a.secret = b.secret
  /\ a.n = b.n /\ a.full = b.full

\* Sessions and pending keys are no part of it.
LEMMA SessionsAside ==
  ASSUME NEW r \in Row, NEW s, NEW k
  PROVE  Same(WithSession(r, s), r) /\ Same(WithBoth(r, s, k), r)
  BY Zenon DEF Row, Same, WithSession, WithBoth

\* So neither sending nor saving a session concerns it.
LEMMA SendAside ==
  ASSUME TypeOK, NEW p \in Peers, Send(p)
  PROVE  \A q \in Peers : Same(row'[q], row[q]) /\ Same(rowOf'[q], rowOf[q])
<1>0. row \in [Peers -> Row] /\ rowOf \in [Peers -> Row]
  BY Zenon DEF TypeOK
<1> DEFINE s == SessionFor(p, row[p], row[p].key, 0)
           k == IF row[p].sess = NoSession THEN 0 ELSE row[p].key
<1>a. PICK t \in {s, row[p].sess} : row' = [row EXCEPT ![p].sess = t, ![p].key = k]
  BY Zenon DEF Send
<1>b. rowOf' = rowOf \/ rowOf' = [rowOf EXCEPT ![p].sess = s]
  BY Zenon DEF Send
<1> HIDE DEF s, k
<1> DEFINE u == WithBoth(row[p], t, k)
           v == WithSession(rowOf[p], s)
<1>2. row' = [row EXCEPT ![p] = u] /\ (rowOf' = rowOf \/ rowOf' = [rowOf EXCEPT ![p] = v])
  BY <1>0, <1>a, <1>b, Zenon DEF WithBoth, WithSession
<1>3. Same(u, row[p]) /\ Same(v, rowOf[p])
  BY <1>0, SessionsAside, Zenon
<1>4. \A r : Same(r, r)
  BY Zenon DEF Same
<1> HIDE DEF u, v
<1>5. \A q \in Peers : /\ row'[q] = row[q] \/ (q = p /\ row'[q] = u)
                       /\ rowOf'[q] = rowOf[q] \/ (q = p /\ rowOf'[q] = v)
  BY <1>0, <1>2, Zenon
<1> QED
  BY <1>3, <1>4, <1>5, Zenon

LEMMA SaveAside ==
  ASSUME TypeOK, NEW h \in saving, SaveSession(h)
  PROVE  \A q \in Peers : Same(row'[q], row[q])
<1>0. row \in [Peers -> Row]
  BY Zenon DEF TypeOK
<1> DEFINE u == WithSession(row[h.peer], h.sess)
<1>1. h.peer \in Peers /\ Same(u, row[h.peer])
  BY <1>0, SessionsAside, Zenon DEF TypeOK, Handler
<1>2. row' = [row EXCEPT ![h.peer] = u]
  BY Zenon DEF SaveSession, WithSession
<1>3. \A r : Same(r, r)
  BY Zenon DEF Same
<1> HIDE DEF u
<1>4. \A q \in Peers : row'[q] = row[q] \/ (q = h.peer /\ row'[q] = u)
  BY <1>0, <1>2, Zenon
<1> QED
  BY <1>1, <1>3, <1>4, Zenon

\* Two peers never share a secret: each has a nonce of its own in it.
LEMMA SecretsApart ==
  ASSUME NEW p \in Peers, NEW q \in Peers, p # q, NEW c, NEW d
  PROVE  SecretOf(p, c) # SecretOf(q, d)
<1>1. NonceOf(p, c[2]) # Nonce(d[1]) /\ NonceOf(p, c[2]) # NonceOf(q, d[2])
  BY PairingAssumption, Zenon DEF NonceOf, Nonce, PairingAssumption
<1> QED
  BY <1>1, Zenon DEF SecretOf

\* Numbers of the two rows and the counters.
Numbers(r, o, c, l) ==
  /\ r.life \in Nat /\ r.codes[2] \in Nat /\ o.codes[2] \in Nat /\ o.n \in Nat
  /\ c \in Nat /\ l \in Nat

\* A step that is not about p's pairing, except that p may ask for a new code.
LEMMA AgreeKept ==
  ASSUME NEW p, NEW r, NEW o, NEW c, NEW l, NEW open, Numbers(r, o, c, l),
         Agree(p, r, o, c, l, open),
         NEW u, NEW v, NEW d \in Nat, NEW left, Same(u, r), Same(v, o), c <= d,
         r.full => \A n \in Nat : <<r.secret, n>> \in open => <<r.secret, n>> \in left
  PROVE  Agree(p, u, v, d, l, left)
<1>1. d > 0 /\ u.life <= l /\ v.codes[2] <= d
  BY DEF Agree, Same, Numbers
<1>2. v.codes # NoCodes => v.secret = SecretOf(p, v.codes)
  BY Zenon DEF Agree, Same
<1>3. u.full => u.secret = SecretOf(p, u.codes) /\ u.codes[2] \in 1..d
  BY DEF Agree, Same, Numbers
<1>4. u.full /\ u.life < l =>
        u.codes[2] < d /\ (v.codes = NoCodes \/ u.codes[2] < v.codes[2])
  BY DEF Agree, Same, Numbers
<1>5. u.full /\ u.life = l =>
        \A n \in Nat : v.n <= n /\ n < Batch => <<u.secret, n>> \in left
  BY Zenon DEF Agree, Same
<1> QED
  BY <1>1, <1>2, <1>3, <1>4, <1>5, Zenon DEF Agree

\* The device renews its row and registers slots.
LEMMA AgreeAdded ==
  ASSUME NEW p, NEW r, NEW o, NEW c, NEW l, NEW open, Numbers(r, o, c, l),
         Agree(p, r, o, c, l, open),
         NEW u, NEW left, u.life = l, u.codes[2] = c, u.secret = SecretOf(p, u.codes),
         u.full => \A n \in Nat : n < Batch => <<u.secret, n>> \in left
  PROVE  Agree(p, u, o, c, l, left)
<1>1. /\ c > 0 /\ l <= l /\ ~(l < l) /\ o.codes[2] <= c /\ c \in 1..c
      /\ o.codes # NoCodes => o.secret = SecretOf(p, o.codes)
  BY DEF Agree, Numbers
<1> QED
  BY <1>1, Zenon DEF Agree

\* p renews its row; the number it has come to stays.
LEMMA AgreeRead ==
  ASSUME NEW p, NEW r, NEW o, NEW c, NEW l, NEW open, Numbers(r, o, c, l),
         Agree(p, r, o, c, l, open),
         NEW v, v.codes[2] = c, v.secret = SecretOf(p, v.codes), v.n = o.n
  PROVE  Agree(p, r, v, c, l, open)
<1>1. c <= c
  BY DEF Numbers
<1> QED
  BY <1>1, Zenon DEF Agree

\* p writes with the number it has come to.
LEMMA AgreeWritten ==
  ASSUME NEW p, NEW r, NEW o, NEW c, NEW l, NEW open, Numbers(r, o, c, l),
         Agree(p, r, o, c, l, open),
         NEW v, v.codes = o.codes, v.secret = o.secret, v.n = o.n + 1
  PROVE  Agree(p, r, v, c, l, open \ {<<o.secret, o.n>>})
<1>1. \A n \in Nat : v.n <= n => n # o.n /\ o.n <= n
  BY DEF Numbers
<1>2. r.full /\ r.life = l =>
        \A n \in Nat : v.n <= n /\ n < Batch => <<r.secret, n>> \in open \ {<<o.secret, o.n>>}
  BY <1>1, Zenon DEF Agree
<1> QED
  BY <1>2, Zenon DEF Agree

\* p starts over.
LEMMA AgreeAnew ==
  ASSUME NEW p, NEW r, NEW o, NEW c, NEW l, NEW open, Numbers(r, o, c, l),
         Agree(p, r, o, c, l, open)
  PROVE  Agree(p, r, NoRow, c + 1, l + 1, open)
<1>1. NoRow.codes = NoCodes /\ NoRow.codes[2] = 0
  BY Zenon DEF NoRow, NoCodes
<1>2. /\ c > 0 /\ r.life <= l
      /\ r.full => r.secret = SecretOf(p, r.codes) /\ r.codes[2] \in 1..c
  BY Zenon DEF Agree
<1>3. c + 1 > 0 /\ r.life <= l + 1 /\ r.life # l + 1 /\ 0 <= c + 1
  BY <1>2 DEF Numbers
<1>4. r.full => r.codes[2] \in 1..(c + 1) /\ r.codes[2] < c + 1
  BY <1>2 DEF Numbers
<1> QED
  BY <1>1, <1>2, <1>3, <1>4, Zenon DEF Agree

\* A write uses up the slot the peer comes to, and no other pair's.
LEMMA SlotStep ==
  ASSUME TypeOK, SlotInv, [Next]_vars
  PROVE  SlotInv'
<1>0. /\ row \in [Peers -> Row] /\ rowOf \in [Peers -> Row]
      /\ codeOf \in [Peers -> Nat] /\ life \in [Peers -> Nat]
  BY Zenon DEF TypeOK
<1>r. \A r : Same(r, r)
  BY Zenon DEF Same
<1>n. ASSUME NEW p \in Peers
      PROVE  /\ Numbers(row[p], rowOf[p], codeOf[p], life[p])
             /\ codeOf[p] \in Nat /\ codeOf[p] <= codeOf[p]
  <2>1. row[p] \in Row /\ rowOf[p] \in Row /\ codeOf[p] \in Nat /\ life[p] \in Nat
    BY <1>0, Zenon
  <2> QED
    BY <2>1 DEF Row, Numbers
<1>i. \A p \in Peers : Agree(p, row[p], rowOf[p], codeOf[p], life[p], slots)
  BY Zenon DEF SlotInv
<1> SUFFICES \A p \in Peers : Agree(p, row'[p], rowOf'[p], codeOf'[p], life'[p], slots')
  BY Zenon DEF SlotInv, Agree, SecretOf, Nonce, NonceOf, NoCodes
<1> DEFINE AgreeAfter(q) == Agree(q, row'[q], rowOf'[q], codeOf'[q], life'[q], slots')
<1>1. ASSUME NEW q \in Peers, Same(row'[q], row[q]), Same(rowOf'[q], rowOf[q]),
             codeOf'[q] = codeOf[q], life'[q] = life[q],
             row[q].full => \A n \in Nat :
               <<row[q].secret, n>> \in slots => <<row[q].secret, n>> \in slots'
      PROVE  AgreeAfter(q)
  BY <1>i, <1>n, <1>1, AgreeKept, Zenon
<1>2. ASSUME NEW p \in Peers, PeerCode(p), NEW q \in Peers PROVE AgreeAfter(q)
  <2>1. /\ UNCHANGED <<row, rowOf, life, slots>>
        /\ codeOf' = [codeOf EXCEPT ![p] = codeOf[p] + 1]
    BY <1>2, Zenon DEF PeerCode
  <2>2. codeOf'[q] \in Nat /\ codeOf[q] <= codeOf'[q]
    BY <1>0, <2>1
  <2> QED
    BY <1>i, <1>n, <1>r, <2>1, <2>2, AgreeKept, Zenon
<1>3. ASSUME NEW p \in Peers, add_contact(p), NEW q \in Peers PROVE AgreeAfter(q)
  <2> DEFINE s == {Nonce(code.nonce), NonceOf(p, codeOf[p])}
  <2>1. PICK m \in 0..Batch :
          /\ row' = [row EXCEPT ![p] = Upserted(row[p], p, s, life[p], m = Batch)]
          /\ slots' = slots \cup {<<s, n>> : n \in 0..(m - 1)}
    <3>1. \E m \in IF fails < MaxFails THEN 0..Batch ELSE {Batch} :
            /\ row' = [row EXCEPT ![p] = Upserted(row[p], p, s, life[p], m = Batch)]
            /\ slots' = slots \cup {<<s, n>> : n \in 0..(m - 1)}
      BY <1>3, Zenon DEF add_contact, compute_pair_secret
    <3>2. (IF fails < MaxFails THEN 0..Batch ELSE {Batch}) \subseteq 0..Batch
      BY PairingAssumption DEF PairingAssumption
    <3> QED
      BY <3>1, <3>2, Zenon
  <2>2. UNCHANGED <<codeOf, rowOf, life>>
    BY <1>3, Zenon DEF add_contact, peerVars
  <2>s. s = {Nonce(code.nonce), NonceOf(p, codeOf[p])}
    BY Zenon
  <2> HIDE DEF s
  <2>a. PICK f \in BOOLEAN : f = (m = Batch)
    BY Zenon
  <2>u. PICK u : u = Upserted(row[p], p, s, life[p], f)
    BY Zenon
  <2>b. row' = [row EXCEPT ![p] = u]
    BY <2>1, <2>a, <2>u, Zenon
  <2>3. /\ u.life = life[p] /\ u.secret = s /\ u.full = f
        /\ u.codes[2] = codeOf[p] /\ SecretOf(p, u.codes) = s
    <3>1. row[p] \in Row
      BY <1>0, Zenon
    <3>2. /\ u.life = life[p] /\ u.secret = s /\ u.full = f
          /\ u.codes = <<code.nonce, codeOf[p]>>
      BY <2>u, <3>1, Zenon DEF Upserted, Row
    <3>3. u.codes[1] = code.nonce /\ u.codes[2] = codeOf[p]
      BY <3>2
    <3> QED
      BY <2>s, <3>2, <3>3, Zenon DEF SecretOf
  <2>4. row'[p] = u /\ \A x \in Peers : x # p => row'[x] = row[x]
    BY <1>0, <2>b, Zenon
  <2>5. m = Batch => \A n \in Nat : n < Batch => <<s, n>> \in slots'
    BY <2>1, PairingAssumption DEF PairingAssumption
  <2>6. CASE q = p
    <3>1. u.full => \A n \in Nat : n < Batch => <<u.secret, n>> \in slots'
      BY <2>3, <2>5, <2>a, Zenon
    <3>2. u.secret = SecretOf(p, u.codes)
      BY <2>3, Zenon
    <3>3. Agree(p, u, rowOf[p], codeOf[p], life[p], slots')
      <4>1. /\ Numbers(row[p], rowOf[p], codeOf[p], life[p])
            /\ Agree(p, row[p], rowOf[p], codeOf[p], life[p], slots)
        BY <1>i, <1>n, Zenon
      <4> QED
        BY <2>3, <3>1, <3>2, <4>1, AgreeAdded, Zenon
    <3> QED
      BY <2>2, <2>4, <2>6, <3>3, Zenon
  <2>7. CASE q # p
    BY <1>1, <1>r, <2>1, <2>2, <2>4, <2>7, Zenon
  <2> QED
    BY <2>6, <2>7, Zenon
<1>4. ASSUME NEW p \in Peers, PeerAdds(p), NEW q \in Peers PROVE AgreeAfter(q)
  <2>s. PICK s : s = {Nonce(code.nonce), NonceOf(p, codeOf[p])}
    BY Zenon
  <2>u. PICK u : u = Upserted(rowOf[p], p, s, code.key, FALSE)
    BY Zenon
  <2>1. rowOf' = [rowOf EXCEPT ![p] = u]
    <3>1. compute_pair_secret(NonceOf(p, codeOf[p]), Nonce(code.nonce)) = s
      BY <2>s, Zenon DEF compute_pair_secret
    <3> QED
      BY <1>4, <2>u, <3>1, Zenon DEF PeerAdds
  <2>2. UNCHANGED <<codeOf, row, life, slots>>
    BY <1>4, Zenon DEF PeerAdds
  <2>3. u.secret = SecretOf(p, u.codes) /\ u.codes[2] = codeOf[p] /\ u.n = rowOf[p].n
    <3>1. rowOf[p] \in Row
      BY <1>0, Zenon
    <3>2. u.secret = s /\ u.n = rowOf[p].n /\ u.codes = <<code.nonce, codeOf[p]>>
      BY <2>u, <3>1, Zenon DEF Upserted, Row
    <3>3. u.codes[1] = code.nonce /\ u.codes[2] = codeOf[p]
      BY <3>2
    <3> QED
      BY <2>s, <3>2, <3>3, Zenon DEF SecretOf
  <2>4. rowOf'[p] = u /\ \A x \in Peers : x # p => rowOf'[x] = rowOf[x]
    BY <1>0, <2>1, Zenon
  <2>5. CASE q = p
    <3>1. Agree(p, row[p], u, codeOf[p], life[p], slots)
      BY <1>i, <1>n, <2>3, AgreeRead, Zenon
    <3> QED
      BY <2>2, <2>4, <2>5, <3>1, Zenon
  <2>6. CASE q # p
    BY <1>1, <1>r, <2>2, <2>4, <2>6, Zenon
  <2> QED
    BY <2>5, <2>6, Zenon
<1>5. ASSUME NEW p \in Peers, PeerSends(p), NEW q \in Peers PROVE AgreeAfter(q)
  <2> DEFINE r == rowOf[p]
             sl == <<r.secret, r.n>>
             t == IF sl \in slots THEN SessionFor(p, r, life[p], r.key) ELSE r.sess
             k == IF r.sess = NoSession THEN 0 ELSE r.key
             u == Advanced(r, t, k)
  <2>1. /\ rowOf' = [rowOf EXCEPT ![p] = u] /\ slots' = slots \ {sl}
        /\ r.codes # NoCodes /\ UNCHANGED <<codeOf, row, life>>
    BY <1>5, Zenon DEF PeerSends, Advanced
  <2> HIDE DEF t, k
  <2>2. u.codes = r.codes /\ u.secret = r.secret /\ u.n = r.n + 1
    BY <1>0, Zenon DEF Advanced, Row
  <2> HIDE DEF u
  <2>3. rowOf'[p] = u /\ \A x \in Peers : x # p => rowOf'[x] = rowOf[x]
    BY <1>0, <2>1, Zenon
  <2>4. CASE q = p
    <3>1. Agree(p, row[p], u, codeOf[p], life[p], slots \ {sl})
      BY <1>i, <1>n, <2>2, AgreeWritten, Zenon
    <3> QED
      BY <2>1, <2>3, <2>4, <3>1, Zenon
  <2>5. CASE q # p
    <3>1. r.secret = SecretOf(p, r.codes)
      BY <1>i, <2>1, Zenon DEF Agree
    <3>2. row[q].full => row[q].secret = SecretOf(q, row[q].codes)
      BY <1>i, Zenon DEF Agree
    <3>3. row[q].full => row[q].secret # r.secret
      BY <2>5, <3>1, <3>2, SecretsApart, Zenon
    <3> QED
      BY <1>1, <1>r, <2>1, <2>3, <2>5, <3>3, Zenon
  <2> QED
    BY <2>4, <2>5, Zenon
<1>6. ASSUME NEW p \in Peers, Reinstall(p), NEW q \in Peers PROVE AgreeAfter(q)
  <2>1. /\ life' = [life EXCEPT ![p] = life[p] + 1]
        /\ rowOf' = [rowOf EXCEPT ![p] = NoRow]
        /\ codeOf' = [codeOf EXCEPT ![p] = codeOf[p] + 1]
        /\ UNCHANGED <<row, slots>>
    BY <1>6, Zenon DEF Reinstall
  <2>2. /\ life'[p] = life[p] + 1 /\ rowOf'[p] = NoRow /\ codeOf'[p] = codeOf[p] + 1
        /\ \A x \in Peers : x # p => /\ life'[x] = life[x] /\ rowOf'[x] = rowOf[x]
                                     /\ codeOf'[x] = codeOf[x]
    BY <1>0, <2>1, Zenon
  <2>3. CASE q = p
    <3>1. Agree(p, row[p], NoRow, codeOf[p] + 1, life[p] + 1, slots)
      BY <1>i, <1>n, AgreeAnew, Zenon
    <3> QED
      BY <2>1, <2>2, <2>3, <3>1, Zenon
  <2>4. CASE q # p
    BY <1>1, <1>r, <2>1, <2>2, <2>4, Zenon
  <2> QED
    BY <2>3, <2>4, Zenon
<1>7. ASSUME NEW p \in Peers, Send(p), NEW q \in Peers PROVE AgreeAfter(q)
  <2>1. UNCHANGED <<codeOf, life, slots>>
    BY <1>7, Zenon DEF Send
  <2> QED
    BY <1>1, <1>7, <2>1, SendAside, Zenon
<1>8. ASSUME NEW h \in saving, SaveSession(h), NEW q \in Peers PROVE AgreeAfter(q)
  <2>1. UNCHANGED <<rowOf, codeOf, life, slots>>
    BY <1>8, Zenon DEF SaveSession, peerVars
  <2> QED
    BY <1>1, <1>8, <1>r, <2>1, SaveAside, Zenon
<1>9. ASSUME UNCHANGED <<row, rowOf, codeOf, life, slots>>, NEW q \in Peers
      PROVE  AgreeAfter(q)
  BY <1>1, <1>9, <1>r, Zenon
<1> HIDE DEF AgreeAfter
<1>10. \A q \in Peers : AgreeAfter(q)
  BY <1>2, <1>3, <1>4, <1>5, <1>6, <1>7, <1>8, <1>9, Zenon
  DEF Next, pairing_payload, Kill, Decrypts, Unattributed, Accepts, SaveAccount, vars,
      peerVars
<1> QED
  BY <1>10, Zenon DEF AgreeAfter

\* Once both ends have completed from the same two codes, and every slot was
\* registered, the next number p writes with is registered until the batch is
\* used up, also when either end has paired before or p has started over.
THEOREM SlotsReady == Spec => []SlotReady
<1>1. Init => SlotInv
  <2> SUFFICES ASSUME Init, NEW p \in Peers
               PROVE  Agree(p, row[p], rowOf[p], codeOf[p], life[p], slots)
    BY Zenon DEF SlotInv
  <2>1. row[p] = NoRow /\ rowOf[p] = NoRow /\ codeOf[p] = 1 /\ life[p] = 1
    BY Zenon DEF Init
  <2> QED
    BY <2>1 DEF Agree, NoRow, NoCodes
<1>2. TypeOK /\ SlotInv /\ [Next]_vars => SlotInv'
  BY SlotStep, Zenon
<1>3. TypeOK /\ SlotInv => SlotReady
  <2> SUFFICES ASSUME TypeOK, SlotInv, NEW p \in Peers, row[p].full,
                      row[p].codes = rowOf[p].codes, rowOf[p].n < Batch
               PROVE  <<rowOf[p].secret, rowOf[p].n>> \in slots
    BY Zenon DEF SlotReady
  <2>1. Agree(p, row[p], rowOf[p], codeOf[p], life[p], slots)
    BY Zenon DEF SlotInv
  <2>2. row[p] \in Row /\ rowOf[p] \in Row /\ life[p] \in Nat
    BY Zenon DEF TypeOK
  <2>3. rowOf[p].n \in Nat /\ row[p].life \in Nat /\ row[p].codes[2] \in Nat
    BY <2>2, Zenon DEF Row
  <2>4. /\ row[p].codes[2] > 0 /\ row[p].life <= life[p]
        /\ row[p].secret = SecretOf(p, row[p].codes)
    BY <2>1 DEF Agree
  <2>5. rowOf[p].codes # NoCodes
    BY <2>4 DEF NoCodes
  <2>6. rowOf[p].secret = row[p].secret
    BY <2>1, <2>4, <2>5, Zenon DEF Agree
  <2>7. row[p].life = life[p]
    BY <2>1, <2>2, <2>3, <2>4, <2>5 DEF Agree
  <2>8. \A n \in Nat : rowOf[p].n <= n /\ n < Batch => <<row[p].secret, n>> \in slots
    BY <2>1, <2>7, Zenon DEF Agree
  <2> QED
    BY <2>3, <2>6, <2>8
<1> QED
  BY <1>1, <1>2, <1>3, PairingInvariant, PTL DEF Spec
=============================================================================
