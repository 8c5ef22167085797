------------------------------ MODULE Session -------------------------------
(***************************************************************************)
(* Two paired clients and the Olm session between them: deliver on the     *)
(* sending side, DirectHandler and attribute_and_store on the receiving    *)
(* side (client.rs), over the account and session wrappers of pm-crypto.   *)
(*                                                                         *)
(* deliver works on a copy of the stored session under send_lock and saves *)
(* it when the call has succeeded; attribute_and_store works on another    *)
(* copy and takes no lock.  Both are delivered to directly, and a client   *)
(* in HasServer falls back on the retry queue of its own Server.           *)
(***************************************************************************)
EXTENDS Ratchet

CONSTANTS
  Peers,        \* the two clients
  Talkers,      \* those whose user sends messages
  HasServer,    \* those with an own Server to fall back on
  MaxChats,     \* bound on the messages a user sends
  MaxPairings,  \* bound on pairings, the first included
  MaxFaults,    \* bound on lost or timed-out calls, hand-overs and overlong texts
  MaxRedials,   \* bound on dials of the retry queues
  MaxKills      \* bound on clients being killed and started again

ASSUME SessionAssumption ==
  /\ \E a, b \in Peers : a # b /\ Peers = {a, b}
  /\ MaxChats \in Nat /\ MaxPairings \in Nat \ {0}

VARIABLES
  pending,    \* pending_otk: the peer's one-time key still to be used
  session,    \* the stored session pickle
  account,    \* private one-time keys of the account in memory
  stored,     \* the same in the stored account pickle
  sending,    \* the deliver call holding send_lock
  owed,       \* receipts spawned but not started
  handling,   \* attribute_and_store calls in progress
  wire,       \* envelopes on their way
  queued,     \* envelopes in the retry queues
  inbox,      \* ids of the incoming messages stored, by both
  sent,       \* ids of the outgoing messages stored, by both
  delivered,  \* those among them with status Delivered
  chats, pairings, faults, redials, kills,
  fresh,      \* ratchet keys generated so far
  openers     \* history: those who have sent from a pending key

store  == <<pending, session, stored, inbox, sent, delivered>>
bounds == <<chats, pairings, faults, redials, kills>>
keys   == <<fresh, openers>>
vars   == <<store, account, sending, owed, handling, wire, queued, bounds, keys>>

Other(p) == CHOOSE q \in Peers : q # p
-----------------------------------------------------------------------------
Chat(p, n)  == [from |-> p, n |-> n, receipt |-> FALSE]
Receipt(id) == [id EXCEPT !.receipt = TRUE]

\* One-time keys are numbered by the pairing that generated them.
Encrypted(s, p, id) ==
  [to |-> Other(p), id |-> id, chain |-> s.chain, idx |-> s.idx, otk |-> HeaderKey(s)]

\* No session row has been stored yet; no call is being made.
NoSession == [Outbound(0, NoKey) EXCEPT !.chain = <<>>, !.mine = FALSE]

Idle == [pc |-> "idle", sess |-> NoSession,
         msg |-> [to |-> "none", id |-> Chat("none", 0), chain |-> <<>>, idx |-> 0,
                  otk |-> NoKey]]

Ids == [from : Peers, n : 1..MaxChats, receipt : BOOLEAN]

SessionOK(s) ==
  /\ s.chain \in Seq(1..fresh) /\ s.chain # <<>>
  /\ s.mine \in BOOLEAN /\ s.idx \in Nat
  /\ \A c \in s.known : c \in Seq(1..fresh)
  /\ s.known = {} => s.mine /\ s.otk # NoKey

TypeOK ==
  /\ pending \in [Peers -> 0..MaxPairings]
  /\ \A p \in Peers : session[p] = NoSession \/ SessionOK(session[p])
  /\ account \in [Peers -> SUBSET (1..MaxPairings)]
  /\ stored \in [Peers -> SUBSET (1..MaxPairings)]
  /\ \A p \in Peers : /\ sending[p].pc \in {"idle", "calling", "ok", "error"}
                      /\ sending[p].pc # "idle" => SessionOK(sending[p].sess)
  /\ owed \in [Peers -> SUBSET Ids]
  /\ \A h \in handling : /\ h.pc \in {"account", "session", "apply"}
                         /\ SessionOK(h.sess)
  /\ \A m \in wire \cup queued : m.id \in Ids /\ m.to \in Peers
  /\ inbox \subseteq Ids
  /\ delivered \subseteq sent /\ sent \subseteq Ids

\* Pairing has just been completed on both sides.
Init ==
  /\ pending = [p \in Peers |-> 1]
  /\ session = [p \in Peers |-> NoSession]
  /\ account = [p \in Peers |-> {1}]
  /\ stored = [p \in Peers |-> {1}]
  /\ sending = [p \in Peers |-> Idle]
  /\ owed = [p \in Peers |-> {}]
  /\ handling = {} /\ wire = {} /\ queued = {}
  /\ inbox = {} /\ sent = {} /\ delivered = {}
  /\ chats = [p \in Peers |-> 0]
  /\ pairings = 1 /\ faults = 0 /\ redials = 0 /\ kills = 0
  /\ fresh = 0 /\ openers = {}
-----------------------------------------------------------------------------
\* Encrypt in memory, send, and wait for the answer.
Call(p, id, s) ==
  /\ sending' = [sending EXCEPT ![p] =
       [pc |-> "calling", sess |-> Advanced(s), msg |-> Encrypted(s, p, id)]]
  /\ wire' = wire \cup {Encrypted(s, p, id)}
  /\ fresh' = IF fresh + 1 = s.chain[Len(s.chain)] THEN fresh + 1 ELSE fresh
  /\ openers' = openers \cup (IF session[p] = NoSession THEN {p} ELSE {})

Spent(p) == [pending EXCEPT ![p] = NoKey]

\* Mutants: the pending key is cleared with the session's first save only; it
\* is used although there is a session.
Deliver_KeepsPending(p, id) ==
  /\ session[p] # NoSession \/ pending[p] # NoKey
  /\ Call(p, id, IF session[p] # NoSession THEN Turned(session[p], fresh + 1)
                                           ELSE Outbound(fresh + 1, pending[p]))
  /\ pending' = IF session[p] # NoSession THEN Spent(p) ELSE pending

Deliver_Eager(p, id) ==
  \/ /\ pending[p] # NoKey
     /\ Call(p, id, Outbound(fresh + 1, pending[p]))
     /\ pending' = Spent(p)
  \/ /\ pending[p] = NoKey /\ session[p] # NoSession
     /\ Call(p, id, Turned(session[p], fresh + 1))
     /\ UNCHANGED pending

\* deliver up to its answer: load the session, or make one from the pending
\* key, which is cleared at once.  Without either there is nothing to send with.
Deliver(p, id) ==
  \/ /\ session[p] # NoSession
     /\ Call(p, id, Turned(session[p], fresh + 1))
     /\ UNCHANGED pending
  \/ /\ session[p] = NoSession /\ pending[p] # NoKey
     /\ Call(p, id, Outbound(fresh + 1, pending[p]))
     /\ pending' = Spent(p)

\* The user sends a message.
send(p) ==
  /\ sending[p].pc = "idle"
  /\ p \in Talkers /\ chats[p] < MaxChats
  /\ Deliver(p, Chat(p, chats[p] + 1))
  /\ chats' = [chats EXCEPT ![p] = @ + 1]
  /\ UNCHANGED <<session, stored, inbox, sent, delivered, account, owed, handling, queued,
                 pairings, faults, redials, kills>>

\* The user's text does not fit the largest padding bucket: to_padded_bytes fails
\* after a pending key was cleared, and nothing is saved.
TooLong(p) ==
  /\ sending[p].pc = "idle"
  /\ p \in Talkers /\ chats[p] < MaxChats /\ faults < MaxFaults
  /\ session[p] # NoSession \/ pending[p] # NoKey
  /\ pending' = IF session[p] = NoSession THEN Spent(p) ELSE pending
  /\ chats' = [chats EXCEPT ![p] = @ + 1]
  /\ faults' = faults + 1
  /\ UNCHANGED <<session, stored, inbox, sent, delivered, account, sending, owed, handling,
                 wire, queued, pairings, redials, kills, keys>>

\* A spawned receipt gets the lock.
send_receipt(p) ==
  /\ sending[p].pc = "idle"
  /\ \E id \in owed[p] :
       /\ Deliver(p, Receipt(id))
       /\ owed' = [owed EXCEPT ![p] = @ \ {id}]
  /\ UNCHANGED <<session, stored, inbox, sent, delivered, account, handling, queued, bounds>>

\* The outgoing row of a chat; receipts have none.
Row(p) == {sending[p].msg.id} \ {id \in Ids : id.receipt}

\* Mutant: the session is not saved.
CallOk_NotSaved(p) ==
  /\ sending[p].pc = "ok"
  /\ sent' = sent \cup Row(p)
  /\ delivered' = delivered \cup Row(p)
  /\ sending' = [sending EXCEPT ![p] = Idle]
  /\ UNCHANGED <<pending, session, stored, inbox, account, owed, handling, wire, queued,
                 bounds, keys>>

\* The call was answered Ok: save the session, insert the row as Delivered.
CallOk(p) ==
  /\ sending[p].pc = "ok"
  /\ session' = [session EXCEPT ![p] = sending[p].sess]
  /\ sent' = sent \cup Row(p)
  /\ delivered' = delivered \cup Row(p)
  /\ sending' = [sending EXCEPT ![p] = Idle]
  /\ UNCHANGED <<pending, stored, inbox, account, owed, handling, wire, queued, bounds,
                 keys>>

\* The call was refused, or else it times out: its envelope is lost or late, or
\* the answer is.
Faults(p) == faults + (IF sending[p].pc = "error" THEN 0 ELSE 1)

\* There is nothing to fall back on, or scheduling the retry fails as well:
\* deliver returns the error and saves nothing.
CallFails(p) ==
  /\ sending[p].pc # "idle"
  /\ faults' = Faults(p) + (IF p \in HasServer THEN 1 ELSE 0)
  /\ faults' <= MaxFaults
  /\ sending' = [sending EXCEPT ![p] = Idle]
  /\ UNCHANGED <<store, account, owed, handling, wire, queued, chats, pairings, redials,
                 kills, keys>>

\* The own Server takes over: the session is saved as if the call were Ok, and
\* the row inserted as Sent.
schedule_retry(p) ==
  /\ p \in HasServer
  /\ sending[p].pc # "idle"
  /\ faults' = faults + 1
  /\ faults' <= MaxFaults
  /\ session' = [session EXCEPT ![p] = sending[p].sess]
  /\ sent' = sent \cup Row(p)
  /\ queued' = queued \cup {sending[p].msg}
  /\ sending' = [sending EXCEPT ![p] = Idle]
  /\ UNCHANGED <<pending, stored, inbox, delivered, account, owed, handling, wire, chats,
                 pairings, redials, kills, keys>>

\* The retry queue dials; RetryQueue says when and how often.
Redial(m) ==
  /\ m \in queued
  /\ redials < MaxRedials
  /\ redials' = redials + 1
  /\ wire' = wire \cup {m}
  /\ UNCHANGED <<store, account, sending, owed, handling, queued, chats, pairings,
                 faults, kills, keys>>

\* A dial was answered Ok, or the last one has failed.
LeaveQueue(m) ==
  /\ m \in queued
  /\ m \notin wire /\ \A h \in handling : h.msg # m
  /\ queued' = queued \ {m}
  /\ UNCHANGED <<store, account, sending, owed, handling, wire, bounds, keys>>

\* An envelope nobody waits for any more is lost.
Lose(m) ==
  /\ m \in wire
  /\ sending[Other(m.to)].msg # m
  /\ wire' = wire \ {m}
  /\ UNCHANGED <<store, account, sending, owed, handling, queued, bounds, keys>>
-----------------------------------------------------------------------------
\* The answer reaches the deliver call that waits for it, if it still does.
Answer(m, ok) ==
  LET p == Other(m.to)
  IN sending' = IF sending[p].pc = "calling" /\ sending[p].msg = m
                THEN [sending EXCEPT ![p] = [@ EXCEPT !.pc = IF ok THEN "ok" ELSE "error"]]
                ELSE sending

\* The stored session decrypts the envelope.
UsesSession(m) ==
  LET q == m.to
  IN
  /\ session[q] # NoSession /\ CanDecrypt(session[q], m)
  /\ handling' = handling \cup
       {[msg |-> m, pc |-> "session", sess |-> Decrypted(session[q], m), keys |-> {}]}
  /\ UNCHANGED <<account, sending>>

\* Without one, a pre-key message makes one and uses up the one-time key in the
\* memory of the account.
MakesSession(m) ==
  LET q == m.to
  IN
  /\ session[q] = NoSession /\ m.otk \in account[q]
  /\ account' = [account EXCEPT ![q] = @ \ {m.otk}]
  /\ handling' = handling \cup
       {[msg |-> m, pc |-> "account", sess |-> Inbound(m), keys |-> account'[q]]}
  /\ UNCHANGED sending

\* Mutant: an envelope nobody can read is answered Ok.
Unattributed_Ok(m) ==
  /\ IF session[m.to] # NoSession THEN ~CanDecrypt(session[m.to], m)
                                  ELSE m.otk \notin account[m.to]
  /\ Answer(m, TRUE)
  /\ UNCHANGED <<account, handling>>

Unattributed(m) ==
  /\ IF session[m.to] # NoSession THEN ~CanDecrypt(session[m.to], m)
                                  ELSE m.otk \notin account[m.to]
  /\ Answer(m, FALSE)
  /\ UNCHANGED <<account, handling>>

\* attribute_and_store up to its first save.
Receive(m) ==
  /\ m \in wire
  /\ \A h \in handling : h.msg # m
  /\ wire' = wire \ {m}
  /\ UsesSession(m) \/ MakesSession(m) \/ Unattributed(m)
  /\ UNCHANGED <<store, owed, queued, bounds, keys>>

Proceed(h, pc) == handling' = (handling \ {h}) \cup {[h EXCEPT !.pc = pc]}

\* save_account_pickle, of the account as it was when the key was used.
SaveAccount(h) ==
  /\ h.pc = "account"
  /\ stored' = [stored EXCEPT ![h.msg.to] = h.keys]
  /\ Proceed(h, "session")
  /\ UNCHANGED <<pending, session, inbox, sent, delivered, account, sending, owed, wire,
                 queued, bounds, keys>>

SaveSession(h) ==
  /\ h.pc = "session"
  /\ session' = [session EXCEPT ![h.msg.to] = h.sess]
  /\ Proceed(h, "apply")
  /\ UNCHANGED <<pending, stored, inbox, sent, delivered, account, sending, owed, wire,
                 queued, bounds, keys>>

\* handle_decrypted, then the answer.  A message that is stored already is an
\* error; a new one is stored and its receipt spawned; a receipt marks its
\* message if send has stored it.
Apply(h) ==
  LET id == h.msg.id
  IN
  /\ h.pc = "apply"
  /\ handling' = handling \ {h}
  /\ \/ /\ ~id.receipt /\ id \in inbox
        /\ Answer(h.msg, FALSE)
        /\ UNCHANGED <<inbox, delivered, owed>>
     \/ /\ ~id.receipt /\ id \notin inbox
        /\ inbox' = inbox \cup {id}
        /\ owed' = [owed EXCEPT ![h.msg.to] = @ \cup {id}]
        /\ Answer(h.msg, TRUE)
        /\ UNCHANGED delivered
     \/ /\ id.receipt
        /\ delivered' = delivered \cup ({[id EXCEPT !.receipt = FALSE]} \cap sent)
        /\ Answer(h.msg, TRUE)
        /\ UNCHANGED <<inbox, owed>>
  /\ UNCHANGED <<pending, session, stored, sent, account, wire, queued, bounds, keys>>
-----------------------------------------------------------------------------
\* The two exchange pairing payloads once more.  Each generates a one-time key
\* and publishes any of its unused ones; the stored session stays.
Pair ==
  /\ pairings < MaxPairings
  /\ pairings' = pairings + 1
  /\ account' = [p \in Peers |-> account[p] \cup {pairings'}]
  /\ stored' = account'
  /\ \E k \in [Peers -> 1..MaxPairings] :
       /\ \A p \in Peers : k[p] \in account'[Other(p)]
       /\ pending' = k
  /\ UNCHANGED <<session, inbox, sent, delivered, sending, owed, handling, wire, queued, chats,
                 faults, redials, kills, keys>>

\* A client is killed and started again.
Kill(p) ==
  /\ kills < MaxKills
  /\ kills' = kills + 1
  /\ account' = [account EXCEPT ![p] = stored[p]]
  /\ sending' = [sending EXCEPT ![p] = Idle]
  /\ owed' = [owed EXCEPT ![p] = {}]
  /\ handling' = {h \in handling : h.msg.to # p}
  /\ UNCHANGED <<store, wire, queued, chats, pairings, faults, redials, keys>>

Next ==
  \/ \E p \in Peers : send(p) \/ TooLong(p) \/ send_receipt(p)
  \/ \E p \in Peers : CallOk(p) \/ CallFails(p) \/ schedule_retry(p)
  \/ \E m \in queued : Redial(m) \/ LeaveQueue(m)
  \/ \E m \in wire : Lose(m) \/ Receive(m)
  \/ \E h \in handling : SaveAccount(h) \/ SaveSession(h) \/ Apply(h)
  \/ Pair
  \/ \E p \in Peers : Kill(p)

Spec == Init /\ [][Next]_vars
-----------------------------------------------------------------------------
\* A message its sender shows as Delivered is in the receiver's store: neither
\* a lost answer, a late envelope, a duplicate nor a kill brings about a false
\* confirmation.
DeliveredIsStored == delivered \subseteq inbox

\* A one-time key waiting to be used still has its private half with the peer,
\* in memory and on disk: failed first sends and kills leave no key behind that
\* could only make unreadable messages.
PendingKeyUsable ==
  \A p \in Peers :
    pending[p] # NoKey => pending[p] \in account[Other(p)] \cap stored[Other(p)]

\* The same for clients that have paired once; pairing again may publish a key
\* that a message under way uses up.
FirstKeyUsable == pairings = 1 => PendingKeyUsable

\* Nothing is under way.
Quiet ==
  /\ wire = {} /\ handling = {} /\ queued = {}
  /\ \A p \in Peers : sending[p].pc = "idle"

\* At rest, the two have one session between them: the sessions stored on both
\* sides come from the same first message.
SameSession ==
  Quiet => \A p, q \in Peers :
    session[p] # NoSession /\ session[q] # NoSession
      => Head(session[p].chain) = Head(session[q].chain)

\* No call has been lost or handed over, nobody was killed, and the two have not
\* both started.
Calm == faults = 0 /\ kills = 0 /\ \A p, q \in openers : p = q

\* As long as calls are answered and one side starts, pairing again included, the
\* two have one session.
OneSession == Calm => SameSession

\* The message a client would send next from what it has stored.
CanReach(p) ==
  LET q == Other(p)
      s == IF session[p] = NoSession THEN Outbound(fresh + 1, pending[p])
                                ELSE Turned(session[p], fresh + 1)
      m == Encrypted(s, p, Chat(p, 1))
  IN /\ session[p] # NoSession \/ pending[p] # NoKey
     /\ IF session[q] # NoSession THEN CanDecrypt(session[q], m) ELSE m.otk \in account[q]

\* Two paired clients at rest can talk: at least one of them can send the other
\* a message that it will decrypt.
CanTalk == Quiet => \E p \in Peers : CanReach(p)

\* Two clients can talk as long as calls are answered and one side starts.
CanTalkWhenCalm == Calm => CanTalk
=============================================================================
