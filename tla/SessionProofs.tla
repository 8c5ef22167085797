---------------------------- MODULE SessionProofs ----------------------------
(***************************************************************************)
(* Proofs about Session, for any number of messages, pairings, lost        *)
(* answers, redials and kills.                                             *)
(*                                                                         *)
(* A message is shown as Delivered only after it was stored: ReceiptInv    *)
(* says so of every receipt that is owed or under way, and of every call   *)
(* that was answered.  The first pairing's one-time key can be used as     *)
(* long as it waits: KeyInv says where an envelope or a session that could *)
(* use it up would be, and that there is none.                             *)
(***************************************************************************)
EXTENDS Session, TLAPS

\* A session, whatever it holds.
IsSession(s) == DOMAIN s = {"chain", "mine", "idx", "known", "used", "otk"}

\* Every envelope there is.
Flight ==
  wire \cup queued \cup {h.msg : h \in handling}
    \cup {sending[p].msg : p \in {q \in Peers : sending[q].pc # "idle"}}

\* The shape of the stores and of what the calls in progress hold.
Shape ==
  /\ session = [p \in Peers |-> session[p]] /\ \A p \in Peers : IsSession(session[p])
  /\ sending = [p \in Peers |-> sending[p]]
  /\ \A p \in Peers : DOMAIN sending[p] = {"pc", "sess", "msg"} /\ IsSession(sending[p].sess)
  /\ \A h \in handling : /\ DOMAIN h = {"msg", "pc", "sess", "keys"}
                         /\ h.keys \subseteq Nat /\ IsSession(h.sess)
  /\ account \in [Peers -> SUBSET Nat] /\ stored \in [Peers -> SUBSET Nat]
  /\ pending \in [Peers -> Nat] /\ pairings \in Nat \ {0}
  /\ owed \in [Peers -> SUBSET Ids] /\ chats \in [Peers -> Nat]
  /\ \A p \in Peers : sending[p].pc # "idle" => sending[p].msg.to = Other(p)
  /\ \A m \in Flight : m.to \in Peers /\ m.id \in Ids

\* The message a receipt is for.
Confirms(id) == [id EXCEPT !.receipt = FALSE]

\* A receipt is for a message that was stored.
Genuine(id) == id \in Ids /\ (id.receipt => Confirms(id) \in inbox)

\* What makes a message Delivered comes after its having been stored.
ReceiptInv ==
  /\ \A id \in inbox : id \in Ids /\ ~id.receipt
  /\ \A p \in Peers : owed[p] \subseteq inbox
  /\ \A m \in Flight : Genuine(m.id)
  /\ \A p \in Peers : sending[p].pc = "ok" /\ ~sending[p].msg.id.receipt
       => sending[p].msg.id \in inbox
  /\ DeliveredIsStored

\* The key of the first pairing, while it waits to be used: it is the only one
\* there is, nothing that could use it up is on its way, and no session makes
\* envelopes that could.
UnusedKey(p) ==
  LET q == Other(p)
  IN /\ 1 \in account[q] /\ 1 \in stored[q]
     /\ HeaderKey(session[p]) = NoKey
     /\ sending[p].pc # "idle" => HeaderKey(sending[p].sess) = NoKey
     /\ \A m \in Flight : m.to = q => m.otk = NoKey
     /\ \A h \in handling : h.msg.to = q => h.pc # "account"
     /\ \A h \in handling : h.msg.to = p => HeaderKey(h.sess) = NoKey

KeyInv ==
  pairings = 1 =>
    /\ \A p \in Peers : account[p] \subseteq {1} /\ stored[p] \subseteq {1}
    /\ \A h \in handling : h.keys \subseteq {1}
    /\ \A p \in Peers : pending[p] # NoKey => pending[p] = 1 /\ UnusedKey(p)
-----------------------------------------------------------------------------
\* There are two clients.
LEMMA TwoPeers ==
  /\ \A x : Other(x) \in Peers /\ Other(x) # x
  /\ \A p, q \in Peers : q = p \/ q = Other(p)
  /\ \A p \in Peers : Other(Other(p)) = p
<1>1. PICK a \in Peers, b \in Peers : a # b /\ Peers = {a, b}
  BY SessionAssumption DEF SessionAssumption
<1>2. ASSUME NEW x PROVE Other(x) \in Peers /\ Other(x) # x
  <2>1. \E q \in Peers : q # x
    BY <1>1
  <2> QED
    BY <2>1 DEF Other
<1>3. ASSUME NEW p \in Peers, NEW q \in Peers PROVE q = p \/ q = Other(p)
  BY <1>1, <1>2
<1>4. ASSUME NEW p \in Peers PROVE Other(Other(p)) = p
  BY <1>1, <1>2
<1> QED
  BY <1>2, <1>3, <1>4

\* Sending and receiving keep the shape of a session, and give its envelopes no
\* one-time key they had not before.
LEMMA RatchetKeepsKey ==
  ASSUME NEW s, IsSession(s)
  PROVE  /\ \A k : IsSession(Turned(s, k)) /\ HeaderKey(Turned(s, k)) = HeaderKey(s)
         /\ IsSession(Advanced(s)) /\ HeaderKey(Advanced(s)) = HeaderKey(s)
         /\ \A m : IsSession(Decrypted(s, m)) /\ HeaderKey(Decrypted(s, m)) \in {HeaderKey(s), NoKey}
<1> USE DEF IsSession, HeaderKey
<1>1. ASSUME NEW k PROVE IsSession(Turned(s, k)) /\ HeaderKey(Turned(s, k)) = HeaderKey(s)
  BY DEF Turned
<1>2. IsSession(Advanced(s)) /\ HeaderKey(Advanced(s)) = HeaderKey(s)
  BY DEF Advanced
<1>3. ASSUME NEW m
      PROVE  IsSession(Decrypted(s, m)) /\ HeaderKey(Decrypted(s, m)) \in {HeaderKey(s), NoKey}
  <2>1. CASE OnKnownChain(s, m)
    BY <2>1 DEF Decrypted
  <2>2. CASE ~OnKnownChain(s, m)
    BY <2>2 DEF Decrypted
  <2> QED
    BY <2>1, <2>2
<1> QED
  BY <1>1, <1>2, <1>3, Zenon

\* New sessions.
LEMMA NewSessions ==
  /\ \A k, o : IsSession(Outbound(k, o)) /\ HeaderKey(Outbound(k, o)) = o
  /\ \A m : IsSession(Inbound(m)) /\ HeaderKey(Inbound(m)) = NoKey
  /\ IsSession(NoSession) /\ HeaderKey(NoSession) = NoKey
<1> USE DEF IsSession, HeaderKey, Outbound
<1>1. \A k, o : IsSession(Outbound(k, o)) /\ HeaderKey(Outbound(k, o)) = o
  OBVIOUS
<1>2. \A m : IsSession(Inbound(m)) /\ HeaderKey(Inbound(m)) = NoKey
  BY DEF Inbound
<1>3. IsSession(NoSession) /\ HeaderKey(NoSession) = NoKey
  BY DEF NoSession
<1> QED
  BY <1>1, <1>2, <1>3, Zenon

\* deliver sends one envelope to the other side.  It is made from the stored
\* session, or else the pending key is cleared.
LEMMA DeliverEffect ==
  ASSUME Shape, NEW p \in Peers, NEW id, Deliver(p, id)
  PROVE  /\ sending' = [q \in Peers |-> sending'[q]]
         /\ \A q \in Peers : q # p => sending'[q] = sending[q]
         /\ DOMAIN sending'[p] = {"pc", "sess", "msg"} /\ IsSession(sending'[p].sess)
         /\ sending'[p].pc = "calling"
         /\ sending'[p].msg.id = id /\ sending'[p].msg.to = Other(p)
         /\ wire' = wire \cup {sending'[p].msg}
         /\ \/ /\ pending' = pending
               /\ HeaderKey(sending'[p].sess) = HeaderKey(session[p])
               /\ sending'[p].msg.otk = HeaderKey(session[p])
            \/ pending' = [pending EXCEPT ![p] = NoKey]
<1>1. ASSUME NEW s, IsSession(s), Call(p, id, s)
      PROVE  /\ sending' = [q \in Peers |-> sending'[q]]
             /\ \A q \in Peers : q # p => sending'[q] = sending[q]
             /\ DOMAIN sending'[p] = {"pc", "sess", "msg"} /\ IsSession(sending'[p].sess)
             /\ sending'[p].pc = "calling"
             /\ sending'[p].msg.id = id /\ sending'[p].msg.to = Other(p)
             /\ wire' = wire \cup {sending'[p].msg}
             /\ HeaderKey(sending'[p].sess) = HeaderKey(s) /\ sending'[p].msg.otk = HeaderKey(s)
  <2> DEFINE r == [pc |-> "calling", sess |-> Advanced(s), msg |-> Encrypted(s, p, id)]
  <2>1. sending' = [sending EXCEPT ![p] = r] /\ wire' = wire \cup {Encrypted(s, p, id)}
    BY <1>1 DEF Call
  <2>2. DOMAIN r = {"pc", "sess", "msg"} /\ r.pc = "calling" /\ r.sess = Advanced(s)
        /\ r.msg = Encrypted(s, p, id)
    OBVIOUS
  <2> HIDE DEF r
  <2>3. DOMAIN sending = Peers
    BY DEF Shape
  <2>4. /\ sending' = [q \in Peers |-> sending'[q]] /\ sending'[p] = r
        /\ \A q \in Peers : q # p => sending'[q] = sending[q]
    BY <2>1, <2>3, Zenon
  <2>5. /\ Encrypted(s, p, id).id = id /\ Encrypted(s, p, id).to = Other(p)
        /\ Encrypted(s, p, id).otk = HeaderKey(s)
    BY DEF Encrypted
  <2>6. IsSession(Advanced(s)) /\ HeaderKey(Advanced(s)) = HeaderKey(s)
    BY <1>1, RatchetKeepsKey
  <2> QED
    BY <2>1, <2>2, <2>4, <2>5, <2>6, Zenon
<1>2. CASE Call(p, id, Turned(session[p], fresh + 1)) /\ UNCHANGED pending
  <2>1. /\ IsSession(Turned(session[p], fresh + 1))
        /\ HeaderKey(Turned(session[p], fresh + 1)) = HeaderKey(session[p])
    BY RatchetKeepsKey, Zenon DEF Shape
  <2> QED
    BY <1>1, <1>2, <2>1, Zenon
<1>3. CASE Call(p, id, Outbound(fresh + 1, pending[p])) /\ pending' = Spent(p)
  <2>1. IsSession(Outbound(fresh + 1, pending[p]))
    BY NewSessions
  <2> QED
    BY <1>1, <1>3, <2>1, Zenon DEF Spent
<1> QED
  BY <1>2, <1>3, Zenon DEF Deliver

\* An answer changes how far the call that waits for it has come.
Answered(m, v) ==
  /\ sending' = [p \in Peers |-> sending'[p]]
  /\ \A p \in Peers :
       /\ DOMAIN sending'[p] = {"pc", "sess", "msg"}
       /\ sending'[p].msg = sending[p].msg /\ sending'[p].sess = sending[p].sess
       /\ \/ sending'[p].pc = sending[p].pc
          \/ sending[p].pc = "calling" /\ sending[p].msg = m /\ sending'[p].pc = v

LEMMA AnswerEffect ==
  ASSUME Shape, NEW m
  PROVE  /\ Answer(m, TRUE) => Answered(m, "ok")
         /\ Answer(m, FALSE) => Answered(m, "error")
<1>1. sending' = sending => Answered(m, "ok") /\ Answered(m, "error")
  BY DEF Shape, Answered
<1>2. ASSUME NEW v, sending[Other(m.to)].pc = "calling", sending[Other(m.to)].msg = m,
             sending' = [sending EXCEPT ![Other(m.to)] = [@ EXCEPT !.pc = v]]
      PROVE  Answered(m, v)
  <2> DEFINE q == Other(m.to)
             r == [sending[q] EXCEPT !.pc = v]
  <2>1. q \in Peers
    BY TwoPeers
  <2>2. DOMAIN sending = Peers /\ \A p \in Peers : DOMAIN sending[p] = {"pc", "sess", "msg"}
    BY DEF Shape
  <2>3. DOMAIN r = {"pc", "sess", "msg"} /\ r.pc = v /\ r.msg = sending[q].msg /\ r.sess = sending[q].sess
    BY <2>1, <2>2
  <2>4. sending' = [sending EXCEPT ![q] = r]
    BY <1>2
  <2>5. sending[q].pc = "calling" /\ sending[q].msg = m
    BY <1>2
  <2> HIDE DEF q, r
  <2>6. /\ sending' = [p \in Peers |-> sending'[p]] /\ sending'[q] = r
        /\ \A p \in Peers : p # q => sending'[p] = sending[p]
    BY <2>1, <2>2, <2>4, Zenon
  <2> QED
    BY <2>1, <2>2, <2>3, <2>5, <2>6, Zenon DEF Answered
<1>3. Answer(m, TRUE) => \/ sending' = sending
                         \/ /\ sending[Other(m.to)].pc = "calling" /\ sending[Other(m.to)].msg = m
                            /\ sending' = [sending EXCEPT ![Other(m.to)] = [@ EXCEPT !.pc = "ok"]]
  BY Zenon DEF Answer
<1>4. Answer(m, FALSE) => \/ sending' = sending
                          \/ /\ sending[Other(m.to)].pc = "calling" /\ sending[Other(m.to)].msg = m
                             /\ sending' = [sending EXCEPT ![Other(m.to)] = [@ EXCEPT !.pc = "error"]]
  BY Zenon DEF Answer
<1> QED
  BY <1>1, <1>2, <1>3, <1>4, Zenon

\* A call that has come to its end.
LEMMA IdleEffect ==
  ASSUME Shape, NEW p \in Peers, sending' = [sending EXCEPT ![p] = Idle]
  PROVE  /\ sending' = [q \in Peers |-> sending'[q]]
         /\ \A q \in Peers : q # p => sending'[q] = sending[q]
         /\ DOMAIN sending'[p] = {"pc", "sess", "msg"} /\ sending'[p].pc = "idle"
         /\ sending'[p].sess = NoSession /\ IsSession(sending'[p].sess)
<1>1. DOMAIN sending = Peers
  BY DEF Shape
<1>2. DOMAIN Idle = {"pc", "sess", "msg"} /\ Idle.pc = "idle" /\ Idle.sess = NoSession
  BY DEF Idle
<1> QED
  BY <1>1, <1>2, NewSessions, Zenon

\* attribute_and_store reads an envelope with the stored session, makes one with a
\* one-time key of the account, or turns the envelope down.
Reads(m) ==
  \E g : /\ handling' = handling \cup {g} /\ DOMAIN g = {"msg", "pc", "sess", "keys"}
         /\ g.msg = m /\ g.pc = "session" /\ g.keys = {} /\ IsSession(g.sess)
         /\ HeaderKey(g.sess) \in {HeaderKey(session[m.to]), NoKey}
         /\ UNCHANGED <<account, sending>>

Starts(m) ==
  \E g : /\ handling' = handling \cup {g} /\ DOMAIN g = {"msg", "pc", "sess", "keys"}
         /\ g.msg = m /\ g.pc = "account" /\ g.keys = account[m.to] \ {m.otk}
         /\ IsSession(g.sess) /\ HeaderKey(g.sess) = NoKey
         /\ m.otk \in account[m.to]
         /\ account' = [account EXCEPT ![m.to] = account[m.to] \ {m.otk}]
         /\ UNCHANGED sending

Declines(m) == UNCHANGED <<account, handling>> /\ Answered(m, "error")

LEMMA ReceiveEffect ==
  ASSUME Shape, NEW m \in wire, Receive(m)
  PROVE  /\ wire' = wire \ {m} /\ UNCHANGED <<store, owed, queued, bounds>>
         /\ m.to \in Peers
         /\ Reads(m) \/ Starts(m) \/ Declines(m)
<1>0. m.to \in Peers /\ IsSession(session[m.to]) /\ account \in [Peers -> SUBSET Nat]
  BY Zenon DEF Shape, Flight
<1>1. CASE UsesSession(m)
  <2> DEFINE g == [msg |-> m, pc |-> "session", sess |-> Decrypted(session[m.to], m), keys |-> {}]
  <2>1. handling' = handling \cup {g} /\ UNCHANGED <<account, sending>>
    BY <1>1 DEF UsesSession
  <2>2. /\ DOMAIN g = {"msg", "pc", "sess", "keys"} /\ g.msg = m /\ g.pc = "session"
        /\ g.keys = {} /\ g.sess = Decrypted(session[m.to], m)
    OBVIOUS
  <2> HIDE DEF g
  <2>3. IsSession(g.sess) /\ HeaderKey(g.sess) \in {HeaderKey(session[m.to]), NoKey}
    BY <1>0, <2>2, RatchetKeepsKey
  <2>4. Reads(m)
    BY <2>1, <2>2, <2>3, Zenon DEF Reads
  <2> QED
    BY <1>0, <2>4 DEF Receive
<1>2. CASE MakesSession(m)
  <2> DEFINE g == [msg |-> m, pc |-> "account", sess |-> Inbound(m), keys |-> account'[m.to]]
  <2>1. /\ handling' = handling \cup {g} /\ UNCHANGED sending
        /\ m.otk \in account[m.to]
        /\ account' = [account EXCEPT ![m.to] = account[m.to] \ {m.otk}]
    BY <1>2 DEF MakesSession
  <2>2. /\ DOMAIN g = {"msg", "pc", "sess", "keys"} /\ g.msg = m /\ g.pc = "account"
        /\ g.keys = account'[m.to] /\ g.sess = Inbound(m)
    OBVIOUS
  <2> HIDE DEF g
  <2>3. IsSession(g.sess) /\ HeaderKey(g.sess) = NoKey
    BY <2>2, NewSessions
  <2>4. account'[m.to] = account[m.to] \ {m.otk}
    BY <1>0, <2>1
  <2>5. Starts(m)
    BY <2>1, <2>2, <2>3, <2>4, Zenon DEF Starts
  <2> QED
    BY <1>0, <2>5 DEF Receive
<1>3. CASE Unattributed(m)
  <2>1. Declines(m)
    BY <1>3, AnswerEffect, Zenon DEF Unattributed, Declines
  <2> QED
    BY <1>0, <2>1 DEF Receive
<1> QED
  BY <1>1, <1>2, <1>3, Zenon DEF Receive

\* Only send and send_receipt make envelopes; the rest moves them about.
LEMMA FlightStep ==
  ASSUME Shape, [Next]_vars, NEW m \in Flight'
  PROVE  \/ m \in Flight
         \/ \E p \in Peers : (send(p) \/ send_receipt(p)) /\ m = sending'[p].msg
<1> USE DEF Flight
<1>1. ASSUME NEW p \in Peers, send(p) \/ send_receipt(p)
      PROVE  m \in Flight \/ m = sending'[p].msg
  <2>1. PICK id : Deliver(p, id)
    BY <1>1, Zenon DEF send, send_receipt
  <2>2. /\ \A q \in Peers : q # p => sending'[q] = sending[q]
        /\ wire' = wire \cup {sending'[p].msg}
    BY <2>1, DeliverEffect, Zenon
  <2>3. UNCHANGED <<handling, queued>>
    BY <1>1, Zenon DEF send, send_receipt
  <2> QED
    BY <2>2, <2>3
<1>2. ASSUME NEW p \in Peers, TooLong(p) PROVE m \in Flight
  BY <1>2, Zenon DEF TooLong
<1>3. ASSUME NEW p \in Peers, CallOk(p) \/ CallFails(p) \/ schedule_retry(p)
      PROVE  m \in Flight
  <2>1. /\ \A q \in Peers : q # p => sending'[q] = sending[q]
        /\ sending'[p].pc = "idle"
    BY <1>3, IdleEffect, Zenon DEF CallOk, CallFails, schedule_retry
  <2>2. UNCHANGED <<wire, handling>>
    BY <1>3, Zenon DEF CallOk, CallFails, schedule_retry
  <2>3. queued' = queued \/ (queued' = queued \cup {sending[p].msg} /\ sending[p].pc # "idle")
    BY <1>3, Zenon DEF CallOk, CallFails, schedule_retry
  <2> QED
    BY <2>1, <2>2, <2>3
<1>4. ASSUME NEW n \in queued, Redial(n) \/ LeaveQueue(n) PROVE m \in Flight
  BY <1>4 DEF Redial, LeaveQueue
<1>5. ASSUME NEW n \in wire, Lose(n) PROVE m \in Flight
  BY <1>5 DEF Lose
<1>6. ASSUME NEW n \in wire, Receive(n) PROVE m \in Flight
  <2>1. \A p \in Peers : sending'[p].msg = sending[p].msg
                         /\ (sending'[p].pc # "idle" => sending[p].pc # "idle")
    BY <1>6, ReceiveEffect, Zenon DEF Reads, Starts, Declines, Answered
  <2>2. wire' \subseteq wire /\ queued' = queued
    BY <1>6, ReceiveEffect
  <2>3. \A h \in handling' : h \in handling \/ h.msg = n
    BY <1>6, ReceiveEffect DEF Reads, Starts, Declines
  <2> QED
    BY <2>1, <2>2, <2>3
<1>7. ASSUME NEW h \in handling, SaveAccount(h) \/ SaveSession(h) PROVE m \in Flight
  <2>1. UNCHANGED <<wire, queued, sending>>
    BY <1>7, Zenon DEF SaveAccount, SaveSession
  <2>2. \A g \in handling' : g \in handling \/ g.msg = h.msg
    BY <1>7 DEF SaveAccount, SaveSession, Proceed, Shape
  <2> QED
    BY <2>1, <2>2
<1>8. ASSUME NEW h \in handling, Apply(h) PROVE m \in Flight
  <2>1. \A p \in Peers : sending'[p].msg = sending[p].msg
                         /\ (sending'[p].pc # "idle" => sending[p].pc # "idle")
    BY <1>8, AnswerEffect, ZenonT(30) DEF Apply, Answered
  <2>2. UNCHANGED <<wire, queued>> /\ handling' \subseteq handling
    BY <1>8, Zenon DEF Apply
  <2> QED
    BY <2>1, <2>2
<1>9. CASE Pair
  BY <1>9, Zenon DEF Pair
<1>10. ASSUME NEW p \in Peers, Kill(p) PROVE m \in Flight
  <2>1. /\ \A q \in Peers : q # p => sending'[q] = sending[q]
        /\ sending'[p].pc = "idle"
    BY <1>10, IdleEffect, Zenon DEF Kill
  <2>2. UNCHANGED <<wire, queued>> /\ handling' \subseteq handling
    BY <1>10, Zenon DEF Kill
  <2> QED
    BY <2>1, <2>2
<1>11. CASE UNCHANGED vars
  BY <1>11 DEF vars
<1> QED
  BY <1>1, <1>2, <1>3, <1>4, <1>5, <1>6, <1>7, <1>8, <1>9, <1>10, <1>11, Zenon DEF Next

\* A call of attribute_and_store goes on.
LEMMA ProceedEffect ==
  ASSUME Shape, NEW h \in handling, NEW pc, Proceed(h, pc), NEW g \in handling'
  PROVE  \/ g \in handling
         \/ /\ DOMAIN g = {"msg", "pc", "sess", "keys"} /\ g.pc = pc
            /\ g.msg = h.msg /\ g.sess = h.sess /\ g.keys = h.keys
<1>1. DOMAIN h = {"msg", "pc", "sess", "keys"}
  BY DEF Shape
<1>2. g \in handling \/ g = [h EXCEPT !.pc = pc]
  BY DEF Proceed
<1> QED
  BY <1>1, <1>2

\* What is sent is a message of the user's, or the receipt for a stored one.
LEMMA SentIds ==
  ASSUME Shape, NEW p \in Peers
  PROVE  /\ send(p) => \E id \in Ids : ~id.receipt /\ Deliver(p, id)
         /\ send_receipt(p) => \E id \in Ids : /\ id.receipt /\ Deliver(p, id)
                                               /\ \E o \in owed[p] : id = Receipt(o)
<1>1. ASSUME send(p) PROVE \E id \in Ids : ~id.receipt /\ Deliver(p, id)
  <2>1. chats[p] \in Nat /\ chats[p] < MaxChats /\ MaxChats \in Nat
    BY <1>1, SessionAssumption, Zenon DEF send, Shape, SessionAssumption
  <2>2. chats[p] + 1 \in 1..MaxChats
    BY <2>1
  <2>3. Chat(p, chats[p] + 1) \in Ids /\ ~Chat(p, chats[p] + 1).receipt
    BY <2>2 DEF Chat, Ids
  <2> QED
    BY <1>1, <2>3 DEF send
<1>2. ASSUME send_receipt(p)
      PROVE  \E id \in Ids : id.receipt /\ Deliver(p, id) /\ \E o \in owed[p] : id = Receipt(o)
  <2>1. PICK o \in owed[p] : Deliver(p, Receipt(o))
    BY <1>2 DEF send_receipt
  <2>2. o \in Ids
    BY DEF Shape
  <2>3. Receipt(o) \in Ids /\ Receipt(o).receipt
    BY <2>2, Zenon DEF Receipt, Ids
  <2> QED
    BY <2>1, <2>3
<1> QED
  BY <1>1, <1>2

\* Every action keeps the shape.
LEMMA ShapeStep ==
  ASSUME Shape, [Next]_vars
  PROVE  Shape'
<1>0. \A m \in Flight' : m.to \in Peers /\ m.id \in Ids
  <2> SUFFICES ASSUME NEW m \in Flight' PROVE m.to \in Peers /\ m.id \in Ids
    OBVIOUS
  <2>1. ASSUME NEW p \in Peers, send(p) \/ send_receipt(p), m = sending'[p].msg
        PROVE  m.to \in Peers /\ m.id \in Ids
    <3>1. PICK id \in Ids : Deliver(p, id)
      BY <2>1, SentIds
    <3> QED
      BY <2>1, <3>1, DeliverEffect, TwoPeers
  <2> QED
    BY <2>1, FlightStep, Zenon DEF Shape
<1> DEFINE SendingOK ==
             /\ sending' = [p \in Peers |-> sending'[p]]
             /\ \A p \in Peers : /\ DOMAIN sending'[p] = {"pc", "sess", "msg"}
                                 /\ IsSession(sending'[p].sess)
                                 /\ sending'[p].pc # "idle" => sending'[p].msg.to = Other(p)
           HandlingOK == \A h \in handling' : /\ DOMAIN h = {"msg", "pc", "sess", "keys"}
                                              /\ h.keys \subseteq Nat /\ IsSession(h.sess)
           SessionsOK == session' = [p \in Peers |-> session'[p]] /\ \A p \in Peers : IsSession(session'[p])
           KeysOK == account' \in [Peers -> SUBSET Nat] /\ stored' \in [Peers -> SUBSET Nat]
           RestOK == /\ pending' \in [Peers -> Nat] /\ pairings' \in Nat \ {0}
                     /\ owed' \in [Peers -> SUBSET Ids] /\ chats' \in [Peers -> Nat]
<1> SUFFICES SendingOK /\ HandlingOK /\ SessionsOK /\ KeysOK /\ RestOK
  BY <1>0, Zenon DEF Shape
<1>a. /\ UNCHANGED sending => SendingOK
      /\ handling' \subseteq handling => HandlingOK
      /\ UNCHANGED session => SessionsOK
      /\ UNCHANGED <<account, stored>> => KeysOK
      /\ UNCHANGED <<pending, pairings, owed, chats>> => RestOK
  BY Zenon DEF Shape
<1>b. ASSUME NEW m, Answered(m, "ok") \/ Answered(m, "error") PROVE SendingOK
  BY <1>b DEF Answered, Shape
<1>c. ASSUME NEW p \in Peers, sending' = [sending EXCEPT ![p] = Idle] PROVE SendingOK
  <2>1. /\ sending' = [q \in Peers |-> sending'[q]]
        /\ \A q \in Peers : q # p => sending'[q] = sending[q]
        /\ DOMAIN sending'[p] = {"pc", "sess", "msg"} /\ sending'[p].pc = "idle"
        /\ IsSession(sending'[p].sess)
    BY <1>c, IdleEffect, Zenon
  <2> QED
    BY <2>1, Zenon DEF Shape
<1>d. ASSUME NEW p \in Peers, NEW s, IsSession(s), session' = [session EXCEPT ![p] = s]
      PROVE  SessionsOK
  <2>1. DOMAIN session = Peers /\ \A q \in Peers : IsSession(session[q])
    BY DEF Shape
  <2>2. /\ session' = [q \in Peers |-> session'[q]] /\ session'[p] = s
        /\ \A q \in Peers : q # p => session'[q] = session[q]
    BY <1>d, <2>1, Zenon
  <2> QED
    BY <1>d, <2>1, <2>2
<1> HIDE DEF SendingOK, HandlingOK, SessionsOK, KeysOK, RestOK
<1>1. ASSUME NEW p \in Peers, send(p) \/ send_receipt(p)
      PROVE  SendingOK /\ HandlingOK /\ SessionsOK /\ KeysOK /\ RestOK
  <2>1. PICK id : Deliver(p, id)
    BY <1>1 DEF send, send_receipt
  <2>2. SendingOK
    BY <2>1, DeliverEffect, Zenon DEF SendingOK, Shape
  <2>3. UNCHANGED <<handling, session, account, stored, pairings>>
    BY <1>1, Zenon DEF send, send_receipt, bounds
  <2>4. pending' \in [Peers -> Nat]
    BY <2>1, DeliverEffect DEF Shape, NoKey
  <2>5. owed' \in [Peers -> SUBSET Ids] /\ chats' \in [Peers -> Nat]
    BY <1>1 DEF send, send_receipt, bounds, Shape
  <2>6. RestOK
    BY <2>3, <2>4, <2>5, Zenon DEF RestOK, Shape
  <2> QED
    BY <1>a, <2>2, <2>3, <2>6
<1>2. ASSUME NEW p \in Peers, TooLong(p)
      PROVE  SendingOK /\ HandlingOK /\ SessionsOK /\ KeysOK /\ RestOK
  <2>1. RestOK
    BY <1>2 DEF TooLong, Spent, NoKey, Shape, RestOK
  <2> QED
    BY <1>2, <1>a, <2>1, Zenon DEF TooLong
<1>3. ASSUME NEW p \in Peers, CallOk(p) \/ CallFails(p) \/ schedule_retry(p)
      PROVE  SendingOK /\ HandlingOK /\ SessionsOK /\ KeysOK /\ RestOK
  <2>1. SendingOK
    BY <1>3, <1>c, Zenon DEF CallOk, CallFails, schedule_retry
  <2>2. SessionsOK
    <3>1. session' = session \/ session' = [session EXCEPT ![p] = sending[p].sess]
      BY <1>3, Zenon DEF CallOk, CallFails, schedule_retry, store
    <3>2. IsSession(sending[p].sess)
      BY DEF Shape
    <3> QED
      BY <1>a, <1>d, <3>1, <3>2
  <2>3. UNCHANGED <<handling, account, stored, pending, pairings, owed, chats>>
    BY <1>3, Zenon DEF CallOk, CallFails, schedule_retry, store, bounds
  <2> QED
    BY <1>a, <2>1, <2>2, <2>3
<1>4. ASSUME NEW m, Redial(m) \/ LeaveQueue(m) \/ Lose(m)
      PROVE  SendingOK /\ HandlingOK /\ SessionsOK /\ KeysOK /\ RestOK
  BY <1>4, <1>a, Zenon DEF Redial, LeaveQueue, Lose, store, bounds
<1>5. ASSUME NEW m \in wire, Receive(m)
      PROVE  SendingOK /\ HandlingOK /\ SessionsOK /\ KeysOK /\ RestOK
  <2>1. UNCHANGED <<session, stored, pending, pairings, owed, chats>> /\ m.to \in Peers
    BY <1>5, ReceiveEffect DEF store, bounds
  <2>2. SendingOK
    BY <1>5, <1>a, <1>b, ReceiveEffect, Zenon DEF Reads, Starts, Declines
  <2>3. HandlingOK
    <3>1. account[m.to] \subseteq Nat
      BY <2>1, Zenon DEF Shape
    <3> QED
      BY <1>5, <3>1, ReceiveEffect DEF Reads, Starts, Declines, HandlingOK, Shape
  <2>4. account' \in [Peers -> SUBSET Nat]
    BY <1>5, <2>1, ReceiveEffect DEF Reads, Starts, Declines, Shape
  <2> QED
    BY <1>a, <2>1, <2>2, <2>3, <2>4, Zenon DEF KeysOK, Shape
<1>6. ASSUME NEW h \in handling, SaveAccount(h) \/ SaveSession(h)
      PROVE  SendingOK /\ HandlingOK /\ SessionsOK /\ KeysOK /\ RestOK
  <2>1. /\ h.msg.to \in Peers /\ IsSession(h.sess) /\ h.keys \subseteq Nat
    BY DEF Shape, Flight
  <2>2. HandlingOK
    <3>1. PICK pc : Proceed(h, pc)
      BY <1>6 DEF SaveAccount, SaveSession
    <3> QED
      BY <2>1, <3>1, ProceedEffect DEF HandlingOK, Shape
  <2>3. SessionsOK
    BY <1>6, <1>a, <1>d, <2>1, Zenon DEF SaveAccount, SaveSession
  <2>4. stored' \in [Peers -> SUBSET Nat] /\ account' = account
    BY <1>6, <2>1, Zenon DEF SaveAccount, SaveSession, Shape
  <2>5. UNCHANGED <<sending, pending, pairings, owed, chats>>
    BY <1>6, Zenon DEF SaveAccount, SaveSession, bounds
  <2> QED
    BY <1>a, <2>2, <2>3, <2>4, <2>5, Zenon DEF KeysOK, Shape
<1>7. ASSUME NEW h \in handling, Apply(h)
      PROVE  SendingOK /\ HandlingOK /\ SessionsOK /\ KeysOK /\ RestOK
  <2>1. h.msg.to \in Peers /\ h.msg.id \in Ids
    BY Zenon DEF Shape, Flight
  <2>2. SendingOK
    BY <1>7, <1>b, AnswerEffect, Zenon DEF Apply
  <2>3. /\ UNCHANGED <<session, account, stored, pending, pairings, chats>>
        /\ handling' \subseteq handling
    BY <1>7, Zenon DEF Apply, bounds
  <2>4. owed' \in [Peers -> SUBSET Ids]
    <3>1. owed' = owed \/ owed' = [owed EXCEPT ![h.msg.to] = owed[h.msg.to] \cup {h.msg.id}]
      BY <1>7, Zenon DEF Apply
    <3>2. owed \in [Peers -> SUBSET Ids]
      BY DEF Shape
    <3> QED
      BY <2>1, <3>1, <3>2
  <2> QED
    BY <1>a, <2>2, <2>3, <2>4, Zenon DEF RestOK, Shape
<1>8. CASE Pair
  <2>1. /\ UNCHANGED <<session, sending, owed, handling, chats>>
        /\ pairings' = pairings + 1 /\ stored' = account'
        /\ account' = [p \in Peers |-> account[p] \cup {pairings'}]
    BY <1>8 DEF Pair
  <2>2. pairings' \in Nat \ {0} /\ KeysOK
    BY <2>1 DEF Shape, KeysOK
  <2>3. pending' \in [Peers -> Nat]
    <3>1. pending' \in [Peers -> 1..MaxPairings]
      BY <1>8 DEF Pair
    <3> QED
      BY <3>1
  <2> QED
    BY <1>a, <2>1, <2>2, <2>3, Zenon DEF RestOK, Shape
<1>9. ASSUME NEW p \in Peers, Kill(p)
      PROVE  SendingOK /\ HandlingOK /\ SessionsOK /\ KeysOK /\ RestOK
  <2>1. SendingOK
    BY <1>9, <1>c, Zenon DEF Kill
  <2>2. UNCHANGED <<session, stored, pending, pairings, chats>> /\ handling' \subseteq handling
    BY <1>9 DEF Kill, store
  <2>3. account' \in [Peers -> SUBSET Nat] /\ owed' \in [Peers -> SUBSET Ids]
    BY <1>9, Zenon DEF Kill, Shape
  <2> QED
    BY <1>a, <2>1, <2>2, <2>3, Zenon DEF KeysOK, RestOK, Shape
<1>10. CASE UNCHANGED vars
  BY <1>a, <1>10, Zenon DEF vars, store, bounds
<1> QED
  BY <1>1, <1>2, <1>3, <1>4, <1>5, <1>6, <1>7, <1>8, <1>9, <1>10, Zenon DEF Next

\* The calls that wait are changed by their start and end, and by answers.
LEMMA SendingChanges ==
  ASSUME [Next]_vars
  PROVE  \/ sending' = sending
         \/ \E h \in handling : Apply(h)
         \/ \E m \in wire : Receive(m)
         \/ \E q \in Peers : send(q) \/ send_receipt(q) \/ sending' = [sending EXCEPT ![q] = Idle]
<1>1. ASSUME NEW q \in Peers, CallOk(q) \/ CallFails(q) \/ schedule_retry(q) \/ Kill(q)
      PROVE  sending' = [sending EXCEPT ![q] = Idle]
  BY <1>1, Zenon DEF CallOk, CallFails, schedule_retry, Kill
<1>2. ASSUME NEW m, Redial(m) \/ LeaveQueue(m) \/ Lose(m) PROVE sending' = sending
  BY <1>2 DEF Redial, LeaveQueue, Lose
<1>3. ASSUME NEW h, SaveAccount(h) \/ SaveSession(h) PROVE sending' = sending
  BY <1>3 DEF SaveAccount, SaveSession
<1>4. ASSUME NEW q \in Peers, TooLong(q) PROVE sending' = sending
  BY <1>4 DEF TooLong
<1>5. Pair \/ UNCHANGED vars => sending' = sending
  BY DEF Pair, vars
<1> QED
  BY <1>1, <1>2, <1>3, <1>4, <1>5, Zenon DEF Next

\* One-time keys are used by a first message, saved, and read again.
LEMMA KeysChange ==
  ASSUME [Next]_vars, ~Pair
  PROVE  \/ UNCHANGED <<account, stored>>
         \/ \E m \in wire : Receive(m)
         \/ \E h \in handling : SaveAccount(h)
         \/ \E q \in Peers : Kill(q)
<1>1. ASSUME NEW q \in Peers, send(q) \/ send_receipt(q) \/ TooLong(q)
      PROVE  UNCHANGED <<account, stored>>
  BY <1>1, Zenon DEF send, send_receipt, TooLong
<1>2. ASSUME NEW q \in Peers, CallOk(q) \/ CallFails(q) \/ schedule_retry(q)
      PROVE  UNCHANGED <<account, stored>>
  BY <1>2, Zenon DEF CallOk, CallFails, schedule_retry, store
<1>3. ASSUME NEW m, Redial(m) \/ LeaveQueue(m) \/ Lose(m) PROVE UNCHANGED <<account, stored>>
  BY <1>3, Zenon DEF Redial, LeaveQueue, Lose, store
<1>4. ASSUME NEW h, SaveSession(h) \/ Apply(h) PROVE UNCHANGED <<account, stored>>
  BY <1>4, Zenon DEF SaveSession, Apply
<1>5. UNCHANGED vars => UNCHANGED <<account, stored>>
  BY DEF vars, store
<1> QED
  BY <1>1, <1>2, <1>3, <1>4, <1>5, Zenon DEF Next

\* Envelopes are handled by steps of attribute_and_store.
LEMMA HandlingChanges ==
  ASSUME [Next]_vars
  PROVE  \/ handling' \subseteq handling
         \/ \E m \in wire : Receive(m)
         \/ \E h \in handling : SaveAccount(h) \/ SaveSession(h)
<1>1. ASSUME NEW q \in Peers, send(q) \/ send_receipt(q) \/ TooLong(q)
      PROVE  handling' = handling
  BY <1>1, Zenon DEF send, send_receipt, TooLong
<1>2. ASSUME NEW q \in Peers, CallOk(q) \/ CallFails(q) \/ schedule_retry(q)
      PROVE  handling' = handling
  BY <1>2, Zenon DEF CallOk, CallFails, schedule_retry
<1>3. ASSUME NEW m, Redial(m) \/ LeaveQueue(m) \/ Lose(m) PROVE handling' = handling
  BY <1>3 DEF Redial, LeaveQueue, Lose
<1>4. ASSUME NEW h, Apply(h) PROVE handling' \subseteq handling
  BY <1>4, Zenon DEF Apply
<1>5. ASSUME NEW q \in Peers, Kill(q) PROVE handling' \subseteq handling
  BY <1>5 DEF Kill
<1>6. Pair \/ UNCHANGED vars => handling' = handling
  BY DEF Pair, vars
<1> QED
  BY <1>1, <1>2, <1>3, <1>4, <1>5, <1>6, Zenon DEF Next

\* Sessions are saved by the call that sent and the one that received.
LEMMA SessionChanges ==
  ASSUME [Next]_vars
  PROVE  \/ session' = session
         \/ \E x \in Peers : sending[x].pc # "idle" /\ session' = [session EXCEPT ![x] = sending[x].sess]
         \/ \E h \in handling : session' = [session EXCEPT ![h.msg.to] = h.sess]
<1>1. ASSUME NEW q \in Peers, send(q) \/ send_receipt(q) \/ TooLong(q) \/ CallFails(q) \/ Kill(q)
      PROVE  session' = session
  BY <1>1, Zenon DEF send, send_receipt, TooLong, CallFails, Kill, store
<1>2. ASSUME NEW q \in Peers, CallOk(q) \/ schedule_retry(q)
      PROVE  sending[q].pc # "idle" /\ session' = [session EXCEPT ![q] = sending[q].sess]
  BY <1>2, Zenon DEF CallOk, schedule_retry
<1>3. ASSUME NEW m, Redial(m) \/ LeaveQueue(m) \/ Lose(m) \/ Receive(m) PROVE session' = session
  BY <1>3, Zenon DEF Redial, LeaveQueue, Lose, Receive, store
<1>4. ASSUME NEW h, Apply(h) \/ SaveAccount(h) PROVE session' = session
  BY <1>4, Zenon DEF Apply, SaveAccount
<1>5. ASSUME NEW h, SaveSession(h) PROVE session' = [session EXCEPT ![h.msg.to] = h.sess]
  BY <1>5 DEF SaveSession
<1>6. Pair \/ UNCHANGED vars => session' = session
  BY DEF Pair, vars, store
<1> QED
  BY <1>1, <1>2, <1>3, <1>4, <1>5, <1>6, Zenon DEF Next

\* A stored message stays stored.
LEMMA InboxGrows == [Next]_vars => inbox \subseteq inbox'
  BY Zenon
  DEF Next, vars, store, send, TooLong, send_receipt, CallOk, CallFails, schedule_retry,
         Redial, LeaveQueue, Lose, Receive, SaveAccount, SaveSession, Apply, Pair, Kill

\* What is marked Delivered was stored, whoever says so.
LEMMA ReceiptStep ==
  ASSUME Shape, ReceiptInv, [Next]_vars
  PROVE  ReceiptInv'
<1>0. inbox \subseteq inbox'
  BY InboxGrows
<1>1. \A id \in inbox' : id \in Ids /\ ~id.receipt
  <2>1. ASSUME NEW h \in handling, Apply(h)
        PROVE  \A id \in inbox' : id \in inbox \/ (id \in Ids /\ ~id.receipt)
    <3>1. h.msg.id \in Ids
      BY Zenon DEF Shape, Flight
    <3> QED
      BY <2>1, <3>1, Zenon DEF Apply
  <2>2. (~\E h \in handling : Apply(h)) => inbox' = inbox
    BY Zenon
    DEF Next, vars, store, send, TooLong, send_receipt, CallOk, CallFails, schedule_retry,
           Redial, LeaveQueue, Lose, Receive, SaveAccount, SaveSession, Pair, Kill
  <2> QED
    BY <2>1, <2>2 DEF ReceiptInv
<1>2. \A p \in Peers : owed'[p] \subseteq inbox'
  <2> SUFFICES ASSUME NEW p \in Peers PROVE owed'[p] \subseteq inbox'
    OBVIOUS
  <2>0. owed[p] \subseteq inbox /\ owed \in [Peers -> SUBSET Ids]
    BY Zenon DEF ReceiptInv, Shape
  <2>1. ASSUME NEW h \in handling, Apply(h) PROVE owed'[p] \subseteq inbox'
    <3>1. \/ owed' = owed
          \/ /\ owed' = [owed EXCEPT ![h.msg.to] = owed[h.msg.to] \cup {h.msg.id}]
             /\ inbox' = inbox \cup {h.msg.id}
      BY <2>1, Zenon DEF Apply
    <3> QED
      BY <1>0, <2>0, <3>1
  <2>2. ASSUME NEW q \in Peers, send_receipt(q) PROVE owed'[p] \subseteq inbox'
    <3>1. PICK o : owed' = [owed EXCEPT ![q] = owed[q] \ {o}]
      BY <2>2, ZenonT(30) DEF send_receipt
    <3> QED
      BY <1>0, <2>0, <3>1
  <2>3. ASSUME NEW q \in Peers, Kill(q) PROVE owed'[p] \subseteq inbox'
    BY <1>0, <2>0, <2>3, Zenon DEF Kill
  <2>4. \/ owed' = owed
        \/ \E h \in handling : Apply(h)
        \/ \E q \in Peers : send_receipt(q) \/ Kill(q)
    BY Zenon DEF Next, vars, send, TooLong, CallOk, CallFails, schedule_retry,
           Redial, LeaveQueue, Lose, Receive, SaveAccount, SaveSession, Pair
  <2> QED
    BY <1>0, <2>0, <2>1, <2>2, <2>3, <2>4
<1>3. \A m \in Flight' : Genuine(m.id)'
  <2> SUFFICES ASSUME NEW m \in Flight' PROVE Genuine(m.id)'
    OBVIOUS
  <2>1. ASSUME NEW id, Genuine(id) PROVE Genuine(id)'
    BY <1>0, <2>1 DEF Genuine
  <2>2. ASSUME NEW p \in Peers, send(p), m = sending'[p].msg PROVE Genuine(m.id)'
    <3>1. PICK id \in Ids : ~id.receipt /\ Deliver(p, id)
      BY <2>2, SentIds
    <3>2. m.id = id
      BY <2>2, <3>1, DeliverEffect, Zenon
    <3> QED
      BY <3>1, <3>2 DEF Genuine
  <2>3. ASSUME NEW p \in Peers, send_receipt(p), m = sending'[p].msg PROVE Genuine(m.id)'
    <3>1. PICK id \in Ids : id.receipt /\ Deliver(p, id) /\ \E o \in owed[p] : id = Receipt(o)
      BY <2>3, SentIds
    <3>2. m.id = id
      BY <2>3, <3>1, DeliverEffect, Zenon
    <3>3. PICK o \in owed[p] : id = Receipt(o)
      BY <3>1
    <3>4. o \in inbox /\ o \in Ids /\ ~o.receipt
      BY DEF ReceiptInv
    <3>5. Confirms(id) = o
      BY <3>3, <3>4, Zenon DEF Confirms, Receipt, Ids
    <3> QED
      BY <1>0, <3>1, <3>2, <3>4, <3>5 DEF Genuine
  <2> QED
    BY <2>1, <2>2, <2>3, FlightStep, Zenon DEF ReceiptInv
<1>4. \A p \in Peers : sending'[p].pc = "ok" /\ ~sending'[p].msg.id.receipt
        => sending'[p].msg.id \in inbox'
  <2> SUFFICES ASSUME NEW p \in Peers, sending'[p].pc = "ok", ~sending'[p].msg.id.receipt
               PROVE  sending'[p].msg.id \in inbox'
    OBVIOUS
  <2>1. CASE sending'[p].pc = sending[p].pc /\ sending'[p].msg = sending[p].msg
    BY <1>0, <2>1, Zenon DEF ReceiptInv
  <2>2. ASSUME NEW h \in handling, Apply(h) PROVE sending'[p].msg.id \in inbox'
    <3>1. CASE Answer(h.msg, FALSE)
      BY <2>1, <3>1, AnswerEffect, Zenon DEF Answered
    <3>2. CASE Answer(h.msg, TRUE) /\ (h.msg.id \in inbox' \/ h.msg.id.receipt)
      <4>1. Answered(h.msg, "ok")
        BY <3>2, AnswerEffect, Zenon
      <4>2. \/ sending'[p].pc = sending[p].pc /\ sending'[p].msg = sending[p].msg
            \/ sending'[p].msg = h.msg
        BY <4>1 DEF Answered
      <4> QED
        BY <2>1, <3>2, <4>2, Zenon
    <3>3. \/ Answer(h.msg, FALSE)
          \/ Answer(h.msg, TRUE) /\ (h.msg.id \in inbox' \/ h.msg.id.receipt)
      <4>1. CASE Answer(h.msg, FALSE)
        BY <4>1, Zenon
      <4>2. CASE ~Answer(h.msg, FALSE)
        BY <2>2, <4>2, Zenon DEF Apply
      <4> QED
        BY <4>1, <4>2, Zenon
    <3> QED
      BY <3>1, <3>2, <3>3, Zenon
  <2>3. ASSUME NEW q \in Peers, send(q) \/ send_receipt(q)
        PROVE  sending'[p].msg.id \in inbox'
    <3>1. PICK id : Deliver(q, id)
      BY <2>3, SentIds
    <3>2. /\ sending'[q].pc = "calling"
          /\ q # p => sending'[p] = sending[p]
      BY <3>1, DeliverEffect, Zenon
    <3> QED
      BY <2>1, <3>2, Zenon
  <2>4. ASSUME NEW q \in Peers, sending' = [sending EXCEPT ![q] = Idle]
        PROVE  sending'[p].msg.id \in inbox'
    <3>1. /\ sending'[q].pc = "idle"
          /\ q # p => sending'[p] = sending[p]
      BY <2>4, IdleEffect, Zenon
    <3> QED
      BY <2>1, <3>1, Zenon
  <2>5. ASSUME NEW m \in wire, Receive(m) PROVE sending'[p].msg.id \in inbox'
    BY <2>1, <2>5, ReceiveEffect, Zenon DEF Reads, Starts, Declines, Answered
  <2>6. \/ sending' = sending
        \/ \E h \in handling : Apply(h)
        \/ \E m \in wire : Receive(m)
        \/ \E q \in Peers : send(q) \/ send_receipt(q) \/ sending' = [sending EXCEPT ![q] = Idle]
    BY SendingChanges
  <2> QED
    BY <2>1, <2>2, <2>3, <2>4, <2>5, <2>6, Zenon
<1>5. delivered' \subseteq inbox'
  <2>0. delivered \subseteq inbox
    BY DEF ReceiptInv, DeliveredIsStored
  <2>1. ASSUME NEW p \in Peers, CallOk(p) PROVE delivered' \subseteq inbox'
    <3>1. sending[p].pc = "ok" /\ delivered' = delivered \cup Row(p)
      BY <2>1 DEF CallOk
    <3>2. sending[p].msg.id \in Ids
      BY <3>1, Zenon DEF Shape, Flight
    <3>3. Row(p) \subseteq inbox
      BY <3>1, <3>2, Zenon DEF Row, ReceiptInv
    <3> QED
      BY <1>0, <2>0, <3>1, <3>3
  <2>2. ASSUME NEW h \in handling, Apply(h) PROVE delivered' \subseteq inbox'
    <3>1. Genuine(h.msg.id)
      BY DEF ReceiptInv, Flight
    <3>2. delivered' = delivered
          \/ (h.msg.id.receipt /\ delivered' \subseteq delivered \cup {Confirms(h.msg.id)})
      BY <2>2, Zenon DEF Apply, Confirms
    <3> QED
      BY <1>0, <2>0, <3>1, <3>2 DEF Genuine
  <2>3. delivered' = delivered \/ (\E p \in Peers : CallOk(p)) \/ \E h \in handling : Apply(h)
    BY ZenonT(30)
    DEF Next, vars, store, send, TooLong, send_receipt, CallFails, schedule_retry,
           Redial, LeaveQueue, Lose, Receive, SaveAccount, SaveSession, Pair, Kill
  <2> QED
    BY <1>0, <2>0, <2>1, <2>2, <2>3
<1> QED
  BY <1>1, <1>2, <1>3, <1>4, <1>5, Zenon DEF ReceiptInv, DeliveredIsStored

\* While the first pairing's key waits to be used, nothing comes up that could use
\* it: it is cleared before the envelope made from it is sent.
LEMMA KeyStep ==
  ASSUME Shape, KeyInv, [Next]_vars
  PROVE  KeyInv'
<1> SUFFICES ASSUME pairings' = 1 PROVE KeyInv'
  BY DEF KeyInv
<1>0. pairings = 1 /\ ~Pair
  <2>1. ~Pair
    BY DEF Pair, Shape
  <2>2. pairings' = pairings
    BY <2>1, Zenon
    DEF Next, vars, bounds, send, TooLong, send_receipt, CallOk, CallFails,
    schedule_retry,
           Redial, LeaveQueue, Lose, Receive, SaveAccount, SaveSession, Apply, Kill
  <2> QED
    BY <2>1, <2>2
<1>1. /\ \A p \in Peers : account[p] \subseteq {1} /\ stored[p] \subseteq {1}
      /\ \A h \in handling : h.keys \subseteq {1}
      /\ \A p \in Peers : pending[p] # NoKey => pending[p] = 1 /\ UnusedKey(p)
  BY <1>0 DEF KeyInv
<1>2. /\ account \in [Peers -> SUBSET Nat] /\ stored \in [Peers -> SUBSET Nat]
      /\ pending \in [Peers -> Nat] /\ DOMAIN session = Peers
  BY DEF Shape
\* Keys only get fewer.
<1>3. \A p \in Peers : account'[p] \subseteq {1} /\ stored'[p] \subseteq {1}
  <2>1. ASSUME NEW m \in wire, Receive(m)
        PROVE  \A p \in Peers : account'[p] \subseteq {1} /\ stored'[p] \subseteq {1}
    <3>1. stored' = stored /\ m.to \in Peers
      BY <2>1, ReceiveEffect DEF store
    <3>2. account' = account \/ account' = [account EXCEPT ![m.to] = account[m.to] \ {m.otk}]
      BY <2>1, ReceiveEffect, Zenon DEF Reads, Starts, Declines
    <3> QED
      BY <1>1, <1>2, <3>1, <3>2
  <2>2. ASSUME NEW h \in handling, SaveAccount(h)
        PROVE  \A p \in Peers : account'[p] \subseteq {1} /\ stored'[p] \subseteq {1}
    <3>1. account' = account /\ stored' = [stored EXCEPT ![h.msg.to] = h.keys]
      BY <2>2 DEF SaveAccount
    <3> QED
      BY <1>1, <1>2, <3>1, Zenon
  <2>3. ASSUME NEW q \in Peers, Kill(q)
        PROVE  \A p \in Peers : account'[p] \subseteq {1} /\ stored'[p] \subseteq {1}
    <3>1. stored' = stored /\ account' = [account EXCEPT ![q] = stored[q]]
      BY <2>3 DEF Kill, store
    <3> QED
      BY <1>1, <1>2, <3>1
  <2>4. \/ UNCHANGED <<account, stored>>
        \/ \E m \in wire : Receive(m)
        \/ \E h \in handling : SaveAccount(h)
        \/ \E q \in Peers : Kill(q)
    BY <1>0, KeysChange
  <2> QED
    BY <1>1, <2>1, <2>2, <2>3, <2>4, Zenon
<1>4. \A h \in handling' : h.keys \subseteq {1}
  <2>1. ASSUME NEW m \in wire, Receive(m), NEW h \in handling'
        PROVE  h.keys \subseteq {1}
    <3>1. m.to \in Peers
      BY <2>1, ReceiveEffect
    <3>2. h \in handling \/ h.keys = {} \/ h.keys = account[m.to] \ {m.otk}
      BY <2>1, ReceiveEffect DEF Reads, Starts, Declines
    <3> QED
      BY <1>1, <3>1, <3>2
  <2>2. ASSUME NEW g \in handling, SaveAccount(g) \/ SaveSession(g), NEW h \in handling'
        PROVE  h.keys \subseteq {1}
    <3>1. PICK pc : Proceed(g, pc)
      BY <2>2, Zenon DEF SaveAccount, SaveSession
    <3> QED
      BY <1>1, <2>2, <3>1, ProceedEffect
  <2>3. \/ handling' \subseteq handling
        \/ \E m \in wire : Receive(m)
        \/ \E h \in handling : SaveAccount(h) \/ SaveSession(h)
    BY HandlingChanges
  <2> QED
    BY <1>1, <2>1, <2>2, <2>3
<1> SUFFICES ASSUME NEW p \in Peers, pending'[p] # NoKey
             PROVE  pending'[p] = 1 /\ UnusedKey(p)'
  BY <1>3, <1>4 DEF KeyInv
<1> DEFINE q == Other(p)
<1>5. q \in Peers /\ q # p /\ Other(q) = p
  BY TwoPeers
<1>6. pending'[p] = pending[p]
  <2>1. ASSUME NEW x \in Peers, send(x) \/ send_receipt(x) PROVE pending'[p] = pending[p]
    <3>1. PICK id : Deliver(x, id)
      BY <2>1, SentIds
    <3>2. pending' = pending \/ pending' = [pending EXCEPT ![x] = NoKey]
      BY <3>1, DeliverEffect, Zenon
    <3> QED
      BY <1>2, <3>2
  <2>2. ASSUME NEW x \in Peers, TooLong(x) PROVE pending'[p] = pending[p]
    BY <1>2, <2>2, Zenon DEF TooLong, Spent
  <2>3. pending' = pending \/ \E x \in Peers : send(x) \/ send_receipt(x) \/ TooLong(x)
    BY <1>0, Zenon DEF Next, vars, store, CallOk, CallFails, schedule_retry,
           Redial, LeaveQueue, Lose, Receive, SaveAccount, SaveSession, Apply, Kill
  <2> QED
    BY <2>1, <2>2, <2>3
<1>7. /\ 1 \in account[q] /\ 1 \in stored[q] /\ pending[p] = 1
      /\ HeaderKey(session[p]) = NoKey
      /\ sending[p].pc # "idle" => HeaderKey(sending[p].sess) = NoKey
      /\ \A m \in Flight : m.to = q => m.otk = NoKey
      /\ \A h \in handling : h.msg.to = q => h.pc # "account"
      /\ \A h \in handling : h.msg.to = p => HeaderKey(h.sess) = NoKey
  BY <1>1, <1>6, Zenon DEF UnusedKey
<1> HIDE DEF q
\* The other side cannot use the key up.
<1>8. ASSUME NEW m \in wire, Receive(m), m.to = q PROVE ~Starts(m)
  <2>1. m.otk = NoKey
    BY <1>7, <1>8, Zenon DEF Flight
  <2>2. NoKey \notin account[q]
    BY <1>1, <1>5 DEF NoKey
  <2> QED
    BY <1>8, <2>1, <2>2 DEF Starts
<1>9. 1 \in account'[q] /\ 1 \in stored'[q]
  <2>1. ASSUME NEW m \in wire, Receive(m) PROVE 1 \in account'[q] /\ 1 \in stored'[q]
    <3>1. stored' = stored /\ m.to \in Peers
      BY <2>1, ReceiveEffect DEF store
    <3>2. account' = account
          \/ (Starts(m) /\ account' = [account EXCEPT ![m.to] = account[m.to] \ {m.otk}])
      BY <2>1, ReceiveEffect, Zenon DEF Reads, Starts, Declines
    <3> QED
      BY <1>2, <1>5, <1>7, <1>8, <2>1, <3>1, <3>2, Zenon
  <2>2. ASSUME NEW h \in handling, SaveAccount(h) PROVE 1 \in account'[q] /\ 1 \in stored'[q]
    <3>1. /\ account' = account /\ stored' = [stored EXCEPT ![h.msg.to] = h.keys]
          /\ h.pc = "account"
      BY <2>2 DEF SaveAccount
    <3> QED
      BY <1>2, <1>5, <1>7, <3>1, Zenon
  <2>3. ASSUME NEW x \in Peers, Kill(x) PROVE 1 \in account'[q] /\ 1 \in stored'[q]
    <3>1. stored' = stored /\ account' = [account EXCEPT ![x] = stored[x]]
      BY <2>3 DEF Kill, store
    <3> QED
      BY <1>2, <1>5, <1>7, <3>1, Zenon
  <2> QED
    BY <1>0, <1>7, <2>1, <2>2, <2>3, KeysChange, Zenon
<1>10. HeaderKey(session'[p]) = NoKey
  <2>1. ASSUME NEW x \in Peers, sending[x].pc # "idle",
               session' = [session EXCEPT ![x] = sending[x].sess]
        PROVE  HeaderKey(session'[p]) = NoKey
    BY <1>2, <1>7, <2>1, Zenon
  <2>2. ASSUME NEW h \in handling, session' = [session EXCEPT ![h.msg.to] = h.sess]
        PROVE  HeaderKey(session'[p]) = NoKey
    BY <1>2, <1>7, <2>2, Zenon
  <2> QED
    BY <1>7, <2>1, <2>2, SessionChanges, Zenon
\* A key that still waits has not been used by the call that starts.
<1>11. ASSUME NEW x \in Peers, send(x) \/ send_receipt(x)
       PROVE  /\ x # p => sending'[p] = sending[p]
              /\ sending'[x].msg.to = Other(x)
              /\ x = p => HeaderKey(sending'[p].sess) = NoKey /\ sending'[p].msg.otk = NoKey
  <2>1. PICK id : Deliver(x, id)
    BY <1>11, SentIds
  <2>2. /\ \A y \in Peers : y # x => sending'[y] = sending[y]
        /\ sending'[x].msg.to = Other(x)
        /\ \/ /\ HeaderKey(sending'[x].sess) = HeaderKey(session[x])
              /\ sending'[x].msg.otk = HeaderKey(session[x])
           \/ pending' = [pending EXCEPT ![x] = NoKey]
    BY <2>1, DeliverEffect, Zenon
  <2>3. x = p => pending' # [pending EXCEPT ![x] = NoKey]
    BY <1>2
  <2> QED
    BY <1>7, <2>2, <2>3, Zenon
<1>12. sending'[p].pc # "idle" => HeaderKey(sending'[p].sess) = NoKey
  <2>1. ASSUME NEW m, Answered(m, "ok") \/ Answered(m, "error")
        PROVE  sending'[p].pc # "idle" => HeaderKey(sending'[p].sess) = NoKey
    BY <1>7, <2>1, Zenon DEF Answered
  <2>2. ASSUME NEW h \in handling, Apply(h)
        PROVE  sending'[p].pc # "idle" => HeaderKey(sending'[p].sess) = NoKey
    BY <2>1, <2>2, AnswerEffect, Zenon DEF Apply
  <2>3. ASSUME NEW m \in wire, Receive(m)
        PROVE  sending'[p].pc # "idle" => HeaderKey(sending'[p].sess) = NoKey
    BY <1>7, <2>1, <2>3, ReceiveEffect, Zenon DEF Reads, Starts, Declines
  <2>4. ASSUME NEW x \in Peers, sending' = [sending EXCEPT ![x] = Idle]
        PROVE  sending'[p].pc # "idle" => HeaderKey(sending'[p].sess) = NoKey
    BY <1>7, <2>4, IdleEffect, Zenon
  <2> QED
    BY <1>7, <1>11, <2>2, <2>3, <2>4, SendingChanges, Zenon
<1>13. \A m \in Flight' : m.to = q => m.otk = NoKey
  <2> SUFFICES ASSUME NEW m \in Flight', m.to = q PROVE m.otk = NoKey
    OBVIOUS
  <2>1. ASSUME NEW x \in Peers, send(x) \/ send_receipt(x), m = sending'[x].msg
        PROVE  m.otk = NoKey
    <3>1. x = p \/ x = q
      BY TwoPeers DEF q
    <3> QED
      BY <1>5, <1>11, <2>1, <3>1
  <2> QED
    BY <1>7, <2>1, FlightStep, Zenon
<1>14. /\ \A h \in handling' : h.msg.to = q => h.pc # "account"
       /\ \A h \in handling' : h.msg.to = p => HeaderKey(h.sess) = NoKey
  <2> SUFFICES ASSUME NEW h \in handling'
               PROVE  /\ h.msg.to = q => h.pc # "account"
                      /\ h.msg.to = p => HeaderKey(h.sess) = NoKey
    OBVIOUS
  <2>1. ASSUME NEW m \in wire, Receive(m)
        PROVE  /\ h.msg.to = q => h.pc # "account"
               /\ h.msg.to = p => HeaderKey(h.sess) = NoKey
    <3>1. \/ h \in handling
          \/ h.msg = m /\ h.pc = "session" /\ HeaderKey(h.sess) \in {HeaderKey(session[m.to]), NoKey}
          \/ h.msg = m /\ Starts(m) /\ HeaderKey(h.sess) = NoKey
      <4>1. CASE Reads(m)
        BY <4>1 DEF Reads
      <4>2. CASE Starts(m)
        <5>1. PICK g : /\ handling' = handling \cup {g}
                       /\ g.msg = m /\ HeaderKey(g.sess) = NoKey
          BY <4>2, Zenon DEF Starts
        <5> QED
          BY <4>2, <5>1
      <4>3. CASE Declines(m)
        BY <4>3 DEF Declines
      <4> QED
        BY <2>1, <4>1, <4>2, <4>3, ReceiveEffect, Zenon
    <3> QED
      BY <1>7, <1>8, <2>1, <3>1, Zenon
  <2>2. ASSUME NEW g \in handling, SaveAccount(g) \/ SaveSession(g)
        PROVE  /\ h.msg.to = q => h.pc # "account"
               /\ h.msg.to = p => HeaderKey(h.sess) = NoKey
    <3>1. Proceed(g, "session") \/ Proceed(g, "apply")
      BY <2>2, Zenon DEF SaveAccount, SaveSession
    <3>2. \/ h \in handling
          \/ h.msg = g.msg /\ h.sess = g.sess /\ h.pc # "account"
      BY <3>1, ProceedEffect
    <3> QED
      BY <1>7, <3>2, Zenon
  <2> QED
    BY <1>7, <2>1, <2>2, HandlingChanges, Zenon
<1> QED
  BY <1>6, <1>7, <1>9, <1>10, <1>12, <1>13, <1>14, Zenon DEF UnusedKey, q

\* Two clients that have just paired.
LEMMA SessionInit == Init => Shape /\ ReceiptInv /\ KeyInv
<1> SUFFICES ASSUME Init PROVE Shape /\ ReceiptInv /\ KeyInv
  OBVIOUS
<1>1. /\ Idle.pc = "idle" /\ DOMAIN Idle = {"pc", "sess", "msg"} /\ Idle.sess = NoSession
      /\ \A p \in Peers : sending[p] = Idle
  BY Zenon DEF Idle, Init
<1>2. Flight = {}
  BY <1>1 DEF Flight, Init
<1>3. Shape
  <2>1. /\ session = [p \in Peers |-> session[p]] /\ \A p \in Peers : IsSession(session[p])
        /\ sending = [p \in Peers |-> sending[p]]
        /\ \A p \in Peers : DOMAIN sending[p] = {"pc", "sess", "msg"} /\ IsSession(sending[p].sess)
    BY <1>1, NewSessions, Zenon DEF Init
  <2>2. /\ account \in [Peers -> SUBSET Nat] /\ stored \in [Peers -> SUBSET Nat]
        /\ pending \in [Peers -> Nat] /\ pairings \in Nat \ {0}
        /\ owed \in [Peers -> SUBSET Ids] /\ chats \in [Peers -> Nat]
        /\ handling = {}
    BY DEF Init
  <2> QED
    BY <1>1, <1>2, <2>1, <2>2, Zenon DEF Shape
<1>4. ReceiptInv
  BY <1>1, <1>2 DEF ReceiptInv, DeliveredIsStored, Init
<1>5. KeyInv
  <2>1. ASSUME NEW p \in Peers PROVE UnusedKey(p)
    <3>1. Other(p) \in Peers
      BY TwoPeers
    <3> QED
      BY <1>1, <1>2, <3>1, NewSessions, Zenon DEF UnusedKey, Init
  <2> QED
    BY <2>1 DEF KeyInv, Init
<1> QED
  BY <1>3, <1>4, <1>5

\* The invariants together, for every behaviour.
LEMMA SessionInvariant == Spec => [](Shape /\ ReceiptInv /\ KeyInv)
<1>1. Shape /\ ReceiptInv /\ KeyInv /\ [Next]_vars => (Shape /\ ReceiptInv /\ KeyInv)'
  BY ShapeStep, ReceiptStep, KeyStep
<1> QED
  BY <1>1, SessionInit, PTL DEF Spec

\* A message its sender shows as Delivered is in the receiver's store, for any
\* number of messages, pairings, lost answers, redials and kills.
THEOREM DeliverySafe == Spec => []DeliveredIsStored
<1>1. ReceiptInv => DeliveredIsStored
  BY DEF ReceiptInv
<1> QED
  BY <1>1, SessionInvariant, PTL

\* Until the clients pair again, a one-time key that waits to be used has its
\* private half with the peer, in memory and on disk.
THEOREM FirstKeySafe == Spec => []FirstKeyUsable
<1>1. KeyInv => FirstKeyUsable
  BY DEF KeyInv, UnusedKey, FirstKeyUsable, PendingKeyUsable
<1> QED
  BY <1>1, SessionInvariant, PTL
=============================================================================
