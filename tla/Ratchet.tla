------------------------------- MODULE Ratchet -------------------------------
(***************************************************************************)
(* The double ratchet of an Olm session (vodozemac, behind the wrappers of *)
(* pm-crypto/session.rs), as far as it decides what decrypts.  A chain is  *)
(* the sequence of ratchet keys that led to it; its first key stands for   *)
(* the key agreement that the one-time key took part in.                   *)
(***************************************************************************)
EXTENDS Naturals, Sequences

NoKey == 0  \* one-time keys are numbered from 1

\* A session one has created, and one made from the peer's first message.
Outbound(key, otk) ==
  [chain |-> <<key>>, mine |-> TRUE, idx |-> 0, known |-> {}, used |-> {}, otk |-> otk]

Inbound(m) ==
  [chain |-> m.chain, mine |-> FALSE, idx |-> 0, known |-> {m.chain},
   used |-> {<<m.chain, m.idx>>}, otk |-> NoKey]

\* Sending after having received starts a chain with a new key.
Turned(s, key) ==
  IF s.mine THEN s ELSE [s EXCEPT !.chain = Append(@, key), !.mine = TRUE, !.idx = 0]

Advanced(s) == [s EXCEPT !.idx = @ + 1]

OnKnownChain(s, m) == m.chain \in s.known /\ <<m.chain, m.idx>> \notin s.used
OnNextChain(s, m)  ==
  s.mine /\ m.chain # <<>> /\ m.chain = Append(s.chain, m.chain[Len(m.chain)])

CanDecrypt(s, m) == OnKnownChain(s, m) \/ OnNextChain(s, m)

Decrypted(s, m) ==
  IF OnKnownChain(s, m)
  THEN [s EXCEPT !.used = @ \cup {<<m.chain, m.idx>>}]
  ELSE [s EXCEPT !.chain = m.chain, !.mine = FALSE, !.idx = 0,
                 !.known = @ \cup {m.chain}, !.used = @ \cup {<<m.chain, m.idx>>}]

\* Envelopes are pre-key messages until the session has decrypted one.
HeaderKey(s) == IF s.known = {} THEN s.otk ELSE NoKey
=============================================================================
