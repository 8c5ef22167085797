------------------------------- MODULE Padding -------------------------------
(***************************************************************************)
(* The two padding schemes, for data of a given length: fixed buckets for  *)
(* envelopes (pm-proto/padding.rs), powers of two for backups              *)
(* (pm-crypto/backup.rs).  A padded buffer is its size and the length its  *)
(* prefix declares; the bytes themselves are copied.                       *)
(***************************************************************************)
EXTENDS Naturals, FiniteSetsExt

CONSTANT Buckets  \* BUCKETS

ASSUME PaddingAssumption == Buckets \subseteq Nat

TooLarge == [size |-> 0, declared |-> 0]  \* ProtoError::TooLargeToPad

LEN_PREFIX_SIZE == 4

\* Mutant: the prefix is left out of what must fit.
pad_NoPrefix(len) ==
  LET fit == {b \in Buckets : b >= len} IN
  IF fit = {} THEN TooLarge ELSE [size |-> Min(fit), declared |-> len]

\* The smallest bucket the prefix and the data fit into.
pad(len) ==
  LET fit == {b \in Buckets : b >= len + LEN_PREFIX_SIZE} IN
  IF fit = {} THEN TooLarge ELSE [size |-> Min(fit), declared |-> len]

\* What unpad returns the length of: the declared bytes, if the buffer has them.
Unpads(p) == p.size >= LEN_PREFIX_SIZE /\ LEN_PREFIX_SIZE + p.declared <= p.size

MIN_PADDED_LEN    == 4096
BACKUP_LEN_PREFIX == 8

\* For a bundle of at most 2^24 bytes, sixteen times MAX_MESSAGE_SIZE.
next_power_of_two(n) == Min({i \in {2^k : k \in 0..24} : i >= n})

pad_backup(len) ==
  Max({MIN_PADDED_LEN, next_power_of_two(len + BACKUP_LEN_PREFIX)})

\* encrypt_backup: nonce, padded bundle, authentication tag.
encrypt_backup(len) == 24 + pad_backup(len) + 16
=============================================================================
