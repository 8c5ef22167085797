\* The owner and another client; lengths at, below and above the padding and frame
\* limits, a limit of two requests, a crash, with and without a data_dir.
SPECIFICATION Spec
CONSTANTS
  Remotes = {owner, other}
  Owner = owner
  Hashes = {h1, h2}
  Buckets = {256, 1024, 4096}
  Lengths = {252, 253, 4093}
  Bundles = {4088, 4089, 8185}
  MaxMessage = 9000
  MaxPerWindow = 2
  Window = 1
  MaxRegs = 2
  MaxBlobs = 2
  MaxRestarts = 1
INVARIANTS ConfirmedKept PaidFor ReadBack
