---------------------------- MODULE DeviceStore -----------------------------
(***************************************************************************)
(* How a device comes by its identity and its one SQLCipher file: the      *)
(* flows of the app (client.tsx: open, create, restore, import), the       *)
(* constructors of pm-core they call, the migrations of pm-store, and      *)
(* restore_into.                                                           *)
(*                                                                         *)
(* Every statement is committed by itself, so the process may stop between *)
(* any two of them; what was written stays.  A phrase stands for the seed  *)
(* it encodes.                                                             *)
(***************************************************************************)
EXTENDS Naturals, Sequences

CONSTANTS
  Phrases,     \* recovery phrases
  Old,         \* the phrase whose bundle is on a Server and in a file
  None,
  Statements,  \* how many SQL statements each migration has
  Writes,      \* next_write_n of the bundle's contact
  Messages,    \* the messages of the bundle's contact, as items
  MaxStops,    \* bound on kills and failed steps
  MaxRestores  \* bound on the times a restore or an import is tried

Fields == {"account", "own_addr", "seq", "contact", "addr", "secret", "n", "session",
           "transport", "otk"}

Items == Fields \cup {Messages[i] : i \in DOMAIN Messages}

VARIABLES
  keychain,  \* the seed phrase saved on the device
  file,      \* the key of the file, its user_version, the statements applied
  row,       \* what the tables hold
  flow,      \* the call of the app that is going on
  status,    \* ClientState of the app; "off" when it is not running
  known,     \* phrases the user has written down
  used,      \* history: phrases generated so far
  stops,     \* kills and failures so far
  torn,      \* history: a migration was stopped half-way
  begun,     \* history: how many times restore_into was begun
  lost       \* history: phrases of creations stopped before they were saved

history == <<used, stops, torn, begun, lost>>
deviceVars == <<keychain, file, row, flow, status, known, history>>
-----------------------------------------------------------------------------
\* Keys derived with distinct labels from one seed.
Identity(p) ==
  [k \in {"signing_key", "mailbox_key", "backup_key", "backup_location_key",
          "transport_key", "server_transport_key"} |-> <<k, p>>]

Key(p) == Identity(p).mailbox_key

ASSUME StoreAssumption ==
  /\ Old \in Phrases /\ None \notin Phrases /\ \A p \in Phrases : Key(p) # None
  /\ Writes \in Nat
  /\ Messages \in Seq(Items \ Fields)
  /\ \A i, j \in DOMAIN Messages : Messages[i] = Messages[j] => i = j

Latest == Len(Statements)

\* The statements of the first v migrations.
Through(v) == UNION {{i} \X (1..Statements[i]) : i \in 1..v}

\* What restore_into writes, in its order.
Script ==
  <<"account", "own_addr", "seq", "contact", "addr", "secret">>
    \o [i \in 1..Writes |-> "n"] \o <<"session", "transport", "otk">> \o Messages

\* A value of the bundle is 1; a fresh account, or the address restore was
\* given, is 2.
Empty    == [i \in Items |-> 0]
Restored == [[i \in Items |-> 1] EXCEPT !["n"] = Writes]

NoFlow == [kind |-> "none", phrase |-> None, at |-> "none", done |-> 0]
NoFile == [key |-> None, version |-> 0, applied |-> {}]

DeviceTypeOK ==
  /\ keychain \in Phrases \cup {None}
  /\ file.key \in {Key(p) : p \in Phrases} \cup {None}
  /\ file.version \in 0..Latest /\ file.applied \subseteq Through(Latest)
  /\ row \in [Items -> Nat]
  /\ flow.kind \in {"none", "open", "create", "phrase", "restore", "import"}
  /\ flow.at \in {"none", "fetch", "migrate", "account", "script", "own_addr", "save"}
  /\ status \in {"off", "loading", "needs-identity", "ready", "error"}
  /\ known \subseteq Phrases /\ used \subseteq Phrases /\ lost \subseteq used

\* A first launch, or the first one of a new release.
DeviceInit ==
  /\ \/ keychain = None /\ file = NoFile /\ row = Empty
     \/ \E v \in 1..Latest :
          /\ keychain = Old
          /\ file = [key |-> Key(Old), version |-> v, applied |-> Through(v)]
          /\ row = Restored
  /\ flow = NoFlow
  /\ status = "off"
  /\ known = {Old} /\ used = {Old} /\ lost = {}
  /\ stops = 0 /\ torn = FALSE /\ begun = 0
-----------------------------------------------------------------------------
\* FfiClient::open, restore or import_backup is called with a valid phrase.
Begin(kind, p, at) ==
  /\ flow' = [kind |-> kind, phrase |-> p, at |-> at, done |-> 0]
  /\ status' = "loading"

Goto(at) == flow' = [flow EXCEPT !.at = at, !.done = 0]

\* At launch, and when the user presses Retry.
\* Mutant: at launch only.
openExisting_NoRetry ==
  /\ status = "off"
  /\ \/ keychain = None /\ status' = "needs-identity" /\ flow' = NoFlow
     \/ keychain # None /\ Begin("open", keychain, "migrate")
  /\ UNCHANGED <<keychain, file, row, known, history>>

openExisting ==
  /\ status \in {"off", "error"}
  /\ \/ keychain = None /\ status' = "needs-identity" /\ flow' = NoFlow
     \/ keychain # None /\ Begin("open", keychain, "migrate")
  /\ UNCHANGED <<keychain, file, row, known, history>>

createIdentity ==
  /\ status = "needs-identity"
  /\ \E p \in Phrases \ used : Begin("create", p, "migrate") /\ used' = used \cup {p}
  /\ UNCHANGED <<keychain, file, row, known, stops, torn, begun, lost>>

\* With a Server address, or without one.
restoreFromPhrase ==
  /\ status = "needs-identity"
  /\ \E p \in known : \/ begun < MaxRestores /\ Begin("restore", p, "fetch")
                     \/ Begin("phrase", p, "migrate")
  /\ UNCHANGED <<keychain, file, row, known, history>>

importFromBackup ==
  /\ status = "needs-identity" /\ begun < MaxRestores
  /\ \E p \in known : Begin("import", p, "fetch")
  /\ UNCHANGED <<keychain, file, row, known, history>>

Fail == flow' = NoFlow /\ status' = "error"

Decrypts(p) == Identity(p).backup_key = Identity(Old).backup_key

\* Fetch the bundle, or read the chosen file, and decrypt it.
Fetch ==
  /\ flow.at = "fetch"
  /\ \/ Decrypts(flow.phrase) /\ Goto("migrate") /\ UNCHANGED status
     \/ ~Decrypts(flow.phrase) /\ Fail
  /\ UNCHANGED <<keychain, file, row, known, history>>
-----------------------------------------------------------------------------
(* Store::open.  Reading user_version fails when the file has another key. *)

Readable == file.key \in {None, Key(flow.phrase)}

\* The next statement of the migration that is going on.
Statement == <<file.version + 1, flow.done + 1>>

WrongKey ==
  /\ flow.at = "migrate" /\ ~Readable
  /\ Fail
  /\ UNCHANGED <<keychain, file, row, known, history>>

\* CREATE TABLE and ADD COLUMN fail when they have been applied before.
Apply ==
  /\ flow.at = "migrate" /\ Readable /\ file.version < Latest
  /\ flow.done < Statements[file.version + 1]
  /\ \/ /\ Statement \notin file.applied
        /\ file' = [file EXCEPT !.key = Key(flow.phrase), !.applied = @ \cup {Statement}]
        /\ flow' = [flow EXCEPT !.done = @ + 1] /\ UNCHANGED status
     \/ Statement \in file.applied /\ Fail /\ UNCHANGED file
  /\ UNCHANGED <<keychain, row, known, history>>

SetVersion ==
  /\ flow.at = "migrate" /\ Readable /\ file.version < Latest
  /\ flow.done = Statements[file.version + 1]
  /\ file' = [file EXCEPT !.version = @ + 1]
  /\ flow' = [flow EXCEPT !.done = 0]
  /\ UNCHANGED <<keychain, row, status, known, history>>

Migrated ==
  /\ flow.at = "migrate" /\ Readable /\ file.version = Latest
  /\ \/ flow.kind \in {"restore", "import"} /\ Goto("script") /\ begun' = begun + 1
     \/ flow.kind \notin {"restore", "import"} /\ Goto("account") /\ UNCHANGED begun
  /\ UNCHANGED <<keychain, file, row, status, known, used, stops, torn, lost>>
-----------------------------------------------------------------------------
\* Client::open: the stored account, or a new one.
LoadAccount ==
  /\ flow.at = "account"
  /\ row' = IF row["account"] = 0 THEN [row EXCEPT !["account"] = 2] ELSE row
  /\ Goto("save")
  /\ UNCHANGED <<keychain, file, status, known, history>>

\* One call of restore_into: next_write_n is counted up, a message is
\* inserted, and fails if it is there, and everything else is set.
\* Mutant: the first increment sets the counter.
Write_SetsN(i) == row' = [row EXCEPT ![i] = 1]

Write(i) == row' = [row EXCEPT ![i] = IF i = "n" THEN @ + 1 ELSE 1]

Clashes(i) == row[i] = 1 /\ \E k \in DOMAIN Messages : Messages[k] = i

RestoreNext ==
  /\ flow.at = "script" /\ flow.done < Len(Script)
  /\ LET i == Script[flow.done + 1] IN
     \/ ~Clashes(i) /\ Write(i) /\ flow' = [flow EXCEPT !.done = @ + 1] /\ UNCHANGED status
     \/ Clashes(i) /\ Fail /\ UNCHANGED row
  /\ UNCHANGED <<keychain, file, known, history>>

RestoreDone ==
  /\ flow.at = "script" /\ flow.done = Len(Script)
  /\ Goto(IF flow.kind = "restore" THEN "own_addr" ELSE "save")
  /\ UNCHANGED <<keychain, file, row, status, known, history>>

\* Client::restore keeps the address it fetched the bundle from.
SetOwnAddr ==
  /\ flow.at = "own_addr"
  /\ row' = [row EXCEPT !["own_addr"] = 2]
  /\ Goto("save")
  /\ UNCHANGED <<keychain, file, status, known, history>>

\* The client is there: openExisting is done, the others save the phrase.
\* Mutant: they do not save it.
Ready_NotSaved ==
  /\ flow.at = "save"
  /\ status' = "ready"
  /\ Goto("none")
  /\ UNCHANGED <<keychain, file, row, known, history>>

Ready ==
  /\ flow.at = "save"
  /\ keychain' = flow.phrase
  /\ status' = "ready"
  /\ Goto("none")
  /\ UNCHANGED <<file, row, known, history>>

\* The user copies the phrase from the settings.
WriteDown ==
  /\ status = "ready" /\ keychain \in Phrases \ known
  /\ known' = known \cup {keychain}
  /\ UNCHANGED <<keychain, file, row, flow, status, history>>

\* The process is killed, or a step fails: the disk, the keychain, binding the
\* endpoint, the Server.
Stop(st) ==
  /\ status = "loading"
  /\ stops < MaxStops /\ stops' = stops + 1
  /\ status' = st /\ flow' = NoFlow
  /\ torn' = (torn \/ (flow.at = "migrate" /\ flow.done > 0))
  /\ lost' = IF flow.kind = "create" THEN lost \cup {flow.phrase} ELSE lost
  /\ UNCHANGED <<keychain, file, row, known, used, begun>>

\* The app is closed while nothing is going on.
Close ==
  /\ status \in {"ready", "error", "needs-identity"}
  /\ status' = "off" /\ flow' = NoFlow
  /\ UNCHANGED <<keychain, file, row, known, history>>
-----------------------------------------------------------------------------
Step == \/ Fetch \/ WrongKey \/ Apply \/ SetVersion \/ Migrated \/ LoadAccount
        \/ RestoreNext \/ RestoreDone \/ SetOwnAddr \/ Ready

DeviceNext == \/ openExisting \/ createIdentity \/ restoreFromPhrase \/ importFromBackup
        \/ Step \/ WriteDown \/ Close
        \/ Stop("off") \/ Stop("error")

DeviceSpec == DeviceInit /\ [][DeviceNext]_deviceVars

\* A call of the app runs on by itself, and the user opens the app, and presses
\* Retry, again and again.
FairSpec == DeviceSpec /\ WF_deviceVars(Step) /\ WF_deviceVars(openExisting)
-----------------------------------------------------------------------------
\* A store nobody has the phrase of is left behind only by a creation that was
\* stopped between opening the store and saving the phrase (createIdentity).
StoreReachable ==
  flow.kind = "none" /\ file.key # None =>
    \E p \in known \cup {keychain} \cup lost : file.key = Key(p)

\* A store that has been restored, and not been restored before, holds what the
\* bundle holds: restore_into counts next_write_n up from 0 and inserts every
\* message, and the address is the one the Server answered on.
RestoredWhole ==
  status = "ready" /\ begun = 1 /\ flow.kind \in {"restore", "import"} =>
    row = IF flow.kind = "restore" THEN [Restored EXCEPT !["own_addr"] = 2] ELSE Restored

\* restore_into is given a fresh, empty store, as its comment says.
RestoresIntoEmpty == flow.at = "script" /\ flow.done = 0 => row = Empty

\* A device with a phrase gets its client, however often it was stopped, unless
\* a migration was.
Opens == keychain # None ~> (status = "ready" \/ torn)
=============================================================================
