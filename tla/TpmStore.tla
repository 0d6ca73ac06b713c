------------------------------ MODULE TpmStore ------------------------------
(***************************************************************************)
(* Credentials and PIN state sealed to a TPM: the adapter with its shared  *)
(* storage key (tpm/mod.rs), the portable parent made from a recovery seed *)
(* (tpm/portable), the commands that provision, remove and migrate         *)
(* (commands/tpm.rs, tpm/migrate.rs), and the sealed PIN state             *)
(* (pin_storage/tpm.rs).                                                   *)
(*                                                                         *)
(* The daemon and a command are two processes over one directory and one   *)
(* TPM, and nothing keeps them apart.  The TPM is external: what is sealed *)
(* under a parent opens as long as that parent is there.                   *)
(***************************************************************************)
EXTENDS Integers, FiniteSets

CONSTANTS Creds,     \* credential identifiers
          Seeds,     \* recovery seeds
          MaxKeys,   \* bound on the storage keys generated
          MaxOwner   \* bound on the owner hierarchies: the TPM is cleared in between

VARIABLES tpm,       \* owner: the hierarchy, new when the TPM is cleared; handle: the
                     \* seed of the parent at the persistent handle
          meta,      \* portable_parent.json: a seed, None or Torn
          keyFile,   \* storage_key.tpm
          made,      \* storage keys generated
          recs,      \* the sealed credential files
          backup,    \* credentials with a copy in the backup directory
          daemon,    \* the running service
          cli,       \* the command in progress
          pinFile,   \* per mode, the sealed PIN state
          owed,      \* history: credentials acknowledged in legacy mode and not deleted
          chosen,    \* history: modes in which the person has set a PIN
          excuse,    \* history: why something sealed may be gone
          answer     \* history: what sealing last said, the TPM working

vars == <<tpm, meta, keyFile, made, recs, backup, daemon, cli, pinFile, owed, chosen, excuse,
          answer>>

None == [is |-> "none"]
Torn == [is |-> "torn"]
Modes == {"legacy", "portable"}
Down == [mode |-> "down"]
Idle == [do |-> "idle"]

\* derive_parent_material and build_parent_public: the seed decides the parent.
Seed(s) == [is |-> "seed", seed |-> s]

\* Records of older versions: sealed one by one under either parent.
OldRecords == {[is |-> "own", parent |-> [is |-> "owner", owner |-> 1]]}
                \cup {[is |-> "own", parent |-> Seed(s)] : s \in Seeds}

Init ==
  /\ tpm = [owner |-> 1, handle |-> None] /\ meta = None
  /\ keyFile = None /\ made = 0
  /\ recs \in [Creds -> OldRecords \cup {None}] /\ backup = {}
  /\ daemon = Down /\ cli = Idle
  /\ pinFile = [m \in Modes |-> None]
  /\ owed = {} /\ chosen = {} /\ excuse = {} /\ answer = "none"

-----------------------------------------------------------------------------
(* Sealing.                                                                 *)

\* sealing_parent_handle: the primary of the owner hierarchy, or the persistent
\* parent the metadata names.
Parent(mode) ==
  IF mode = "legacy" THEN [is |-> "owner", owner |-> tpm.owner]
  ELSE IF meta \in {None, Torn} THEN None ELSE tpm.handle

\* unseal_key: the file opens under the primary of the hierarchy that sealed it.
UnsealKey(f) == IF f.owner = tpm.owner THEN f.key ELSE None

\* ensure_master_key, the file not looked for.
MasterKeyFresh(d) ==
  IF d.mode = "portable" THEN None
  ELSE IF d.master # None THEN d.master
  ELSE IF made < MaxKeys THEN [is |-> "key", key |-> made + 1]
  ELSE None

\* ensure_master_key: in portable mode there is none; else the one in memory, the
\* one in the file if this TPM unseals it, or a new one.
MasterKey(d) ==
  IF d.mode = "portable" THEN None
  ELSE IF d.master # None THEN d.master
  ELSE IF keyFile # None THEN UnsealKey(keyFile)
  ELSE IF made < MaxKeys THEN [is |-> "key", key |-> made + 1]
  ELSE None

\* seal_key.
SealKey(k) == [is |-> "file", key |-> k, owner |-> tpm.owner]

\* A new key is sealed and written, whole, before it is used.
KeepKey(k) ==
  IF k # None /\ k.key = made + 1
  THEN keyFile' = SealKey(k) /\ made' = k.key
  ELSE UNCHANGED <<keyFile, made>>

\* seal_data: with the shared key, which portable mode does not have.
SealData(d) == IF MasterKey(d) = None THEN None ELSE [is |-> "shared", key |-> MasterKey(d)]

\* unseal_data: with the shared key, or with a key of its own under the parent.
Opens(r, d) ==
  \/ r.is = "shared" /\ d.master # None /\ d.master = r.key
  \/ r.is = "own" /\ r.parent = Parent(d.mode)

-----------------------------------------------------------------------------
(* The service.                                                             *)

\* new_with_options and initialize_master_key; build_portable_bundle needs the
\* metadata file and nothing else.
Start(mode) ==
  /\ daemon = Down
  /\ LET k == MasterKey([mode |-> mode, master |-> None]) IN
     /\ IF mode = "legacy" THEN k # None ELSE meta # None
     /\ KeepKey(k) /\ daemon' = [mode |-> mode, master |-> k, pin |-> Idle]
  /\ UNCHANGED <<tpm, meta, recs, backup, cli, pinFile, owed, chosen, excuse, answer>>

\* load_metadata and verify_parent: the parent the metadata describes is the one in
\* the TPM.
VerifyParent == meta \notin {None, Torn} /\ tpm.handle = meta

\* TpmCredentialKeyProvider: a signing key is generated, imported or used under it.
GenerateKey == VerifyParent
ImportKey == VerifyParent
SignWithKey == VerifyParent

\* read_credential_from_path: a record that opens.
Readable(c, d) == recs[c] # None /\ Opens(recs[c], d)

\* write_credential: a new credential, or the counter of one that was read.  In
\* portable mode the key provider is asked first.  seal_data takes the shared key.
Write(c) ==
  /\ daemon # Down /\ (recs[c] # None => Readable(c, daemon))
  /\ daemon.mode = "portable" => IF recs[c] = None THEN GenerateKey ELSE SignWithKey
  /\ LET r == SealData(daemon) IN
     IF r = None
     THEN /\ answer' = "refused" /\ UNCHANGED <<keyFile, made, recs, owed>>
     ELSE /\ KeepKey(r.key) /\ answer' = "sealed"
          /\ recs' = [recs EXCEPT ![c] = r]
          /\ owed' = IF daemon.mode = "legacy" THEN owed \cup {c} ELSE owed
  /\ UNCHANGED <<tpm, meta, backup, daemon, cli, pinFile, chosen, excuse>>

Delete(c) ==
  /\ daemon # Down /\ recs[c] # None /\ recs' = [recs EXCEPT ![c] = None]
  /\ owed' = owed \ {c}
  /\ UNCHANGED <<tpm, meta, keyFile, made, backup, daemon, cli, pinFile, chosen, excuse, answer>>

\* load_parent_key and load_portable_parent: the PIN's parent is found the same way,
\* by whatever is at the handle.
PinParent(mode) ==
  IF mode = "legacy" THEN [is |-> "owner", owner |-> tpm.owner]
  ELSE IF meta \in {None, Torn} THEN None ELSE tpm.handle

\* seal_tpm.
SealPin(mode) == [is |-> "pin", parent |-> PinParent(mode)]

\* unseal_tpm, load_pin_state: a torn file does not open.
PinOpens(mode) == pinFile[mode].is = "pin" /\ pinFile[mode].parent = PinParent(mode)

\* save_pin_state seals first, then truncates the file and writes it.
SavePin ==
  /\ daemon # Down /\ daemon.pin = Idle /\ PinParent(daemon.mode) # None
  /\ daemon' = [daemon EXCEPT !.pin = SealPin(daemon.mode)]
  /\ pinFile' = [pinFile EXCEPT ![daemon.mode] = Torn]
  /\ chosen' = chosen \ {daemon.mode}
  /\ UNCHANGED <<tpm, meta, keyFile, made, recs, backup, cli, owed, excuse, answer>>

SavePinEnds ==
  /\ daemon # Down /\ daemon.pin # Idle
  /\ pinFile' = [pinFile EXCEPT ![daemon.mode] = daemon.pin]
  /\ daemon' = [daemon EXCEPT !.pin = Idle] /\ chosen' = chosen \cup {daemon.mode}
  /\ UNCHANGED <<tpm, meta, keyFile, made, recs, backup, cli, owed, excuse, answer>>

\* The service ends, by itself or not.
Stop ==
  /\ daemon # Down /\ daemon' = Down
  /\ UNCHANGED <<tpm, meta, keyFile, made, recs, backup, cli, pinFile, owed, chosen, excuse,
                 answer>>

-----------------------------------------------------------------------------
(* passless tpm.                                                            *)

\* provision: refused while there is metadata.  The seed decides the parent.
ProvisionBegins(s) ==
  /\ cli = Idle /\ meta = None /\ cli' = [do |-> "provision", seed |-> s, at |-> "import"]
  /\ UNCHANGED <<tpm, meta, keyFile, made, recs, backup, daemon, pinFile, owed, chosen, excuse,
                 answer>>

\* wrap_for_import under a temporary primary, TPM2_Import, and the result persistent.
Import(s) == [tpm EXCEPT !.handle = Seed(s)]

\* PortableParent::provision imports the parent and makes it persistent; an object
\* that is not this parent is never evicted.
ProvisionPersists ==
  /\ cli.do = "provision" /\ cli.at = "import" /\ tpm.handle \in {None, Seed(cli.seed)}
  /\ tpm' = Import(cli.seed) /\ cli' = [cli EXCEPT !.at = "metadata"]
  /\ UNCHANGED <<meta, keyFile, made, recs, backup, daemon, pinFile, owed, chosen, excuse, answer>>

\* ... and writes the metadata, truncating the file first.
ProvisionWrites ==
  /\ cli.do = "provision" /\ cli.at = "metadata"
  /\ meta' = Torn /\ cli' = [cli EXCEPT !.at = "written"]
  /\ UNCHANGED <<tpm, keyFile, made, recs, backup, daemon, pinFile, owed, chosen, excuse, answer>>

ProvisionEnds ==
  /\ cli.do = "provision" /\ cli.at = "written" /\ meta' = tpm.handle /\ cli' = Idle
  /\ UNCHANGED <<tpm, keyFile, made, recs, backup, daemon, pinFile, owed, chosen, excuse, answer>>

\* remove --confirm: the parent leaves the TPM, then the metadata goes.
RemoveEvicts ==
  /\ cli = Idle /\ meta \notin {None, Torn} /\ tpm.handle # None
  /\ tpm' = [tpm EXCEPT !.handle = None] /\ cli' = [do |-> "remove"]
  /\ excuse' = excuse \cup {"removed"}
  /\ UNCHANGED <<meta, keyFile, made, recs, backup, daemon, pinFile, owed, chosen, answer>>

\* remove, the metadata left where it is.
RemoveEndsKeeping ==
  /\ cli.do = "remove" /\ cli' = Idle
  /\ UNCHANGED <<tpm, meta, keyFile, made, recs, backup, daemon, pinFile, owed, chosen, excuse,
                 answer>>

RemoveEnds ==
  /\ cli.do = "remove" /\ meta' = None /\ cli' = Idle
  /\ UNCHANGED <<tpm, keyFile, made, recs, backup, daemon, pinFile, owed, chosen, excuse, answer>>

\* A command fails, or is stopped, between two of its steps.
CommandStops ==
  /\ cli # Idle /\ cli' = Idle /\ excuse' = excuse \cup {"stopped"}
  /\ UNCHANGED <<tpm, meta, keyFile, made, recs, backup, daemon, pinFile, owed, chosen, answer>>

\* migrate_credentials: read by an adapter of its own in legacy mode, imported and
\* tested, copied to the backup directory, and written by a portable adapter.  What
\* the legacy adapter cannot open counts as migrated before.
MigrateOne(c, dry) ==
  /\ cli = Idle /\ meta # None /\ recs[c] # None
  /\ LET d == [mode |-> "legacy", master |-> None]
         k == IF recs[c].is = "shared" THEN MasterKey(d) ELSE None
         r == SealData([mode |-> "portable", master |-> None]) IN
     /\ KeepKey(k)
     /\ IF Readable(c, [d EXCEPT !.master = k]) /\ ~dry /\ ImportKey /\ SignWithKey
        THEN /\ backup' = backup \cup {c}
             /\ recs' = IF r = None THEN recs ELSE [recs EXCEPT ![c] = r]
             /\ answer' = IF r = None THEN "refused" ELSE "sealed"
        ELSE UNCHANGED <<backup, recs, answer>>
  /\ UNCHANGED <<tpm, meta, daemon, cli, pinFile, owed, chosen, excuse>>

\* The TPM is cleared while nothing uses it: a new hierarchy, nothing persistent.
ClearTpm ==
  /\ daemon = Down /\ cli = Idle /\ tpm.owner < MaxOwner
  /\ tpm' = [owner |-> tpm.owner + 1, handle |-> None] /\ excuse' = excuse \cup {"cleared"}
  /\ UNCHANGED <<meta, keyFile, made, recs, backup, daemon, cli, pinFile, owed, chosen, answer>>

-----------------------------------------------------------------------------
Next ==
  \/ \E mode \in Modes : Start(mode)
  \/ \E c \in Creds : Write(c) \/ Delete(c) \/ (\E dry \in BOOLEAN : MigrateOne(c, dry))
  \/ SavePin \/ SavePinEnds \/ Stop
  \/ \E s \in Seeds : ProvisionBegins(s)
  \/ ProvisionPersists \/ ProvisionWrites \/ ProvisionEnds
  \/ RemoveEvicts \/ RemoveEnds \/ CommandStops \/ ClearTpm

Spec == Init /\ [][Next]_vars

-----------------------------------------------------------------------------
(* What was acknowledged opens: a credential in every later run of the      *)
(* service in legacy mode unless the TPM was cleared, a PIN unless its      *)
(* parent is gone, whatever commands ran beside the service.                *)
StoredOpens ==
  daemon # Down =>
    /\ daemon.mode = "legacy" /\ "cleared" \notin excuse => \A c \in owed : Opens(recs[c], daemon)
    /\ daemon.mode \in chosen /\ daemon.pin = Idle /\ excuse = {}
         => PinOpens(daemon.mode)

(* With metadata on disk the parent is in the TPM, so that either status or *)
(* removal works; only a command stopped half way, or a cleared TPM, leaves *)
(* a store that can be neither removed nor provisioned.                     *)
ParentManaged == meta # None /\ cli = Idle /\ excuse \subseteq {"removed"} => meta = tpm.handle

(* "Credential metadata is sealed under the portable parent": with the      *)
(* parent in place and the TPM working, sealing a credential succeeds.      *)
PortableSeals == daemon.mode = "portable" => answer # "refused"
=============================================================================
