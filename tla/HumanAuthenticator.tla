------------------------- MODULE HumanAuthenticator -------------------------
(***************************************************************************)
(* The authenticator of the person: AuthenticatorService and its callbacks *)
(* (authenticator.rs) behind the service handler of main.rs, the PIN state *)
(* (pin_storage), encrypted credential backups (credential_backup.rs), and *)
(* the command line client that drives it (commands/client.rs).            *)
(*                                                                         *)
(* A command holds the operation lock from beginning to end, so that the   *)
(* commands of two clients interleave only between commands; a crash may   *)
(* fall anywhere.  The CTAP library is external: it decides whether a      *)
(* client is authorised and counts the attempts.                           *)
(***************************************************************************)
EXTENDS Integers, FiniteSets

CONSTANTS Creds,       \* credential identifiers
          Clients,     \* processes of the command line client
          MaxUv,       \* pin.max_uv_retries
          MaxBundles   \* bound on the bundles made

VARIABLES conf,      \* configuration: enforcement, always_uv, fingerprint, default backup state
          store,     \* the credential storage
          life,      \* history: whether a credential is still to be made, owed to the
                     \* person, or given up at the person's request
          pending,   \* pending_backups: credential -> bundle awaiting its commit
          made,      \* bundles made so far
          files,     \* bundles in files of the person
          op,        \* what the holder of the operation lock is in the middle of
          pinFile,   \* what the PIN state file holds
          chosen,    \* history: whether the person has set a PIN and not reset it
          verified,  \* history: the reads that had failed when built-in verification was
                     \* last accepted with a PIN chosen
          client     \* what each client is doing

vars == <<conf, store, life, pending, made, files, op, pinFile, chosen, verified, client>>

None == [is |-> "none"]
Torn == [is |-> "torn"]       \* a file that does not parse
Unread == [is |-> "unread"]   \* what a failed load gives
Idle == [cmd |-> "idle"]
NoPin == [set |-> "no", uv |-> MaxUv]

\* security.always_uv only matters to the callbacks when the PIN is optional.
Confs == {[enforcement |-> e, alwaysUv |-> a, default |-> d] :
            <<e, a>> \in {<<"required", FALSE>>, <<"optional", FALSE>>, <<"optional", TRUE>>,
                         <<"never", FALSE>>},
            d \in {"noteligible", "eligible"}}

\* A bundle of another machine may be among the files: the wrapping key that
\* opens it is not on this one.
Foreign == [cred : Creds, nr : {0}]

Init ==
  /\ conf \in Confs
  /\ store = [k \in Creds |-> None] /\ life = [k \in Creds |-> "new"]
  /\ pending = [k \in Creds |-> None] /\ made = 0
  /\ files \in SUBSET Foreign
  /\ op = Idle /\ pinFile = NoPin /\ chosen = "no" /\ verified = None
  /\ client = [c \in Clients |-> Idle]

-----------------------------------------------------------------------------
(* PIN state.                                                               *)

\* clamp_uv_retries, on every load and save.
Clamp(p) == [p EXCEPT !.uv = IF @ > MaxUv THEN MaxUv ELSE @]

\* load_pin_state: reading fails, or the file does not parse.
Load(readable) == IF readable /\ pinFile # Torn THEN Clamp(pinFile) ELSE Unread

IsSet(p) == p # Unread /\ p.set = "yes"

\* save_state truncates the file and then writes it.
Save(p) == pinFile' = Torn /\ op' = [cmd |-> "save", pin |-> Clamp(p)]

SaveEnds ==
  /\ op.cmd = "save" /\ pinFile' = op.pin /\ op' = Idle
  /\ UNCHANGED <<conf, store, life, pending, made, files, chosen, verified, client>>

SaveFails ==
  /\ op.cmd = "save" /\ op' = Idle
  /\ UNCHANGED <<conf, store, life, pending, made, files, pinFile, chosen, verified, client>>

-----------------------------------------------------------------------------
(* User verification.                                                       *)

\* refresh_built_in_uv_state, before every command: a state that cannot be read
\* counts as no PIN.
BuiltInUv(readable) == IF IsSet(Load(readable)) THEN "notconfigured" ELSE "configured"

\* verify_fingerprint: only a match accepts; no device, no program, no finger in
\* time deny.
Fingerprint(event) == IF event = "match" THEN "accepted" ELSE "denied"

\* show_confirmation_notification: on a server that only knows the default action
\* that one accepts; being closed, or anything else, denies.
Notification(server, event) ==
  IF event = "approve" \/ (server = "default" /\ event = "default") THEN "accepted" ELSE "denied"

Person(how, event) == IF how = "finger" THEN Fingerprint(event) ELSE Notification(how, event)

Events == {<<"finger", "match">>, <<"finger", "timeout">>, <<"explicit", "approve">>,
           <<"explicit", "default">>, <<"default", "default">>, <<"default", "closed">>}

\* request_up: asked only where the configuration says so.
RequestUp(wanted, event) == IF wanted THEN Notification(event[1], event[2]) ELSE "accepted"

\* request_uv without the look at the PIN.
RequestUvBlind(readable, event) == Person(event[1], event[2])

\* request_uv of the person's authenticator: denied to force the PIN, else the
\* finger or the notification decides.
RequestUv(readable, event) ==
  IF /\ IsSet(Load(readable))
     /\ \/ conf.enforcement = "required"
        \/ conf.enforcement = "optional" /\ conf.alwaysUv
  THEN "denied" ELSE Person(event[1], event[2])

\* Before each of its two commands a backup asks anew; a restore asks once.
NeedAuth == {"backup", "written", "restore"}

\* Client::get_uv_token_for_credential_management: the library asks for built-in
\* verification where it is configured and not blocked, and counts denials.
VerifyUser(c, first, second, event) ==
  LET p == Load(second) IN
  /\ op = Idle /\ client[c].cmd \in NeedAuth
  /\ BuiltInUv(first) = "configured" /\ (p # Unread => p.uv > 0)
  /\ LET answer == RequestUv(second, event) IN
     /\ verified' = IF answer = "denied" \/ chosen = "no" THEN None
                    ELSE [unread |-> {i \in 1 .. 2 : Load(<<first, second>>[i]) = Unread}]
     /\ IF answer = "accepted"
        THEN /\ client' = [client EXCEPT ![c] = [cmd |-> "authorised", for |-> @]]
             /\ UNCHANGED <<op, pinFile>>
        ELSE /\ IF p = Unread THEN UNCHANGED <<op, pinFile>>
                ELSE Save([p EXCEPT !.uv = @ - 1])
             /\ UNCHANGED client
  /\ UNCHANGED <<conf, store, life, pending, made, files, chosen>>

\* fallback_to_pin_auth: the library knows a PIN and is given the right one.
FallbackToPin(c) ==
  /\ op = Idle /\ client[c].cmd \in NeedAuth /\ IsSet(Load(TRUE))
  /\ client' = [client EXCEPT ![c] = [cmd |-> "authorised", for |-> @]]
  /\ UNCHANGED <<conf, store, life, pending, made, files, op, pinFile, chosen, verified>>

\* Neither works: the client gives up.  Any client may be stopped as well.
GiveUp(c) ==
  /\ client[c] # Idle /\ op = Idle /\ client' = [client EXCEPT ![c] = Idle]
  /\ UNCHANGED <<conf, store, life, pending, made, files, op, pinFile, chosen, verified>>

\* pin_set and pin_change: the library accepts and saves.
SetPin(c) ==
  /\ op = Idle /\ client[c] = Idle /\ pinFile # Torn
  /\ chosen' = "yes" /\ Save([pinFile EXCEPT !.set = "yes"])
  /\ UNCHANGED <<conf, store, life, pending, made, files, verified, client>>

\* pin_uv_reset: the authorisation is checked if the client sent one.
ResetUvRetries ==
  /\ op = Idle /\ pinFile # Torn /\ Save([pinFile EXCEPT !.uv = MaxUv])
  /\ UNCHANGED <<conf, store, life, pending, made, files, chosen, verified, client>>

-----------------------------------------------------------------------------
(* Credentials.                                                             *)

\* MakeCredential, after request_up: write_credential.
WriteCredential(k, wanted, event) ==
  /\ op = Idle /\ RequestUp(wanted, event) = "accepted"
  /\ life[k] = "new" /\ life' = [life EXCEPT ![k] = "owed"]
  /\ store' = [store EXCEPT ![k] = [name |-> 0, backup |-> conf.default]]
  /\ UNCHANGED <<conf, pending, made, files, op, pinFile, chosen, verified, client>>

\* delete goes ahead without an authorisation if it got none, and leaves it to
\* the library to refuse.
DeleteCredential(k) ==
  /\ op = Idle /\ store[k] # None
  /\ store' = [store EXCEPT ![k] = None] /\ life' = [life EXCEPT ![k] = "givenup"]
  /\ UNCHANGED <<conf, pending, made, files, op, pinFile, chosen, verified, client>>

\* rename: the fields that were not given are sent back as they were fetched.
RenameFetch(c, k) ==
  /\ op = Idle /\ client[c] = Idle /\ store[k] # None
  /\ client' = [client EXCEPT ![c] = [cmd |-> "rename", cred |-> k]]
  /\ UNCHANGED <<conf, store, life, pending, made, files, op, pinFile, chosen, verified>>

RenameSend(c) ==
  /\ op = Idle /\ client[c].cmd = "rename" /\ client' = [client EXCEPT ![c] = Idle]
  /\ LET k == client[c].cred IN
     IF store[k] = None THEN UNCHANGED store
     ELSE store' = [store EXCEPT ![k] = [name |-> 1, backup |-> @.backup]]
  /\ UNCHANGED <<conf, life, pending, made, files, op, pinFile, chosen, verified>>

\* reset: the library empties the storage and the PIN state.
Reset ==
  /\ op = Idle /\ store' = [k \in Creds |-> None]
  /\ life' = [k \in Creds |-> IF life[k] = "owed" THEN "givenup" ELSE life[k]]
  /\ chosen' = "no" /\ Save(NoPin)
  /\ UNCHANGED <<conf, pending, made, files, verified, client>>

-----------------------------------------------------------------------------
(* Backups.                                                                 *)

StartBackup(c, k) ==
  /\ client[c] = Idle /\ client' = [client EXCEPT ![c] = [cmd |-> "backup", cred |-> k]]
  /\ UNCHANGED <<conf, store, life, pending, made, files, op, pinFile, chosen, verified>>

\* Only eligible credentials are exported; the bundle says backed up.
Exportable(k) == store[k] # None /\ store[k].backup # "noteligible"

\* handle_backup_command, prepare.
PrepareBackup(c) ==
  /\ op = Idle /\ client[c].cmd = "authorised" /\ client[c].for.cmd = "backup"
  /\ LET k == client[c].for.cred
         b == [cred |-> k, nr |-> made + 1]
     IN IF ~Exportable(k)
        THEN client' = [client EXCEPT ![c] = Idle] /\ UNCHANGED <<pending, made>>
        ELSE /\ made < MaxBundles /\ made' = made + 1
             /\ pending' = [pending EXCEPT ![k] = b]
             /\ client' = [client EXCEPT ![c] = [cmd |-> "prepared", bundle |-> b]]
  /\ UNCHANGED <<conf, store, life, files, op, pinFile, chosen, verified>>

\* As WriteBackup, taking a failed write for a file.
WriteBackupUnchecked(c, written) ==
  /\ client[c].cmd = "prepared"
  /\ files' = IF written THEN files \cup {client[c].bundle} ELSE files
  /\ client' = [client EXCEPT ![c].cmd = "written"]
  /\ UNCHANGED <<conf, store, life, pending, made, op, pinFile, chosen, verified>>

\* atomic_write_backup: the file has all of the bundle or is not there.
WriteBackup(c, written) ==
  /\ client[c].cmd = "prepared"
  /\ IF written
     THEN /\ files' = files \cup {client[c].bundle}
          /\ client' = [client EXCEPT ![c].cmd = "written"]
     ELSE client' = [client EXCEPT ![c] = Idle] /\ UNCHANGED files
  /\ UNCHANGED <<conf, store, life, pending, made, op, pinFile, chosen, verified>>

\* handle_backup_command, commit: of the bundle last prepared for the credential.
\* A failing write leaves it pending.
CommitBackup(c) ==
  /\ op = Idle /\ client[c].cmd = "authorised" /\ client[c].for.cmd = "written"
  /\ LET b == client[c].for.bundle IN
     \/ /\ pending[b.cred] = b /\ store[b.cred] # None
        /\ store' = [store EXCEPT ![b.cred] = [@ EXCEPT !.backup = "backedup"]]
        /\ pending' = [pending EXCEPT ![b.cred] = None]
     \/ UNCHANGED <<store, pending>>
  /\ client' = [client EXCEPT ![c] = Idle]
  /\ UNCHANGED <<conf, life, made, files, op, pinFile, chosen, verified>>

StartRestore(c, b, replace) ==
  /\ client[c] = Idle /\ b \in files
  /\ client' = [client EXCEPT ![c] = [cmd |-> "restore", bundle |-> b, replace |-> replace]]
  /\ UNCHANGED <<conf, store, life, pending, made, files, op, pinFile, chosen, verified>>

\* As Decrypts, without opening the bundle.
DecryptsAny(b) == b \in files

\* decrypt_credential: the wrapping key of the recipient is here and fits.
Decrypts(b) == b.nr > 0

\* handle_restore_command: nothing is touched unless the bundle opens; without
\* replace an existing credential stays.
RestoreBegins(c) ==
  /\ op = Idle /\ client[c].cmd = "authorised" /\ client[c].for.cmd = "restore"
  /\ LET r == client[c].for IN
     IF Decrypts(r.bundle) /\ (store[r.bundle.cred] = None \/ r.replace)
     THEN /\ op' = [cmd |-> "restore", bundle |-> r.bundle, old |-> store[r.bundle.cred]]
          /\ store' = [store EXCEPT ![r.bundle.cred] = None]
     ELSE UNCHANGED <<op, store>>
  /\ client' = [client EXCEPT ![c] = Idle]
  /\ UNCHANGED <<conf, life, pending, made, files, pinFile, chosen, verified>>

\* The write; if it fails, what was there is written back, and what becomes of
\* that is not looked at.
RestoreWrites ==
  /\ op.cmd = "restore" /\ op' = Idle
  /\ LET k == op.bundle.cred IN
     \/ /\ Decrypts(op.bundle)
        /\ store' = [store EXCEPT ![k] = [name |-> 0, backup |-> "backedup"]]
        /\ life' = [life EXCEPT ![k] = "owed"]
     \/ store' = [store EXCEPT ![k] = op.old] /\ UNCHANGED life
     \/ UNCHANGED <<store, life>>
  /\ UNCHANGED <<conf, pending, made, files, pinFile, chosen, verified, client>>

\* The daemon dies and is started again: only files survive.
Crash ==
  /\ op' = Idle /\ pending' = [k \in Creds |-> None]
  /\ UNCHANGED <<conf, store, life, made, files, pinFile, chosen, verified, client>>

-----------------------------------------------------------------------------
Next ==
  \/ SaveEnds \/ SaveFails \/ ResetUvRetries \/ Reset \/ RestoreWrites \/ Crash
  \/ \E c \in Clients :
       \/ \E f, s \in BOOLEAN, e \in Events : VerifyUser(c, f, s, e)
       \/ FallbackToPin(c) \/ GiveUp(c) \/ SetPin(c) \/ RenameSend(c)
       \/ PrepareBackup(c) \/ CommitBackup(c) \/ RestoreBegins(c)
       \/ \E k \in Creds : RenameFetch(c, k) \/ StartBackup(c, k)
       \/ \E w \in BOOLEAN : WriteBackup(c, w)
       \/ \E b \in files, r \in BOOLEAN : StartRestore(c, b, r)
  \/ \E k \in Creds : 
       \/ DeleteCredential(k)
       \/ \E w \in BOOLEAN, e \in Events : WriteCredential(k, w, e)

Spec == Init /\ [][Next]_vars

-----------------------------------------------------------------------------
(* Properties.                                                              *)

Stored(k) == store[k] # None
InFile(k) == \E b \in files : b.cred = k /\ b.nr > 0

\* Backups neither lose nor invent anything, whatever fails or crashes between
\* two commands or inside one: a credential that was made, and that nobody asked
\* to be deleted, is in the storage, or in a file from which this machine can
\* restore it; and one that says it is backed up has such a file.
BackupsHold ==
  \A k \in Creds :
    /\ life[k] = "owed" => Stored(k) \/ InFile(k)
    /\ Stored(k) /\ store[k].backup = "backedup" => InFile(k)

\* A PIN the person has set is enforced: where the configuration wants the PIN,
\* a built-in verification is accepted only if the PIN state could not be read
\* either of the two times a command reads it, otherwise only if it could not
\* be read the first time.
PinHolds ==
  verified # None =>
    /\ 1 \in verified.unread
    /\ conf.enforcement = "required" => 2 \in verified.unread
=============================================================================
