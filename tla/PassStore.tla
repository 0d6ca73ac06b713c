----------------------------- MODULE PassStore ------------------------------
(***************************************************************************)
(* Credentials and the PIN configuration in a password store that other    *)
(* machines and other programs change too: the adapter (pass/mod.rs) with  *)
(* its index and its cache of decrypted credentials (storage/index.rs),    *)
(* the wrapper that reloads it when the repository changes                 *)
(* (pass_refresh.rs), the transactions of the Git synchronisation          *)
(* (pass/sync.rs), and the PIN configuration (pin_storage/pass.rs).        *)
(*                                                                         *)
(* A storage call is a pipeline of steps and only this process is held off *)
(* by the storage lock: the person, or another program, may change the     *)
(* files between any two of them.  git and gpg are external.               *)
(***************************************************************************)
EXTENDS Integers, FiniteSets

CONSTANTS Creds,     \* credential identifiers
          MaxEdits   \* bound on the contents ever written

VARIABLES rank,      \* of each content, as a PIN configuration: modified_at, then version
          edits,     \* contents written so far
          tree,      \* the files: key -> content, 0 where there is none
          head,      \* the tree of the local HEAD commit
          base,      \* the tree last exchanged with the remote
          remote,    \* the tree at the remote
          setup,     \* how far the store is initialised: "keyed" has .gpg-id and no repository
          sync,      \* SyncState: enabled, depth, prepared, dirty; "down" when not running
          index,     \* CredentialIndexes
          cache,     \* CredentialCache: credential -> content, 0 where there is none
          iter,      \* credentials the current iteration has still to read
          gen,       \* indexed_generation
          call,      \* the storage call in progress
          lastConf,  \* last_config
          synced,    \* last_synced
          missed,    \* history: keys others changed since they were last indexed
          mine,      \* history: keys whose file this program wrote, until committed
          orphaned   \* history: those of them whose mark was lost

repo == <<tree, head, base, remote>>
adapter == <<index, cache, iter, gen>>
pin == <<lastConf, synced>>
history == <<missed, mine, orphaned>>
vars == <<rank, edits, repo, setup, sync, adapter, call, pin, history>>

Pin == "pin"                     \* pin_state.gpg
Keys == Creds \cup {Pin}
Torn == -1                       \* a file cut short
Unknown == -2                    \* no last_config, no last_synced
Idle == [at |-> "idle"]
Contents == 1 .. MaxEdits
Empty == [k \in Keys |-> 0]
NoSync == [is |-> "down", depth |-> 0, prepared |-> "no", dirty |-> "no"]
Running == sync.is # "down"
Enabled == sync.is = "enabled"

Init ==
  /\ rank \in [Contents -> 1 .. 2] /\ edits = 0
  /\ tree = Empty /\ head = Empty /\ base = Empty /\ remote = Empty
  /\ setup = "none" /\ sync = NoSync
  /\ index = {} /\ cache = Empty /\ iter = {} /\ gen = <<Empty, Empty>>
  /\ call = Idle /\ lastConf = Unknown /\ synced = Unknown
  /\ missed = {} /\ mine = {} /\ orphaned = {}

-----------------------------------------------------------------------------
(* The index and the generation it was made from.                           *)

\* load_credential_paths: names, never contents.
Paths == {c \in Creds : tree[c] # 0}

\* repository_generation: HEAD, and the names, sizes and times of the files.
Generation == <<head, [c \in Creds |-> tree[c]]>>

\* What the index or the cache has wrong about the files.
Stale == {c \in Creds : (c \in index) # (tree[c] # 0) \/ cache[c] \notin {0, tree[c]}}

\* record_current_generation: nothing is reloaded.  What is stale from here on
\* stays so until another change is noticed.
Record == gen' = Generation

\* The inner adapter is made anew: its constructor scans the directories.
Scan == index' = Paths /\ cache' = [k \in Keys |-> 0] /\ iter' = {} /\ missed' = {}

\* This program has written the file of k.
Wrote(k) ==
  IF Enabled THEN mine' = mine \cup {k} /\ orphaned' = orphaned \ {k}
  ELSE mine' = mine \ {k} /\ orphaned' = orphaned \ {k}

Goto(label) == call' = [call EXCEPT !.at = label]

-----------------------------------------------------------------------------
(* git, as the store library drives it (external).                          *)

Conflicting(k) == tree[k] # base[k] /\ remote[k] # base[k] /\ tree[k] # remote[k]

\* sync().prepare(): what the remote changed is merged, or nothing happens.
Pull ==
  \/ UNCHANGED <<repo, mine>>
  \/ /\ setup = "ready" /\ remote # base /\ \A k \in Keys : ~Conflicting(k)
     /\ LET merged(t) == [k \in Keys |-> IF remote[k] # base[k] THEN remote[k] ELSE t[k]] IN
        tree' = merged(tree) /\ head' = merged(head)
     /\ base' = remote /\ mine' = {k \in mine : tree'[k] = tree[k]}
     /\ UNCHANGED remote

Prepare ==
  Pull /\ missed' = IF Running THEN missed \cup {c \in Creds : tree'[c] # tree[c]} ELSE {}

\* sync().finalize(): everything is committed, then pushed; either may fail.  Without
\* a repository there is nothing to do.
Finalize(outcome) ==
  \/ outcome = "ok" /\ setup # "ready" /\ UNCHANGED <<repo, mine, orphaned>>
  \/ outcome = "failed" /\ UNCHANGED <<repo, mine, orphaned>>
  \/ /\ setup = "ready" /\ head' = tree /\ mine' = {} /\ orphaned' = {} /\ UNCHANGED tree
     /\ \/ outcome = "failed" /\ UNCHANGED <<base, remote>>
        \/ outcome = "ok" /\ remote = base /\ base' = tree /\ remote' = tree

\* Another clone pushes a change of one key.
OtherPushes(k) ==
  /\ edits < MaxEdits /\ edits' = edits + 1
  /\ \E v \in {0, edits'} : v # remote[k] /\ remote' = [remote EXCEPT ![k] = v]
  /\ UNCHANGED <<rank, tree, head, base, setup, sync, adapter, call, pin, history>>

\* The person pulls by hand, or edits or removes a file of the store.
PersonPulls ==
  /\ setup = "ready" /\ Prepare /\ tree' # tree
  /\ UNCHANGED <<rank, edits, setup, sync, adapter, call, pin, orphaned>>

PersonEdits(k) ==
  /\ setup \in {"keyed", "ready"} /\ edits < MaxEdits /\ edits' = edits + 1
  /\ \E v \in {0, edits'} : v # tree[k] /\ tree' = [tree EXCEPT ![k] = v]
  /\ mine' = mine \ {k} /\ orphaned' = orphaned \ {k}
  /\ missed' = IF Running THEN missed \cup ({k} \cap Creds) ELSE {}
  /\ UNCHANGED <<rank, head, base, remote, setup, sync, adapter, call, pin>>

-----------------------------------------------------------------------------
(* Start and stop.                                                          *)

\* ensure_initialized: one step after the other while there is no .gpg-id.
InitStep(from, to) ==
  /\ ~Running /\ setup = from /\ setup' = to
  /\ UNCHANGED <<rank, edits, repo, sync, adapter, call, pin, history>>

\* prompt_user: the person agrees, the directory is made.
PromptUser == InitStep("none", "directory")

\* select_gpg_key: the person takes one of the secret keys, or none.
SelectGpgKey == InitStep("directory", "selected") \/ InitStep("directory", "none")

\* write_gpg_id.
WriteGpgId == InitStep("selected", "keyed") \/ InitStep("selected", "none")

\* setup_git: a repository that cannot be made ends the start and leaves .gpg-id
\* behind, with which the next start takes the store for initialised.
SetupGit == InitStep("keyed", "ready")

\* new_with_options_and_git_sync: scan, prepare_startup, reload if that changed things.
Start(enabled) ==
  /\ ~Running /\ setup \in {"keyed", "ready"}
  /\ sync' = [NoSync EXCEPT !.is = enabled]
  /\ IF enabled = "enabled" THEN Pull ELSE UNCHANGED <<repo, mine>>
  /\ index' = {c \in Creds : tree'[c] # 0} /\ cache' = [k \in Keys |-> 0] /\ iter' = {}
  /\ gen' = <<head', [c \in Creds |-> tree'[c]]>> /\ missed' = {}
  /\ lastConf' = Unknown /\ synced' = Unknown
  /\ UNCHANGED <<rank, edits, setup, call, orphaned>>

\* The program ends between two steps: a file being encrypted may be cut short, and
\* the mark of what is still to be committed is gone.
Crash ==
  /\ Running
  /\ sync' = NoSync /\ call' = Idle
  /\ index' = {} /\ cache' = Empty /\ iter' = {} /\ missed' = {} /\ gen' = <<Empty, Empty>>
  /\ lastConf' = Unknown /\ synced' = Unknown
  /\ \/ UNCHANGED <<tree, mine>>
     \/ /\ call.at \in {"act", "pinwrite"} /\ call.do \in {"write", "pin"}
        /\ tree' = [tree EXCEPT ![call.key] = Torn]
        /\ mine' = IF Enabled THEN mine \cup {call.key} ELSE mine \ {call.key}
  /\ orphaned' = orphaned \cup mine'
  /\ UNCHANGED <<rank, edits, head, base, remote, setup>>

-----------------------------------------------------------------------------
(* SyncState.                                                               *)

\* begin_operation of a CTAP command; storage calls outside one begin their own.
BeginOperation ==
  /\ Running /\ call = Idle /\ sync.depth = 0 /\ Enabled
  /\ sync' = [sync EXCEPT !.depth = 1, !.prepared = "no"]
  /\ UNCHANGED <<rank, edits, repo, setup, adapter, call, pin, history>>

\* prepare_if_needed: at most once for an operation, failed or not.
PrepareIfNeeded ==
  IF Enabled /\ sync.depth > 0 /\ sync.prepared = "no"
  THEN Prepare /\ sync' = [sync EXCEPT !.prepared = "yes"]
  ELSE UNCHANGED <<repo, sync, mine, missed>>

\* mark_dirty.
MarkDirty == sync' = IF Enabled THEN [sync EXCEPT !.dirty = "yes"] ELSE sync

\* end_operation with the mark cleared whatever finalize answers.
SyncEndForgetting ==
  IF ~Enabled \/ sync.depth = 0 \/ sync.dirty = "no"
  THEN /\ UNCHANGED <<repo, mine, orphaned>>
       /\ sync' = IF Enabled THEN [sync EXCEPT !.depth = 0, !.prepared = "no"] ELSE sync
  ELSE \E outcome \in {"ok", "failed"} :
         /\ Finalize(outcome) /\ sync' = [sync EXCEPT !.depth = 0, !.prepared = "no", !.dirty = "no"]

\* end_operation of the outermost operation: a change an earlier operation could
\* not finalise is prepared for first (a step of its own) and finalised again.
SyncEnd ==
  IF ~Enabled \/ sync.depth = 0 \/ sync.dirty = "no"
  THEN /\ UNCHANGED <<repo, mine, orphaned>>
       /\ sync' = IF Enabled THEN [sync EXCEPT !.depth = 0, !.prepared = "no"] ELSE sync
  ELSE \E outcome \in {"ok", "failed"} :
         /\ Finalize(outcome)
         /\ sync' = [sync EXCEPT !.depth = 0, !.prepared = "no",
                                 !.dirty = IF outcome = "ok" THEN "no" ELSE @]

EndNeedsPrepare == Enabled /\ sync.depth > 0 /\ sync.dirty = "yes" /\ sync.prepared = "no"

-----------------------------------------------------------------------------
(* Storage calls.                                                           *)

Call(do, k) ==
  /\ Running /\ call = Idle
  /\ \/ /\ do \in {"read", "first", "list"}
        /\ call' = [do |-> do, key |-> k, implicit |-> "no", at |-> "refresh"] /\ UNCHANGED sync
     \/ /\ do \in {"write", "delete"}
        /\ LET implicit == Enabled /\ sync.depth = 0 IN     \* begin_implicit_operation
           /\ sync' = IF implicit THEN [sync EXCEPT !.depth = 1, !.prepared = "no"] ELSE sync
           /\ call' = [do |-> do, key |-> k, implicit |-> IF implicit THEN "yes" ELSE "no",
                       at |-> "prepare"]
     \/ /\ do = "end" /\ sync.depth > 0
        /\ call' = [do |-> do, key |-> k, implicit |-> "yes", at |-> "end"] /\ UNCHANGED sync
  /\ UNCHANGED <<rank, edits, repo, setup, adapter, pin, history>>

PrepareForAccess ==
  /\ call.at = "prepare" /\ PrepareIfNeeded /\ Goto("refresh")
  /\ UNCHANGED <<rank, edits, setup, adapter, pin, orphaned>>

\* refresh_if_repository_changed: scan now, look at the generation afterwards.
Refresh ==
  /\ call.at = "refresh"
  /\ IF gen # Generation THEN Scan /\ Goto("sample")
     ELSE UNCHANGED <<index, cache, iter, missed>> /\ Goto("act")
  /\ UNCHANGED <<rank, edits, repo, setup, sync, gen, pin, mine, orphaned>>

Sample ==
  /\ call.at = "sample" /\ Record /\ Goto("act")
  /\ UNCHANGED <<rank, edits, repo, setup, sync, index, cache, iter, pin, history>>

\* gpg gives the content of a whole file, with the key that last worked or else
\* with any; a file that is gone or cut short is an error.
Decrypts(k) == tree[k] \in Contents

\* read_credential_from_path: the cache, else the file decrypted and cached.
ReadPath(c) ==
  cache' = IF cache[c] # 0 \/ ~Decrypts(c) THEN cache ELSE [cache EXCEPT ![c] = tree[c]]

\* read and read_first over the index; list_relying_parties.
Read ==
  /\ call.at = "act" /\ call.do \in {"read", "first", "list"} /\ call' = Idle
  /\ \/ call.do = "read" /\ call.key \in index /\ ReadPath(call.key) /\ UNCHANGED iter
     \/ call.do = "read" /\ call.key \notin index /\ UNCHANGED <<cache, iter>>
     \/ call.do = "first" /\ index = {} /\ iter' = {} /\ UNCHANGED cache
     \/ call.do = "first" /\ \E c \in index : ReadPath(c) /\ iter' = index \ {c}
     \/ call.do = "list" /\ UNCHANGED <<cache, iter>>
  /\ UNCHANGED <<rank, edits, repo, setup, sync, index, gen, pin, history>>

\* read_next: the iteration is kept stable, nothing is reloaded.
ReadNext(c) ==
  /\ Running /\ call = Idle /\ c \in iter /\ iter' = iter \ {c} /\ ReadPath(c)
  /\ UNCHANGED <<rank, edits, repo, setup, sync, index, gen, call, pin, history>>

\* A cached credential expires, or is the oldest of a full cache.
Evict(c) ==
  /\ Running /\ cache[c] # 0 /\ cache' = [cache EXCEPT ![c] = 0]
  /\ UNCHANGED <<rank, edits, repo, setup, sync, index, iter, gen, call, pin, history>>

LeaveCall == call' = IF call.implicit = "yes" THEN [call EXCEPT !.at = "end"] ELSE Idle

\* write_credential_bytes without the invalidation of the cached credential.
InnerWriteCached(c, v) ==
  tree' = [tree EXCEPT ![c] = v] /\ index' = index \cup {c} /\ UNCHANGED cache

\* write_credential_bytes: encrypted to its path, dropped from the cache, indexed.
InnerWrite(c, v) ==
  /\ tree' = [tree EXCEPT ![c] = v]
  /\ cache' = [cache EXCEPT ![c] = 0] /\ index' = index \cup {c}

\* delete_credential: the file must be there.
InnerDelete(c) ==
  /\ c \in index /\ tree[c] # 0 /\ tree' = [tree EXCEPT ![c] = 0]
  /\ cache' = [cache EXCEPT ![c] = 0] /\ index' = index \ {c}

Change ==
  /\ call.at = "act" /\ call.do \in {"write", "delete"}
  /\ \/ /\ call.do = "write" /\ edits < MaxEdits /\ edits' = edits + 1
        /\ InnerWrite(call.key, edits')
     \/ /\ call.do = "delete" /\ InnerDelete(call.key) /\ UNCHANGED edits
  /\ Wrote(call.key) /\ missed' = missed \ {call.key} /\ Goto("mark")
  /\ UNCHANGED <<rank, head, base, remote, setup, sync, iter, gen, pin>>

\* No usable .gpg-id on the way up, no such credential, gpg or the disk fails.
ChangeFails ==
  /\ call.at = "act" /\ call.do \in {"write", "delete"} /\ LeaveCall
  /\ UNCHANGED <<rank, edits, repo, setup, sync, adapter, pin, history>>

Mark ==
  /\ call.at = "mark" /\ MarkDirty /\ Record /\ LeaveCall
  /\ UNCHANGED <<rank, edits, repo, setup, index, cache, iter, pin, history>>

\* end_operation of a call's own operation or of a CTAP command.
EndPrepares ==
  /\ call.at = "end" /\ EndNeedsPrepare /\ PrepareIfNeeded
  /\ UNCHANGED <<rank, edits, setup, adapter, call, pin, orphaned>>

End ==
  /\ call.at = "end" /\ ~EndNeedsPrepare /\ SyncEnd /\ Goto("recordend")
  /\ UNCHANGED <<rank, edits, setup, adapter, pin, missed>>

RecordEnd ==
  /\ call.at = "recordend" /\ Record /\ call' = Idle
  /\ UNCHANGED <<rank, edits, repo, setup, sync, index, cache, iter, pin, history>>

-----------------------------------------------------------------------------
(* The PIN configuration.                                                   *)

\* load_pin_state: remembered as both synced and last known.
LoadPinState ==
  /\ Running /\ call = Idle /\ PrepareIfNeeded
  /\ IF tree'[Pin] = Torn THEN UNCHANGED pin
     ELSE synced' = tree'[Pin] /\ lastConf' = tree'[Pin]
  /\ UNCHANGED <<rank, edits, setup, adapter, call, orphaned>>

\* check_and_resolve_conflict with the comparison turned round.
RemoteWinsSwapped(new, file) == file # synced /\ file # 0 /\ rank[file] < rank[new]

\* check_and_resolve_conflict: the file wins if it changed since the last sync and
\* is newer, or as old with a higher version.
RemoteWins(new, file) == file # synced /\ file # 0 /\ rank[file] > rank[new]

\* save_pin_state with a changed configuration: nothing was ever loaded, or the
\* file on disk is looked at first.
SavePinState ==
  /\ Running /\ call = Idle /\ edits < MaxEdits /\ edits' = edits + 1
  /\ PrepareIfNeeded
  /\ LET file == tree'[Pin] IN
     \/ synced # Unknown /\ file = Torn /\ UNCHANGED <<pin, call>>
     \/ /\ synced # Unknown /\ file # Torn /\ RemoteWins(edits', file)
        /\ synced' = file /\ lastConf' = file /\ UNCHANGED call
     \/ /\ synced = Unknown \/ (file # Torn /\ ~RemoteWins(edits', file))
        /\ call' = [do |-> "pin", key |-> Pin, new |-> edits', saw |-> file,
                    synced |-> synced, at |-> "pinwrite"]
        /\ UNCHANGED pin
  /\ UNCHANGED <<rank, setup, adapter, orphaned>>

\* save_config, and the state it leaves; retry counters are local to the machine.
SaveConfig ==
  /\ call.at = "pinwrite" /\ call' = Idle
  /\ \/ /\ tree' = [tree EXCEPT ![Pin] = call.new] /\ MarkDirty
        /\ lastConf' = call.new /\ synced' = call.new
        /\ Wrote(Pin)
     \/ UNCHANGED <<tree, sync, pin, mine, orphaned>>
  /\ UNCHANGED <<rank, edits, head, base, remote, setup, adapter, missed>>

-----------------------------------------------------------------------------
Next ==
  \/ PromptUser \/ SelectGpgKey \/ WriteGpgId \/ SetupGit \/ Crash \/ BeginOperation \/ PersonPulls
  \/ \E enabled \in {"enabled", "disabled"} : Start(enabled)
  \/ \E k \in Keys : OtherPushes(k) \/ PersonEdits(k)
  \/ \E c \in Creds : ReadNext(c) \/ Evict(c)
  \/ \E do \in {"read", "write", "delete"}, c \in Creds : Call(do, c)
  \/ \E do \in {"first", "list", "end"} : Call(do, Pin)
  \/ PrepareForAccess \/ Refresh \/ Sample \/ Read \/ Change \/ ChangeFails \/ Mark
  \/ EndPrepares \/ End \/ RecordEnd
  \/ LoadPinState \/ SavePinState \/ SaveConfig

Spec == Init /\ [][Next]_vars

-----------------------------------------------------------------------------
(* Between calls the adapter is wrong about a file it takes for unchanged   *)
(* only if somebody else changed that file since it was indexed, and the    *)
(* change was recorded as seen: its own writes never leave it wrong.        *)
StaleOnlyIfMissed ==
  Running /\ gen = Generation /\ call = Idle => Stale \subseteq missed

(* The wrapper makes the adapter anew "whenever either changes", "preventing *)
(* stale file contents from surviving an external update": when it takes   *)
(* the repository for unchanged, index and cache are those of the files.    *)
NoStaleContents == Running /\ gen = Generation /\ call = Idle => Stale = {}

(* Every file this program wrote is committed, or still marked for the next *)
(* operation to commit, unless the program ended in between or there is no  *)
(* synchronisation to do it.                                                *)
WritesReachGit ==
  Enabled /\ setup = "ready" /\ call = Idle /\ mine # {} => sync.dirty = "yes" \/ mine \subseteq orphaned

(* A PIN configuration of another machine that this one has not taken note  *)
(* of is never replaced by an older one, unless it arrived after the check  *)
(* or no configuration was ever loaded to compare with.                     *)
NewerPinKept ==
  [][\A n \in Contents :
       tree[Pin] = n /\ call.at = "pinwrite" /\ tree'[Pin] = call.new
         => \/ call.synced \in {Unknown, n}
            \/ call.saw # n
            \/ rank[n] <= rank[call.new]]_vars
=============================================================================
