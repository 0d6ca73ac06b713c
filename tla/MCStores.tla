------------------------------ MODULE MCStores -------------------------------
(***************************************************************************)
(* What the daemon keeps on disk and who opens it, each part on its own:   *)
(* the audit log and its exports, the authenticator of the person with its *)
(* backups and its PIN, the pass and the TPM store, and the daemons of one *)
(* user that start on them.  A behaviour is about one part.                *)
(***************************************************************************)
EXTENDS AuditLog, TLC

\* Start: profiles a, b of one file, their stores under x and y, the person's
\* store at h; "link" is a symbolic link to x.
Device(n) == [name |-> n, phys |-> n, uniq |-> n]
Storage(at) == [kind |-> "local", cred |-> at, pin |-> at \o <<"pin">>]
Allow == [authorization |-> "confirm", up |-> "human", uv |-> "human"]
Refuse == [authorization |-> "deny", up |-> "none", uv |-> "none"]
OneRule(a) == <<[rp |-> "a.com", selection |-> "inherit", register |-> Refuse, authenticate |-> a]>>
SameUser ==
  [mode |-> "same-user", user |-> "agent", maxOperations |-> 1, scope |-> "profile", sessions |-> 1,
   cdp |-> "pipe", port |-> 0, rules |-> OneRule(Allow), rpIds |-> <<>>, registration |-> FALSE,
   requireUv |-> FALSE, refs |-> {}, selection |-> "any", device |-> Device(""),
   storage |-> [kind |-> "none", cred |-> <<>>, pin |-> <<>>], browserUser |-> "", browserRoot |-> <<>>]
IsolatedAt(at, n) ==
  [SameUser EXCEPT !.mode = "isolated", !.rules = <<>>, !.rpIds = <<"a.com">>, !.registration = TRUE,
                   !.device = Device(n), !.storage = [kind |-> "local", cred |-> at, pin |-> <<n, "pin">>]]
Plain ==
  [enabled |-> FALSE, audit |-> <<"audit">>, human |-> <<"h">>, backend |-> "local", passStore |-> <<>>,
   pin |-> [minLength |-> 4, retries |-> 8, uvRetries |-> 3], profiles |-> <<>>,
   ackGlobal |-> {}, ackRegistration |-> {}]
Agents(profiles) == [Plain EXCEPT !.enabled = TRUE, !.profiles = profiles]
StartFiles ==
  {Plain, Agents(<<>>),
   Agents([a |-> IsolatedAt(<<"x", "s">>, "d1")]),
   [Agents([a |-> IsolatedAt(<<"h">>, "d1")]) EXCEPT !.human = <<"x", "s">>],
   Agents([a |-> IsolatedAt(<<"x", "s">>, "d1"), b |-> IsolatedAt(<<"y">>, "d2")]),
   Agents([a |-> IsolatedAt(<<"x", "s">>, "d1"), b |-> IsolatedAt(<<"y">>, "d1")]),
   Agents([a |-> SameUser, b |-> [SameUser EXCEPT !.cdp = "port"]]),
   Agents([a |-> [SameUser EXCEPT !.rules = OneRule(Refuse)]]),
   Agents([a |-> [SameUser EXCEPT !.user = "root"]]),
   Agents([a |-> [SameUser EXCEPT !.cdp = "port"]])}
StartRank == (<<"agent-state">> :> 0) @@ (<<"h">> :> 1) @@ (<<"x", "s">> :> 2) @@ (<<"y">> :> 3)
StartLinks == <<"link">> :> <<"x">>
StartUids == [agent |-> 1000, root |-> 0]

VARIABLE part   \* the part this behaviour is about


VARIABLES exGate, exSegs, exBare, exSeq, exLast, exAccepted, exHolder, exWriter,
          exBegun, exBroken, exSecond, exFiles, exTmp, exJob, exSlipped, exShared,
          exExports
exVars == <<exGate, exSegs, exBare, exSeq, exLast, exAccepted, exHolder, exWriter,
            exBegun, exBroken, exSecond, exFiles, exTmp, exJob, exSlipped, exShared,
            exExports>>
Export == INSTANCE AuditExport WITH Admins <- {"a1", "a2"}, SegmentFrames <- 1,
                                    Formats <- {"json"}, MaxEntries <- 3, MaxActivities
                                    <- 4, MaxSegments <- 3, LastSecond <- 1, gate <-
                                    exGate, segs <- exSegs, bare <- exBare, seq <- exSeq,
                                    last <- exLast, accepted <- exAccepted, holder <-
                                    exHolder, writer <- exWriter, begun <- exBegun,
                                    broken <- exBroken, second <- exSecond, files <-
                                    exFiles, tmp <- exTmp, job <- exJob, slipped <-
                                    exSlipped, shared <- exShared, exports <- exExports

VARIABLES huConf, huStore, huLife, huPending, huMade, huFiles, huOp, huPinFile,
          huChosen, huVerified, huClient
huVars == <<huConf, huStore, huLife, huPending, huMade, huFiles, huOp, huPinFile,
            huChosen, huVerified, huClient>>
Person == INSTANCE HumanAuthenticator WITH Creds <- {"k"}, Clients <- {"c"}, MaxUv <- 1,
                                           MaxBundles <- 1, conf <- huConf, store <-
                                           huStore, life <- huLife, pending <-
                                           huPending, made <- huMade, files <- huFiles,
                                           op <- huOp, pinFile <- huPinFile, chosen <-
                                           huChosen, verified <- huVerified, client <-
                                           huClient

VARIABLES paRank, paEdits, paTree, paHead, paBase, paRemote, paSetup, paSync, paIndex,
          paCache, paIter, paGen, paCall, paLastConf, paSynced, paMissed, paMine,
          paOrphaned
paVars == <<paRank, paEdits, paTree, paHead, paBase, paRemote, paSetup, paSync, paIndex,
            paCache, paIter, paGen, paCall, paLastConf, paSynced, paMissed, paMine,
            paOrphaned>>
Pass == INSTANCE PassStore WITH Creds <- {"k"}, MaxEdits <- 2, rank <- paRank, edits <-
                                paEdits, tree <- paTree, head <- paHead, base <- paBase,
                                remote <- paRemote, setup <- paSetup, sync <- paSync,
                                index <- paIndex, cache <- paCache, iter <- paIter, gen
                                <- paGen, call <- paCall, lastConf <- paLastConf, synced
                                <- paSynced, missed <- paMissed, mine <- paMine,
                                orphaned <- paOrphaned

VARIABLES tpTpm, tpMeta, tpKeyFile, tpMade, tpRecs, tpBackup, tpDaemon, tpCli,
          tpPinFile, tpOwed, tpChosen, tpExcuse, tpAnswer
tpVars == <<tpTpm, tpMeta, tpKeyFile, tpMade, tpRecs, tpBackup, tpDaemon, tpCli,
            tpPinFile, tpOwed, tpChosen, tpExcuse, tpAnswer>>
Tpm == INSTANCE TpmStore WITH Creds <- {"k"}, Seeds <- {"s1", "s2"}, MaxKeys <- 2,
                              MaxOwner <- 2, tpm <- tpTpm, meta <- tpMeta, keyFile <-
                              tpKeyFile, made <- tpMade, recs <- tpRecs, backup <-
                              tpBackup, daemon <- tpDaemon, cli <- tpCli, pinFile <-
                              tpPinFile, owed <- tpOwed, chosen <- tpChosen, excuse <-
                              tpExcuse, answer <- tpAnswer

VARIABLES stFile, stPhase, stConf, stLock, stNext, stAgents, stBy
stVars == <<stFile, stPhase, stConf, stLock, stNext, stAgents, stBy>>
Start == INSTANCE DaemonStart WITH Daemons <- {"d1", "d2"}, AsRoot <- TRUE, Files <-
                                   StartFiles, Overrides <- {<<>>, <<"link", "s">>},
                                   Links <- StartLinks, Rank <- StartRank, Uid <-
                                   StartUids, file <- stFile, phase <- stPhase, conf <-
                                   stConf, lock <- stLock, next <- stNext, agents <-
                                   stAgents, by <- stBy

\* The instances this behaviour is not about; the extended module rests in Init.
ExportOff == exGate = "off" /\ exSegs = "off" /\ exBare = "off" /\ exSeq = "off" /\
             exLast = "off" /\ exAccepted = "off" /\ exHolder = "off" /\ exWriter = "off"
             /\ exBegun = "off" /\ exBroken = "off" /\ exSecond = "off" /\ exFiles = "off"
             /\ exTmp = "off" /\ exJob = "off" /\ exSlipped = "off" /\ exShared = "off" /\
             exExports = "off"
PersonOff == huConf = "off" /\ huStore = "off" /\ huLife = "off" /\ huPending = "off" /\
             huMade = "off" /\ huFiles = "off" /\ huOp = "off" /\ huPinFile = "off" /\
             huChosen = "off" /\ huVerified = "off" /\ huClient = "off"
PassOff == paRank = "off" /\ paEdits = "off" /\ paTree = "off" /\ paHead = "off" /\
           paBase = "off" /\ paRemote = "off" /\ paSetup = "off" /\ paSync = "off" /\
           paIndex = "off" /\ paCache = "off" /\ paIter = "off" /\ paGen = "off" /\
           paCall = "off" /\ paLastConf = "off" /\ paSynced = "off" /\ paMissed = "off"
           /\ paMine = "off" /\ paOrphaned = "off"
TpmOff == tpTpm = "off" /\ tpMeta = "off" /\ tpKeyFile = "off" /\ tpMade = "off" /\
          tpRecs = "off" /\ tpBackup = "off" /\ tpDaemon = "off" /\ tpCli = "off" /\
          tpPinFile = "off" /\ tpOwed = "off" /\ tpChosen = "off" /\ tpExcuse = "off" /\
          tpAnswer = "off"
StartOff == stFile = "off" /\ stPhase = "off" /\ stConf = "off" /\ stLock = "off" /\
            stNext = "off" /\ stAgents = "off" /\ stBy = "off"

MCInit ==
  /\ part \in {"log", "export", "person", "pass", "tpm", "start"}
  /\ Init
  /\ IF part = "export" THEN Export!Init ELSE ExportOff
  /\ IF part = "person" THEN Person!Init ELSE PersonOff
  /\ IF part = "pass" THEN Pass!Init ELSE PassOff
  /\ IF part = "tpm" THEN Tpm!Init ELSE TpmOff
  /\ IF part = "start" THEN Start!Init ELSE StartOff

\* A step of one part leaves the others alone.
LogTurn == part = "log" /\ UNCHANGED <<part, exVars, huVars, paVars, tpVars, stVars>>
ExportTurn == part = "export" /\ UNCHANGED <<part, vars, huVars, paVars, tpVars,
                                             stVars>>
PersonTurn == part = "person" /\ UNCHANGED <<part, vars, exVars, paVars, tpVars,
                                             stVars>>
PassTurn == part = "pass" /\ UNCHANGED <<part, vars, exVars, huVars, tpVars, stVars>>
TpmTurn == part = "tpm" /\ UNCHANGED <<part, vars, exVars, huVars, paVars, stVars>>
StartTurn == part = "start" /\ UNCHANGED <<part, vars, exVars, huVars, paVars, tpVars>>

MCNext ==
  \/ LogTurn /\ Next
  \/ ExportTurn /\ Export!Next
  \/ PersonTurn /\ Person!Next
  \/ PassTurn /\ Pass!Next
  \/ TpmTurn /\ Tpm!Next
  \/ StartTurn /\ Start!Next

mcVars == <<part, vars, exVars, huVars, paVars, tpVars, stVars>>

MCSpec == MCInit /\ [][MCNext]_mcVars

AuditSymmetry == Permutations(Recorders)

-----------------------------------------------------------------------------
(* Properties                                                              *)

\* Exports: one that succeeds holds every record accepted before it was asked
\* for, each once, although two threads record, rotate and fail while it is read;
\* in the order of their numbers unless a thread wrote a number that another had
\* taken (the race of a rotation, or a circuit that broke after it was looked
\* at); and the file an administrator was told of holds the rows it was told of,
\* unless another export was written in the same second (audit.rs, runtime.rs).
ExportsHold ==
  part = "export" => Export!ExportComplete /\ Export!ExportInOrder /\ Export!ReportedHolds

\* The person: a credential that was made and not given up is in the store or
\* in a file it can be restored from, one that says it is backed up has such a
\* file, and a PIN that was set is enforced, built-in verification standing in
\* for it only where the PIN state could not be read (authenticator.rs,
\* pin_storage).
PersonHolds == part = "person" => Person!BackupsHold /\ Person!PinHolds

\* The pass store: between calls its view is wrong about a file only if somebody
\* else changed it and the change was taken as seen, and every file it wrote is
\* committed or marked for the next operation to commit (storage/pass*, sync.rs).
\* The TPM store: what was acknowledged opens in every later run, unless the TPM
\* was cleared or the parent removed, and with metadata on disk the parent is
\* in the TPM, unless a command stopped half way (storage/tpm*).
CredentialStoresHold ==
  /\ part = "pass" => Pass!StaleOnlyIfMissed /\ Pass!WritesReachGit
  /\ part = "tpm" => Tpm!StoredOpens /\ Tpm!ParentManaged

\* Start: no store is open in two daemons, and of daemons that contend one
\* starts (instance_lock.rs, main.rs).
OneDaemonPerStore == part = "start" => Start!StoresHaveOneDaemon /\ Start!RefusedByAWinner
=============================================================================
