# Formal model of the Passless agent daemon

This directory keeps TLA+ specifications of the repository's program: first of
all of the parts that decide *whether a credential key may be used*, the agent
daemon under `passless/cmd/passless/src/agent/`, and then of what surrounds
it: the stores on disk, the person's authenticator, the virtual device, the
browser extension and the command line.  TLC checks them on small instances;
for the modules that carry the authority, TLAPS proves the properties for every
instance.  Paths below are relative to `passless/cmd/passless/src/agent/`
unless they start with `passless/` or name a file of another crate.

1. The system - 2. Modules - 3. Runs - 4. Properties - 5. Proofs -
6. Disagreements between code and documents - 7. What is not modelled -
8. What is left to prove

## 1. The system

The repository has three parts.

* `broadcom-host-event-shim/`: a C library interposed on libusb.
* `controlvault3-tools/`: Python probes for the fingerprint reader's firmware.
* `passless/`: a software FIDO2 authenticator in Rust.  Its *human* side
  (`authenticator.rs`, `worker.rs`, `storage/`, `pin_storage/`, commands)
  answers CTAP requests after user verification.  Its *agent* side
  (`agent/`) lets a program, the *principal*, sign in with a passkey within
  limits an administrator set.

The agent side holds the concurrency and the authority.

### 1.1 Components

| Component | State | Operations | Correct when |
|---|---|---|---|
| Intent store (`intent.rs`) | map id -> intent with state, deadline, claim token | create, approve, deny, cancel, claim by token or tuple, roll back, consume, sweep, invalidate | one approval authorises one use, in time; finished intents stay finished; the number of live ones is bounded |
| Grant registry (`grant.rs`) | grants, requests and claims; last clock value; generation | request, approve, claim, consume, expire, revoke, exit, reload | one grant per approved request, within the concurrent limit; nothing revoked, expired, stale or ownerless is claimed; a clock that runs backwards kills all |
| Policy runtime (`policy_engine.rs`) | the two above, pending requests, pending authorizations, current generation, each under its own lock | create pending, resolve, authorize, consume, reload, revoke, exit | a key use answers one approval for exactly what was asked, and a reload or revocation stops what has not been consumed |
| Policy rules (`passless-core/src/agent`, `policy_engine.rs`) | rules, snapshots, digests | parse, validate, compile, look up | equal digests decide alike but for what is not digested, and every way to look a rule up agrees |
| Ceremony handler (`ceremony.rs`, `interaction.rs`, `storage.rs`) | preparation slot of an endpoint, scoped view of a store | prepare, prompt, resolve, authorize, audit, consume, use, clear | one key use per request; a key is read only under an approval of that operation; no preparation is stranded |
| Runtime daemon (`runtime.rs`) | `current_pending`, sessions, browsers, worker threads | principal and administration requests, endpoint events, sweeps, session ends, start, shutdown | one waiting request per profile; nothing of an ended session is left; no circular waits; a shutdown ends |
| Signing service (`sign.rs`), registration (`register.rs`) | tokens, request budgets, cached outcomes, counters, registration grants, connections | claim a request, wait, answer from cache, sign, register, revoke by lease | a body is executed once and answered alike; budget respected; counters distinct; one credential per enrolment; places are given back |
| Audit log and gate (`audit.rs`, `audit_events.rs`) | hash-chained segments, anchor, gate | append, rotate, open and repair, export, refuse | what was accepted is kept, in order, and found again; no operation without its record |
| Browser leases (`browser.rs`, `launcher.rs`, `cdp_bootstrap.rs`) | leases, processes, tokens, the CDP pipe, a loopback endpoint | launch, share, activate, revoke, terminate, clean up, relay | a browser that runs is owned; its token dies with its lease; nothing runs before it is hardened; an answer goes to the request that asked |
| Endpoint devices (`device.rs`, `endpoint_manager.rs`, `passless-uhid`) | virtual HID devices and their workers | create, activate, cancel, remove | no device outlives its endpoint; cancelled devices end |
| Prompts (`prompt.rs`) | the notification in progress | show, wait, decide | approved only by a person, on that prompt, in time |
| Agent IPC and command line (`ipc.rs`, `client.rs`, `commands/`) | sockets and their directories, workers, sessions of runs | accept, refuse, answer, wait, park, reap, end | commands return; a session ends with the run that launched it |
| Browser extension and proxy (`assets/agent-extension`, `bin/sign-proxy.rs`) | pending page requests, kept answers | relay, time out, abort, fall back | nothing is signed twice; the browser's own authenticator is asked only for what was not signed |
| Human authenticator (`authenticator.rs`, `credential_backup.rs`, `pin_storage/`) | credentials, backups, PIN state | make, assert, delete, back up, restore, set and change PIN | a credential is in the store or restorable; a PIN that was set is enforced |
| Credential storage (`storage/pass`, `storage/tpm`) | index, cache, repository; sealed files and parent key | refresh, write, commit, synchronise; provision, seal, migrate | the view is stale only if a change was missed; writes reach the repository; what was acknowledged opens again |
| Start (`main.rs`, `instance_lock.rs`, `doctor.rs`) | configuration, lock files | load, validate, lock, diagnose | no store is open in two daemons, and of contenders one starts |

### 1.2 How they interact

Threads of the daemon:

* the *runtime loop* (`runtime.rs:1784`): every 50 ms it hands connections to
  worker threads, drains endpoint events, reaps dead sessions, sweeps expired
  requests and looks for browsers that exited or expired;
* *principal requests*: one at a time per profile, because the handler holds
  `managed_sessions` throughout (`runtime.rs:5507`);
* *administration requests*: on their own threads, concurrently;
* the *endpoint worker* of a profile: one CTAP ceremony at a time, under
  `operation_lock`;
* *connection threads* of the signing service: several at once; the handler of
  a request also runs under `operation_lock` and then the storage lock.

A login in an isolated profile goes: a principal creates an intent (policy
runtime), the daemon installs a preparation and publishes `current_pending`;
the browser's CTAP command reaches the endpoint worker, which shows a trusted
prompt, resolves the request, claims the intent, writes the audit record,
consumes the intent and lets the inner authenticator use the key; an endpoint
event tells the runtime loop to clear up.  A login through the signing service
goes: the page's call travels through the extension and the native host of the
browser that the daemon launched and arrives with its bearer token; the token's
budget admits it, the grant is looked up, a credential selected, the counter
stored, the signature made and the outcome remembered for repetitions.

### 1.3 What is hard

Authority is checked in one lock section and used in a later one; five stores
are emptied by a reload under five locks; four kinds of threads fill and empty
`current_pending`; browsers repeat requests and lose answers; a launch, an
expiry, a reload and a disable meet over one shared browser; every step may
fail half way; the daemon may die between two writes.  `PROJECT.json` lists
these as `hazards`, each at its line, with the properties that cover it or the
reason why none does.

## 2. Modules

```
  OneShotAuthority   abstract: ask, approve, use once, close
        ^ implemented by
  IntentStore ------ Intents (records, pure operations)      <- IntentStoreProofs
  GrantRegistry ---- Grants  (records, pure operations)      <- GrantRegistryProofs
        \            /
         PolicyRuntime (instances Intents and Grants)        <- PolicyRuntimeProofs
  SignService        tokens, budget, replay, counters        <- SignServiceProofs
  CdpBootstrap       loopback endpoint and its wrapper       <- CdpBootstrapProofs
  BrowserLeases      browsers, their leases and tokens       <- BrowserLeasesProofs
  CeremonySlot       the published request, its preparation  <- CeremonySlotProofs
  AuditLog           segments, anchor, recording threads     <- AuditLogProofs
  the other components, one module each (table below)
  MC*                instances for TLC
```

| Module | Source | State and actions |
|---|---|---|
| `Intents`, `IntentStore` | `intent.rs` | `Intents` has the record type, the transition table and one operator per method; `IntentStore` makes each method an action, callable at any time (the store is behind one mutex).  All an intent is bound to besides its session is one value, its scope, because the code only compares those fields for equality.  `approvals`, `tokenClaims`, `consumptions` are history: they remember an id after its record was dropped. |
| `OneShotAuthority` | - | What the store promises, without deadlines, tokens and limits.  `IntentStore!AuthorityStatus` is the refinement mapping: Approved and Claimed are both *approved*, terminal and dropped intents are *closed*. |
| `Grants`, `GrantRegistry` | `grant.rs` | The same split.  The clock may run backwards; `ClockAmbiguity` is the call that notices and revokes everything. |
| `PolicyRuntime` | `policy_engine.rs`, the order of a ceremony from `ceremony.rs` | One action per critical section.  A request, its grant request and its grant share the id of the intent, since each is made for it.  The clock counts half seconds because intents have millisecond deadlines and grants whole seconds: both roundings (`Secs`, `SecsCeil`) are modelled.  `keyUses` is the history of what the key was used for. |
| `PolicyRules` | `passless-core/src/agent`, `policy_engine.rs` | Two files of one profile from the text to a decision; a digest is the value that is hashed. |
| `CeremonySlot` | `runtime.rs`, `ceremony.rs` | `current_pending`, the preparation slot, endpoint events and four threads.  `managed_sessions` and `lifecycle_lock` are held across steps and are variables; short locks make one access one action.  The generation of a request is read when its creation starts and may be stale when it is created.  Of the policy runtime only the state of each request is kept, of a multi-profile daemon one isolated profile. |
| `AgentCeremony` | `ceremony.rs`, `storage.rs`, `interaction.rs` | One CTAP command at an endpoint with every early exit, down to the scoped store behind it, beside the other user of that store and an administrator.  Whether the profile may register is asked again by the write. |
| `AgentControl` | `runtime.rs`, `passless-core/src/agent/protocol.rs`, `commands/agent_admin.rs`, `commands/agent.rs` | The requests of administrators and principals, a step per lock, and which answer each command takes. |
| `AgentSessions` | `runtime.rs`, `ipc.rs`, `launcher.rs` | Sessions, their processes, worker threads, the reaper and shutdown.  A profile has the daemon's user or another one, whose child can escape a failed launch (`stray`) and loses its parent-death signal. |
| `SignService` | `sign.rs`, `register.rs`, launches from `runtime.rs` and `runtime/browser_ensure.rs`, registration grants from `grant.rs` | Per token a budget with used, in-flight and cached requests; connection threads; the three locks held across steps.  What a request names, its origin and its format are one choice to refuse. |
| `SignHttp` | `sign.rs` | The socket up to the claim, the token registry map by map, launch and shutdown; a thread that cannot be spawned or panics. |
| `AssertionRules` | `sign.rs`, `register.rs` | The checks and choices of one request in their order, and what the relying party checks of the answer; hosts and relying parties are sequences of labels. |
| `PageBridge` | the extension, `bin/sign-proxy.rs` | A page's call hop by hop, with the limit and the failure of each. |
| `AuditLog` | `audit.rs` | Segment files, the anchor, the tail the gate keeps in memory, recording threads, failing calls and crashes; what opening verifies, cuts off and records.  A hash is a number minted with its record; what happens to unsynced bytes is decided by the crash or failed call that leaves them.  `slips` is history: the occasions on which the gate writes something it should not have (section 6). |
| `AuditExport` | `audit.rs` | Verification and export, without the gate's locks, beside two recording threads whose rotations are steps of their own. |
| `AuditTrail` | `audit_events.rs` and its callers | Which records an operation leaves, and whether before or after its effect. |
| `BrowserLeases` | `browser.rs`, `runtime.rs`, `runtime/browser_ensure.rs` | Leases, processes, tokens, `active_browser`, `shared_browsers`; the threads that launch, share, lose, expire and stop browsers.  `slips` names what the code lets escape, by cause. |
| `BrowserControl` | `runtime.rs`, `browser.rs` | CDP round trips of two requests over one pipe. |
| `ChildLaunch` | `launcher.rs`, `browser.rs` | The forked child and the thread that forked it, concurrently; the descriptors it closes are ranges between the preserved ones. |
| `CdpBootstrap` | `cdp_bootstrap.rs`, `commands/playwright_mcp.rs` | Accept thread, workers, wrapper and child. |
| `Endpoints` | `runtime.rs`, `device.rs`, `endpoint_manager.rs`, `worker.rs`, `main.rs` | The subsystem from start to stop, seen from its devices. |
| `HidTransport` | `passless-uhid`, `worker.rs` | One device from CREATE2 to DESTROY; kernel and hosts are external. |
| `Prompts` | `prompt.rs` | One notification, its signals, delay, timeout and answer. |
| `AgentIpc` | `ipc.rs`, `client.rs`, `commands/` | Two starts of a daemon with the directories the first one left; connections, workers (one is parked with the child it launched), frames, the session of a run, commands and processes that speak the protocol themselves (`Strangers`). |
| `HumanAuthenticator` | `authenticator.rs`, `main.rs`, `pin_storage`, `credential_backup.rs`, `commands/client.rs` | Commands under the operation lock, crashes anywhere. |
| `PassStore` | `storage/pass`, `storage/index.rs`, `pass_refresh.rs`, `pin_storage/pass.rs` | A storage call is a pipeline of steps, between which others change files. |
| `TpmStore` | `storage/tpm`, `commands/tpm.rs`, `pin_storage/tpm.rs` | Daemon and command over one directory and one TPM. |
| `DaemonStart` | `main.rs`, `instance_lock.rs`, `doctor.rs`, configuration | From the configuration to held locks, for several daemons. |

Every definition that stands for code has its lines in the `map` of
`PROJECT.json`.  Definitions with a comment that starts "Mutant:" or "As ..."
just before the definition they vary are deliberately wrong variants; putting
one in place of the definition that follows makes a run fail, which shows that
the property is sensitive to that code.  No specification uses them.

## 3. Runs

Most MC modules put several components side by side: the MC module extends one
component, instances others under their own variables, and a variable `part`,
chosen initially, says which one this behaviour is about.  The other components
are off: they rest in their initial state.  The state space is the sum of the parts, so a run
is one sitting of several independent checks; nothing is claimed about the
parts running together.  Each property of another part is guarded by
`part = ...`; the properties of the extended component hold trivially while it
rests.

| Run | Parts | Properties | States |
|---|---|---|---|
| `intent_store` | IntentStore; AuditTrail | TokenSingleUse, ConsumedOnceAfterApproval, ActiveBounded, TerminalIsFinal, NoClaimPastDeadline, IsOneShotAuthority; RecordsHold | 0.94 million |
| `registries` | GrantRegistry; CeremonySlot; AgentControl; AgentCeremony | OneGrantPerRequest, WithinConcurrentLimit, EndedHoldNothing, ClaimsOnlyOnLiveGrants; CeremoniesHold; ControlSound | 1.16 million |
| `policy_runtime` | PolicyRuntime, isolated; delegated | UsesApproved, ReloadStopsInFlight; HandlesSingle, RevocationsHold | 1.4 million |
| `services` | SignService; AssertionRules; PolicyRules | UsesBounded, KeysAccounted; AssertionsHold; PoliciesDecide | 0.82 million |
| `stores` | AuditLog; AuditExport; HumanAuthenticator; PassStore; TpmStore; DaemonStart | TrailKept, ReopensUnlessTorn; ExportsHold; PersonHolds; CredentialStoresHold; OneDaemonPerStore | 2.6 million |
| `browser_side` | BrowserLeases; ChildLaunch; SignHttp; PageBridge | BrowsersAreOwned, TokensDieWithLease; LaunchHardened; SigningPathHolds | 1.95 million |
| `waits` (fair) | CeremonySlot; PolicyRuntime; BrowserControl | OneUsePerRequest, WaitingReleased; WaitsSettle | 88,390 |
| `endings` (fair) | CdpBootstrap; AgentSessions; Endpoints; HidTransport; Prompts | PlacesReturn, EndpointEarned; NothingLeft; WaitsEnd | 42,251 |
| `command_line` (fair) | AgentIpc | CommandsReturn, SessionEndsWithRun | 0.32 million |
| `stale_generation_use` | PolicyRuntime | *violation* of UseUnderCurrentGeneration | |
| `slot_lock_order` | CeremonySlot | *violation* of NoCircularWait | |
| `audit_rotation_race` | AuditLog | *violation* of ChainedAcrossRotation | |

The three violations are explained in section 6.

### 3.1 Bounds

All sets are just large enough for the interesting encounters.

* `intent_store`: three ids against a limit of two, so that the limit is met
  and an id is created after another was dropped; lifetimes 0 (overdue at
  once) and 2 on a clock to 3.  Two operations over two lives of the daemon
  for the trail.
* `registries`: two requests and two grants with a concurrent limit of 1;
  lifetimes 0, at the maximum and above it; a clock that can also go back.
  Two requests of two sessions for the one preparation slot.
* `policy_runtime`: two intents, two ceremonies, two operations (so that a
  claim by tuple could take the wrong intent) and two reload threads; the
  delegated part has one operation, so that the two compete for one tuple.
* `services`: three bodies against a budget of two and a cache of one, so
  that exhaustion, eviction and replay all happen; the counter starts anywhere
  up to its maximum, so that it also saturates.  `AssertionRules` and
  `PolicyRules` enumerate small requests and pairs of policy files.
* `stores`: two recorders; frames of size 1 and 2 against segments of size
  2, so that a segment takes one or two frames and rotation is met early;
  four records, two failing calls and two crashes, so that a crash can hit the
  recovery from the previous one.  Two administrators export beside two
  recording threads.  The stores of credentials have one credential, two
  foreign edits between any two steps and crashes anywhere; two daemons
  contend for stores that are also reached through a symbolic link.
* `browser_side`: two leases, two sessions, one administrator, three requests
  and one failing system call, with a browser per session and one per profile.
  The child's descriptors go to 7, one more than the loop of an old kernel
  reaches.
* `waits`, `endings`, `command_line`: one or two of everything that waits and
  one place less than contenders, so that somebody is refused or waits.
  `command_line` has a command and a process that may be a stranger, two
  workers, and two starts of the daemon, so that the second meets the
  directories of the first.

Bounds that are not limits of the code (`MaxTime`, `MaxGen`, `MaxEvents`,
`MaxFaults`, `MaxRequests`, `MaxRecords`, `MaxCrashes`, `MaxStarts`, `MaxLives`,
`MaxActivities`) only guard
the step that would exceed them; where a module is proved, the theorems hold
for every value of them.  Symmetry is over ids that the modules only compare
for equality, and is not used in the runs that check liveness.  The runs do
not check for deadlock: ids are never reused, so a behaviour may end when all
are spent, and a log that is refused stays so.  Stuck threads are the subject
of the liveness and lock-order properties instead.

### 3.2 Fairness

Nothing ever obliges a principal to ask, an administrator to act, a user to
approve or a host to write, nor a process that is not the daemon's to do
anything: a browser may stop reading its pipe, a client may fall silent, a child
may ignore its signals.  Where the code then waits for ever the property names
the wait as its exception.

* `PolicyRuntime`: time passes; started principal requests, ceremonies and
  reloads continue (they are runnable threads, and the prompt returns because
  it times out); the runtime loop sweeps.
* `CeremonySlot`: the same for started threads.  The runtime loop and the
  expiry of a request are strongly fair: the loop comes round every 50 ms for
  ever, and takes `lifecycle_lock` from threads that release and take it again,
  so that its steps are enabled again and again but not continuously.  The run
  leaves cancellation out, whose lock order is a finding (section 6) and would
  otherwise stop the loop.
* `BrowserControl`: a round trip continues and its deadline passes; a request that only asks for the status competes for the
  manager's mutex and gets it if it is free again and again.
* `CdpBootstrap`, `AgentSessions`, `Endpoints`, `HidTransport`, `Prompts`,
  `AgentIpc`: started threads and commands of the program continue, clocks tick,
  processes that were killed exit, unless they are filed as unkillable.  Strongly fair are the accept loop's look at its stop flag and the
  drain of an endpoint, which other enabled steps interrupt for a moment.

A panic is the end of the daemon: the release build aborts
(`passless/Cargo.toml:62`).  The debug build, which unwinds and poisons mutexes, is
not modelled.

In `waits` and `endings` the parts share their fairness conditions: as only one
part runs, weak fairness of a disjunction over the parts is weak fairness of
that part's step.

## 4. Properties

What each property says and why it could fail.  The bundled ones are
conjunctions of named parts; the parts are defined and explained in the modules.

**One approval, one use.**  `TokenSingleUse`, `ConsumedOnceAfterApproval` and
`IsOneShotAuthority`: an approval cannot be spent twice, although a ceremony
that fails rolls its claim back and the intent becomes Approved again.
`TerminalIsFinal`, `ActiveBounded`, `NoClaimPastDeadline`: what is finished
stays so, the store is bounded, and the deadline is met by every way to claim.
`UsesApproved` says it end to end, across the separate locks of the policy
runtime, where a claim finds its intent by tuple and not by id: one use per
approval, for exactly what was asked, never of a request that was closed
before (the last part concerns profiles whose administrators approve no intents
by hand: approving one by hand reopens it on purpose).
`OneUsePerRequest` says it at the preparation slot, which survives an audit
failure and is found again by the next command.

**What a reload, a revocation or an exit stops.**  `ReloadStopsInFlight`: an
intent a reload found unconsumed is never used.  `RevocationsHold`: a claim on a
revoked grant is not consumed, even by a thread that had checked the grant.
`HandlesSingle`: no two live handles for one intent.  `OneGrantPerRequest`,
`WithinConcurrentLimit`, `EndedHoldNothing`, `ClaimsOnlyOnLiveGrants`: no
authority from a registry whose clock went backwards, a grant that is over or a
principal that is gone, and never more grants than configured.

**Ceremonies and control.**  `CeremoniesHold`: a preparation belongs to its
request; a key is read, used or made only under an approval of that operation on
that relying party, and made only where the profile may register; counters
rise.  `ControlSound`: a listing leaves out no credential of the profiles it read,
which end at the first one that has nothing or fails (section 6); a disabled
profile serves nobody, although an enabling may fail half way; and a request that
is granted is answered with what its command waits for, but for the delegation
commands that are left of a removed mode.  `RecordsHold`: an effect that is announced
happens only after its record, whatever fails and whenever the daemon dies, and
success on record means it was done.  Reloads, deletions and the grants revoked with
a credential are recorded afterwards: such a record is never of something that was
not done, and one is missing only if the daemon died or lost a record.

**The signing service.**  `UsesBounded`: repeated, overlapping and failing
requests are signed once, answered alike and stay within the budget.
`KeysAccounted`: counters distinct until they saturate, one credential per
enrolment, and a revocation is overtaken by at most the one request that already
holds `operation_lock`.  `AssertionsHold`: the relying party that asked accepts
the answer (its counter rises until it saturates; presence is claimed exactly where
the policy has the agent give it), and the choice of the credential does not depend on the order of
enumeration.  `PoliciesDecide`: equal digests decide alike, except for the
answer of the service when `human_verification_prompt` differs, and the ways to look
up a rule agree.  `SigningPathHolds`: from the page to the signature nothing is
signed or counted twice, and every connection gives its place back whichever way its
handler returns; a panic, or a thread that cannot be spawned, ends the daemon instead.

**Stores.**  `TrailKept`, `ReopensUnlessTorn`: a record whose caller was told Ok
stays in the log through faults, crashes and repairs, the log is one numbered
chain, the anchor never claims more than is on disk, and the next start accepts
what the last one left unless a segment lacks its header.  Both are conditional
on `slips` being empty; `audit_rotation_race` shows the unconditional one fail.
`ExportsHold`: an export holds every record once, with all that
was accepted before it was asked for; the numbers rise by one unless two recorders
met over a rotation, after which a number can be there twice (section 6).  `PersonHolds`: a credential is in the store or
restorable, and a PIN that was set is enforced.  `CredentialStoresHold`: the
view of a password store is wrong only about changes it missed, its writes reach
the repository; what the TPM store acknowledged opens again.
`OneDaemonPerStore`: no store is open in two daemons, and of contenders one
starts.

**Browsers.**  `BrowsersAreOwned`: a running browser is on a lease that holds its
process and belongs to a live session, to a thread that has it in hand or to its
deadline, except for the five causes named in the module.
`TokensDieWithLease`: whoever drops a lease has revoked its token.
`LaunchHardened`: no program runs, and no capability is passed, before the child
is hardened; it has what was transferred to it, perhaps not its standard input, and
of the daemon's descriptors at most those the loop of an old kernel does not reach.

**What ends.**  `WaitingReleased`, `WaitsSettle`, `WaitsEnd`, `CommandsReturn`
(all under the fairness of 3.2): published requests are released, requests,
ceremonies, reloads, round trips, shutdowns, prompts, devices and commands come
to an end.  The exceptions are waits of the code without a limit: the write to a
live browser that stopped reading its full pipe, and a shutdown that joins a worker
whose client is silent or whose child does not exit.  `SessionEndsWithRun`: a
session ends with the run that launched it, however that one was ended, because
the reaper looks at the process that launched it too.  `PlacesReturn`, `EndpointEarned`,
`NothingLeft`: no place, process or device stays behind, and an endpoint is told
only to a client with the token; the session process that a failed launch for
another user leaves is named (`stray`).

## 5. Proofs

TLAPS proves the following for every value of the constants that satisfies the
assumptions of section 5.1: any number of ids, sessions, threads, connections,
leases or retries, any limit, and any length of behaviour.

| Module | Theorem | States |
|---|---|---|
| `IntentStoreProofs` | `TypeCorrect` | `Spec => []TypeOK` |
| | `TokenSingleUseHolds` | `Spec => []TokenSingleUse` |
| | `OneShot` | `Spec => []ConsumedOnceAfterApproval` |
| | `ActiveBoundedHolds` | `Spec => []ActiveBounded` |
| | `TerminalIsFinalHolds` | `Spec => TerminalIsFinal` |
| | `NoClaimPastDeadlineHolds` | `Spec => NoClaimPastDeadline` |
| | `ImplementsAuthority` | `Spec => IsOneShotAuthority` |
| `GrantRegistryProofs` | `OneGrantPerRequestHolds` | `Spec => []OneGrantPerRequest` |
| | `WithinConcurrentLimitHolds` | `Spec => []WithinConcurrentLimit` |
| | `EndedHoldNothingHolds` | `Spec => []EndedHoldNothing` |
| | `ClaimsOnlyOnLiveGrantsHolds` | `Spec => ClaimsOnlyOnLiveGrants` |
| `PolicyRuntimeProofs` | `UsesApprovedHolds` | `Spec => []UsesApproved`, if administrators approve no intents by hand |
| | `OneUsePerApprovalHolds` | `Spec => []OneUsePerApproval`, whoever approves |
| | `ReloadStopsInFlightHolds` | `Spec => []ReloadStopsInFlight` |
| | `OneLiveHandleHolds` | `Spec => []OneLiveHandle` |
| | `RevokedNeverConsumedHolds` | `Spec => RevokedNeverConsumed` |
| `SignServiceProofs` | `UsesBoundedHolds` | `Spec => []UsesBounded` |
| | `KeysAccountedHolds` | `Spec => []KeysAccounted` |
| `CdpBootstrapProofs` | `PlacesReturnHolds` | `Spec => []PlacesReturn` |
| | `EndpointEarnedHolds` | `Spec => []EndpointEarned` |
| `BrowserLeasesProofs` | `BrowsersAreOwnedHolds` | `Spec => []BrowsersAreOwned` |
| | `TokensDieWithLeaseHolds` | `Spec => []TokensDieWithLease` |
| `CeremonySlotProofs` | `OneUsePerRequestHolds` | `Spec => []OneUsePerRequest` |
| | `SettledRequestsAreFinal` | `Spec => [][SettledIsFinal]_vars` |
| | `SlotIsOwned` | `Spec => []SlotOwned`, without administrators |
| `AuditLogProofs` | `TrailIsKept` | `Spec => []TrailKept` |
| | `OpensUnlessTorn` | `Spec => []ReopensUnlessTorn` |

### 5.1 Assumptions

All are stated in the module that declares the constants, and TLC evaluates them
in the runs.

* `IntentStore`: the limit and the lifetimes are natural numbers.
* `GrantRegistry`: the concurrent limit is a natural number, the longest
  lifetime a positive one, lifetimes are natural, and what can be requested are
  sets of operations.
* `PolicyRuntime`: lifetimes are natural numbers; a request is isolated or
  delegated; the limits are natural.
* `SignService`: the budget is a natural number, the largest counter and the
  cache size positive ones (both are constants of the code), and a connection is
  not called like the two other holders of a lock.
* `CdpBootstrap`: the connection limit is a natural number.
* `BrowserLeases`: the threads have different names, `None` is no lease, and the
  scope is per session or per profile.
* `CeremonySlot`: nothing.
* `AuditLog`: frame lengths are between 1 and the size of a segment, the bounds
  are natural numbers, and no thread is called "open" (the thread that recovers
  at start) or "free" (the mutex nobody holds).

Bounds of the model (`MaxTime`, `MaxFaults`, `MaxRequests` and the like) only
guard the steps they bound; nothing is assumed of them.

### 5.2 The arguments

In every module the property is not inductive by itself; `IInv`, defined in the
module or at the start of its proofs, adds what is needed.  It was checked with
TLC as well.

**IntentStore.**  That a token is not accepted twice depends on the record still
lacking its token after a rollback, and that on an id that was dropped never
being handed out again: `IInv` states for each id what its record and its history
say of each other.  Most operations only expire, deny, cancel, roll back, claim
by tuple or drop records.  `Harmless(old, new)` describes what those do to one
record; `HarmlessStep` shows that such a step keeps `IInv`, and `HarmlessCloses`
that it closes or leaves the abstract authority.  Only `Create`, `Approve`,
`Claim` and `Consume` need an argument of their own.  For the limit, `ActiveStep`
shows that nothing but `Create` makes an id live, and `BoundInv` adds that the
live ids are finitely many.

**GrantRegistry.**  `FreshIds` and `IssuedOnce` tie the grants to the requests
they were issued for, across reloads and restarts that forget records; the limit
needs the finiteness of the active set, as above.

**PolicyRuntime.**  The hard case: a worker holds a claim on an intent and a claim
on a grant across five locks while reloads and administrators go on.
`IntentsKnown` says what every table may still name of an intent, `UsesSpent`
that a use has spent its intent for good, `WorkerHolds` what a worker at each of
its steps still holds, `RequestsSettled` that a closed request authorises nothing,
`GrantsOnce` and `HandlesHeld` that grants and handles are not made twice.  Two
transition relations say how a table may fade (records may end or disappear, never
revive); one lemma per action states its effect in those terms, and the parts are
then proved from the effects instead of the definitions.

**SignService.**  `LocksHeld` says who holds which of the three locks at which
step, `Owned` that a request in flight has exactly one connection working for it,
`Remembered` that the budget covers everything made, said or kept for a token, `CountAhead` that
the stored counter is ahead of every one given out, `EnrolmentsSpent` that every
credential was paid for, `GrantsEnd` that a revoked grant stays revoked.

**CdpBootstrap.**  `PlacesReturn` counts the workers, and is inductive once they
are known to be finitely many and `LoopInv` ties the accept thread to the
connection it has accepted; `AskedWithToken` follows a request from its token to
the answer.

**BrowserLeases.**  Nothing in one thread says why a browser it forgets is
stopped: another has it.  `LocksHeld` says which threads exclude each other;
`Known` that whatever names a browser names one that was spawned, so that a
launch never takes over an id; `TokensTaken` that a lease is dropped only after
its token was taken; `Ensuring` what a request relies on between two looks at
the same table, given that a cleanup empties the tables without
`lifecycle_lock`; `Sharing` and `Leaving` that a session of the shared browser is
attached to it until it leaves, that an ended session with a browser is in the
list of some thread that ends sessions, and that a browser which is in no table
any more is in the list of a cleanup (`Doomed`); `LoopEnded` that what the
runtime loop found over does not run.  A request that finds the entry of its shared
browser gone aborts the daemon: all threads stop there, and the browsers that run
on are `slips` with the cause "panic", so that nothing remains to be owned.

**CeremonySlot.**  A preparation can outlive the ceremony that used it, so nothing
about the slot says that its request is spent; the request does.  `Consumed`
states that the request behind every use is approved, and that the one the worker
is about to use is approved and has no use yet.  It is kept because an approved
request never changes again (`SettledIsFinal`, a lemma for all actions and a
theorem of its own) and because `Resolve` binds only a request that was Waiting.
`Shapes` says what the records of the two threads carry.
`SlotOwned` is about what lies between the locks, and holds without
administrators (section 6).  `SlotInv` has the reasons.  `SnapshotCurrent`: while a request
is made nothing is published, and `lifecycle_lock` keeps a cancellation away, so
that `current_pending` still holds the settled request of the snapshot when an
endpoint event empties it unseen.  `SessionsKept`: `managed_sessions` is locked for
as long as a request is made, so a session does not end under it.  `WaitingNamed`
and `SlotNamed` say that a Waiting request and the preparation are in the hands of
the thread that makes them, published, or about to be dropped; the worker, which
leaves its preparation behind when an audit record fails, is not counted on.

**AuditLog.**  Both properties speak of a gate with `slips = {}`: it has made none
of the three wrong writes section 6 describes.  `IInv` has the same condition and
says what is on disk, in memory and in the hands of every thread until then.
* `Files` describes the segments and the anchor alone.  A segment is `Whole`
  (header and complete frames), `Cut` (a partial frame after them) or `Bare` (its
  header is incomplete), and only the newest may be other than whole.  For each
  form the length that verification accepts is named outright, so that no
  induction over frames is needed; the sum of the frame lengths stays folded.
  `Linked` chains records across segments, `Attests` says that the anchor is of a
  prefix, `Holds` that what was accepted is there, and a log without an anchor has
  not rotated yet.
* `MemoryIsTail` says that the gate continues from the last record on disk, less a
  frame that was appended and not yet accepted; `InFlight` and `Pending` that the
  hash of such a frame is in no other place.  Hence undoing it, or losing it in a
  crash, never takes away an accepted record.  `Exclusive` and `AtWork` say which
  thread is inside the mutex and where; `Opening` what verification of a start has
  established before the gate is in use.
* Lemmas of the operators say how the files may change: their newest segment
  grows, is cut back or is replaced, or another follows (`Extended`, `Replaced`,
  `Kept`), each from facts about one segment.  An unsynced write can survive or
  not, so `AppendedFacts` and `HeaderFacts` show the files sound in both cases, and
  the step in which a crash or a failing call decides picks one.

### 5.3 What is only model-checked

* Liveness under fairness and everything that rests on `ENABLED` (`waits`,
  `endings`, `command_line`), which the prover does not handle.
* Operators defined by recursion: `PolicyRules`, the folds of `AuditTrail` and
  `AssertionRules`; what they compute for every input needs induction over data.
* The modules that MC modules instantiate, whose properties are over small
  enumerated inputs.  Two of them rest on proved ones: `HandlesSingle` of the run
  `policy_runtime` is `OneLiveHandle`, and `CeremoniesHold` has `OneUsePerRequest`
  and `SlotOwned` as parts.

## 6. Disagreements between code and documents

Three have a run that shows them.

* `stale_generation_use`: ADR 0007 says in-flight operations fail closed when
  their policy generation changes before key use.  `consume_authorization`
  compares the generation before it consumes the intent and nothing compares
  it after; a reload that completes between consumption and use does not stop
  the use.  `ReloadStopsInFlight`, which does hold, says what is guaranteed:
  a reload stops everything that is not yet consumed.
* `slot_lock_order`: a principal that cancels holds `managed_sessions` and
  waits for `lifecycle_lock`; the runtime loop handling an endpoint event
  holds `lifecycle_lock` and waits for `managed_sessions`.
* `audit_rotation_race`: AUDIT-02 asks for a hash chain over all records.  A
  record that has to rotate the segment computes its frame, gives the locks
  back for the rotation and takes them again to write; a record that another
  thread writes in between gets the same predecessor and the same number.  The
  run has neither faults nor crashes.

Statements of the documents that stand in a module as formulas and that the code
does not keep; they have no run of their own, and the properties of section 4 say
what holds instead.

* `SignHttp!TokenExpires` (`docs/plans/delegated-autonomy-daemon-proxy-implementation.md:181`):
  the registration entry of a token outlives the lease.
* `AuditTrail!UvSourceAsRecorded` (`docs/agents/audit.md`): the record of a
  signature names a source of user verification that was not asked.
* `AgentCeremony!DeletionDeletes` (`docs/agents/isolated.md`): the deletion of a
  credential of an isolated profile is refused.
* `PassStore!NoStaleContents` (the comment of the wrapper): a foreign change that
  arrives while the index is made is taken as seen.
* `TpmStore!PortableSeals` (`docs/TPM_PORTABLE.md:220`): large credential
  metadata cannot be sealed.
* `PolicyRules!DigestCovers` (`docs/plans/agent-policy-automation-gap.md:42`): two
  policies that differ in `human_verification_prompt` or `credential_selection` have
  one digest.

Further observations, each recorded as a hazard at its line or in the comment of
the definition concerned:

* `runtime.rs:2182`: an endpoint event empties `current_pending` without
  comparing it with its snapshot; with a concurrent reload or revocation a newer
  request can be dropped from `current_pending` while it waits.  Likewise a
  request that is published after `handle_disableprofile` looked at
  `current_pending` stays published, Waiting, when the sessions are drained.
  `SlotOwned` is therefore checked and proved without administrators;
  `OneUsePerRequest` is proved with them.
* A browser launch holds `browser_manager` and waits for the credential
  storage; a signature for another browser of the profile holds the storage
  and waits for `browser_manager`.
* `record` and `rotate_segment` take the locks of the audit log in opposite
  orders.
* `record` looks at `circuit_broken` before it takes the locks.  A thread that
  looked before another one's write failed appends behind the torn bytes; its
  caller is told Ok, and the next start cuts the record off.
* A rotation that fails after it made the new file leaves a segment without
  header behind and does not break the circuit: the gate goes on in the old
  segment and the next start refuses the log.
* The record of a recovery is written after the truncation; a crash between
  the two loses it.
* A browser that a request launches while its profile is being disabled is left
  to its deadline; one that an administrator launches after `terminate_all` is
  left for good; a launch that fails after the spawn leaves the process; the panic
  at `runtime/browser_ensure.rs:163` aborts the daemon and leaves the shared browser,
  which is not bound to its parent's death (`slips` of `BrowserLeases`).
* `runtime.rs:4309`: revoking a credential revokes its grants first, records
  afterwards and ignores a record that fails.
* `runtime.rs:4184`: a profile with nothing to read ends a listing of credentials,
  and the profiles after it are left out without an error.
* `audit.rs:1308`: after the race of `audit_rotation_race` an export carries a
  sequence number twice.
* A rule that allows with presence "none" is answered without the presence flag,
  which a relying party refuses.
* `sign.rs:768`: the place of a connection is taken before its thread is spawned and
  has no guard.  Neither a spawn that fails nor a panic of the thread gives it back;
  both end the daemon in the release build.
* `launcher.rs:762`: without `close_range` in the kernel, descriptors from 4096 on
  survive in the child.
* `browser.rs:1343`: the write to the browser has no deadline and holds the manager.
* `launcher.rs:1128`, `1196`: the signal of a failed launch is for a process group
  that a child exists in only after `setsid`; one for another user that has reported
  no error yet goes on to run its program.  The change of user also clears its
  parent-death signal.
* `ipc.rs:263`: a directory that is not empty stays, and the next start fails at
  `create_dir` (`ipc.rs:190`).  A worker with a silent client or a parked one keeps a
  shutdown from ending.
* `RevocationsHold` is about `admin_revoke_grant`; `revoke_grant_by_id`
  (`runtime.rs:4310`, `4618`) is the action `RevokeGrantById` of `PolicyRuntime`,
  which does not promise as much: it leaves the claims of the grant.

## 7. What is not modelled

* The C shim and the hardware probes: they share no state with the toolkit.
* Wire formats (CTAP, JSON, HTTP, CDP, HID), cryptography and file layouts: the
  parts of a message that a decision depends on are kept as values, the bytes
  are not.  The formatting of status, listings and logs.
* The notification server, the kernel, the TPM, git, the browser and the CTAP
  library are external: what the code may observe of them is a nondeterministic
  choice.
* The daemon today creates only isolated requests; the delegated ones are in
  `PolicyRuntime` (`Actors`, `Kinds`), because that code is the reference for
  both.
* No module composes two components that run at the same time beyond what the
  table of section 2 says; the interfaces are the choices named there.

## 8. What is left to prove

The invariants of the modules that have no
proofs (`AgentCeremony`, `AgentControl`, `AssertionRules`, `PassStore`, `TpmStore`
and the others of section 2) are checked by TLC only.
