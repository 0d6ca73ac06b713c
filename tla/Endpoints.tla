----------------------------- MODULE Endpoints -----------------------------
(***************************************************************************)
(* The agent subsystem from start to stop, seen from its virtual devices:  *)
(* AgentRuntime::start and shutdown (agent/runtime.rs) on the bootstrap    *)
(* thread of main.rs, the endpoint registry (agent/device.rs), the endpoint*)
(* manager (agent/endpoint_manager.rs) and the worker thread of every      *)
(* device (worker.rs).                                                     *)
(*                                                                         *)
(* Profiles are started in order.  Only an isolated profile has a device,  *)
(* created once, so that an endpoint is named by its profile.  Outside a   *)
(* shutdown the daemon neither cancels nor destroys an endpoint: what      *)
(* reap_stopped and the recreation in EnableProfile would do is never      *)
(* reached.  The manager is behind one lock, held while it waits.          *)
(***************************************************************************)
EXTENDS Integers, FiniteSets

CONSTANTS NumProfiles,   \* profiles are 1..NumProfiles
          Isolated       \* those with a device

VARIABLES boot,       \* the bootstrap thread: what it is doing
          at,         \* ... and for which profile
          shutdown,   \* the flag of the whole process
          reg,        \* the registry: state of the entry of a profile
          runtimes,   \* the manager: profiles with a RuntimeEntry
          cancel,     \* worker cancellation flags
          worker,     \* the worker threads
          signing,    \* the thread of the signing server
          enabled

vars == <<boot, at, shutdown, reg, runtimes, cancel, worker, signing, enabled>>

Profiles == 1 .. NumProfiles

Init ==
  /\ boot = "gate" /\ at = 0 /\ shutdown = "no"
  /\ reg = [p \in Profiles |-> "none"] /\ runtimes = {} /\ cancel = {}
  /\ worker = [p \in Profiles |-> "none"] /\ signing = "none"
  /\ enabled = {}

-----------------------------------------------------------------------------
(* EndpointRegistry.                                                        *)

ValidTransition ==
  {<<"creating", "ready">>, <<"ready", "active">>, <<"active", "draining">>,
   <<"draining", "destroyed">>}
  \cup {<<s, "failed">> : s \in {"creating", "ready", "active", "draining"}}

\* transition_inner on the registry r: an invalid transition is refused and the
\* refusal ignored.
Transition(r, p, s) == IF <<r[p], s>> \in ValidTransition THEN [r EXCEPT ![p] = s] ELSE r

-----------------------------------------------------------------------------
(* Starting.                                                                *)

\* A step of start that may refuse to go on; nothing has to be undone yet.
StartStep(from, to, sound) ==
  /\ boot = from /\ boot' = IF sound THEN to ELSE "failed"
  /\ UNCHANGED <<at, shutdown, reg, runtimes, cancel, worker, signing, enabled>>

\* The audit gate is opened and the policy runtime made.
OpenGate(sound) == StartStep("gate", "users", sound)

\* The users of every profile exist and, under root, are not each other, the
\* daemon or root; the runtime root of the browser is the browser user's.
ResolveUsers(sound) == StartStep("users", "diagnose", sound)

\* Diagnostics over all profiles: directories, their owners, UHID, identities.
Diagnose(sound) == StartStep("diagnose", "ipc", sound)

\* RuntimeDir::create and IpcServer::bind; without a profile there is none.
BindIpc(bound) == StartStep("ipc", "sign", bound /\ NumProfiles > 0)

\* SignHttpServer::serve: from here on the thread runs, whatever becomes of the
\* start.
BindSign(bound) ==
  /\ boot = "sign"
  /\ IF bound THEN boot' = "profile" /\ at' = 1 /\ signing' = "running"
     ELSE boot' = "failed" /\ UNCHANGED <<at, signing>>
  /\ UNCHANGED <<shutdown, reg, runtimes, cancel, worker, enabled>>

\* The audit record of the profile; for an isolated one also its storage and
\* key provider.  Failing here leaves start without the cleanup below it.
OpenProfile(opened) ==
  /\ boot = "profile" /\ at \in Profiles
  /\ IF ~opened THEN boot' = "drop" /\ UNCHANGED <<at, enabled>>
     ELSE IF at \in Isolated THEN boot' = "prepare" /\ UNCHANGED <<at, enabled>>
     ELSE boot' = "profile" /\ at' = at + 1 /\ enabled' = enabled \cup {at}
  /\ UNCHANGED <<shutdown, reg, runtimes, cancel, worker, signing>>

\* create_endpoint_from_spec: the index of the scoped storage is built and the
\* authenticator service made, with or without the TPM.
PrepareEndpoint(made) ==
  /\ boot = "prepare" /\ boot' = IF made THEN "create" ELSE "undo"
  /\ UNCHANGED <<at, shutdown, reg, runtimes, cancel, worker, signing, enabled>>

\* The manager refuses once the process is shutting down: no entry is made.
CreateRefused ==
  /\ boot = "create" /\ shutdown = "yes" /\ boot' = "undo"
  /\ UNCHANGED <<at, shutdown, reg, runtimes, cancel, worker, signing, enabled>>

\* before_start, the device or its mode fails.
CreateFails ==
  /\ boot = "create" /\ shutdown = "no" /\ boot' = "undo"
  /\ reg' = Transition([reg EXCEPT ![at] = "creating"], at, "failed")
  /\ UNCHANGED <<at, shutdown, runtimes, cancel, worker, signing, enabled>>

CreateAndStart ==
  /\ boot = "create" /\ shutdown = "no" /\ boot' = "profile" /\ at' = at + 1
  /\ reg' = Transition(Transition([reg EXCEPT ![at] = "creating"], at, "ready"), at, "active")
  /\ runtimes' = runtimes \cup {at} /\ worker' = [worker EXCEPT ![at] = "idle"]
  /\ enabled' = enabled \cup {at}
  /\ UNCHANGED <<shutdown, cancel, signing>>

Started ==
  /\ boot = "profile" /\ at > NumProfiles /\ boot' = "running"
  /\ UNCHANGED <<at, shutdown, reg, runtimes, cancel, worker, signing, enabled>>

\* cancel and destroy of what was created, when a later endpoint fails.
Undo(p, joined) ==
  /\ boot = "undo" /\ p \in runtimes /\ p \notin cancel
  /\ cancel' = cancel \cup {p}
  /\ reg' = Transition(reg, p, "draining")
  /\ boot' = IF joined THEN "undone" ELSE "undo"
  /\ at' = IF joined THEN p ELSE at
  /\ UNCHANGED <<shutdown, runtimes, worker, signing, enabled>>

UndoEnds ==
  /\ boot = "undo" /\ runtimes \subseteq cancel /\ boot' = "drop"
  /\ UNCHANGED <<at, shutdown, reg, runtimes, cancel, worker, signing, enabled>>

-----------------------------------------------------------------------------
(* Workers: run_loop.                                                       *)

Running(p) == worker[p] \in {"idle", "busy"}

Packet(p) ==
  /\ worker[p] = "idle" /\ worker' = [worker EXCEPT ![p] = "busy"]
  /\ UNCHANGED <<boot, at, shutdown, reg, runtimes, cancel, signing, enabled>>

Respond(p) ==
  /\ worker[p] = "busy" /\ worker' = [worker EXCEPT ![p] = "idle"]
  /\ UNCHANGED <<boot, at, shutdown, reg, runtimes, cancel, signing, enabled>>

\* Reading or writing fails.  Nobody looks.
WorkerBreaks(p) ==
  /\ Running(p) /\ worker' = [worker EXCEPT ![p] = "stopped"]
  /\ UNCHANGED <<boot, at, shutdown, reg, runtimes, cancel, signing, enabled>>

Drained(p) ==
  /\ worker[p] = "idle" /\ p \in cancel /\ worker' = [worker EXCEPT ![p] = "stopped"]
  /\ UNCHANGED <<boot, at, shutdown, reg, runtimes, cancel, signing, enabled>>

-----------------------------------------------------------------------------
(* Administrators.                                                          *)

\* The endpoint is healthy if the registry has an entry for its id, whatever the
\* entry says; the id of a same-user profile has none, so that a same-user
\* profile once disabled is refused until the daemon restarts.
EnableProfile(p) ==
  /\ boot = "running"
  /\ IF reg[p] # "none" THEN enabled' = enabled \cup {p}
     ELSE UNCHANGED enabled
  /\ UNCHANGED <<boot, at, shutdown, reg, runtimes, cancel, worker, signing>>

DisableProfile(p) ==
  /\ boot = "running" /\ enabled' = enabled \ {p}
  /\ UNCHANGED <<boot, at, shutdown, reg, runtimes, cancel, worker, signing>>

-----------------------------------------------------------------------------
(* Stopping.                                                                *)

Signal ==
  /\ shutdown = "no" /\ shutdown' = "yes"
  /\ UNCHANGED <<boot, at, reg, runtimes, cancel, worker, signing, enabled>>

\* shutdown up to the endpoints; its other waits are in AgentSessions.
Shutdown ==
  /\ boot = "running" /\ shutdown = "yes" /\ boot' = "join" /\ at' = 1
  /\ signing' = "none" /\ cancel' = runtimes
  /\ UNCHANGED <<shutdown, reg, runtimes, worker, enabled>>

\* As Destroyed, also when the wait was given up.
DestroyedAnyway(p) ==
  /\ reg' = Transition(reg, p, "destroyed")
  /\ runtimes' = runtimes \ {p}

\* join_timeout has returned: the entry goes if the thread had ended.
Destroyed(p) ==
  IF Running(p) THEN UNCHANGED <<reg, runtimes>>
  ELSE /\ reg' = Transition(reg, p, "destroyed")
       /\ runtimes' = runtimes \ {p}

\* The outcome of the wait of destroy, after two seconds or before.
Undone ==
  /\ boot = "undone" /\ boot' = "undo" /\ Destroyed(at)
  /\ UNCHANGED <<at, shutdown, cancel, worker, signing, enabled>>

\* shutdown_all, one endpoint after the other: no time left, or a wait that ends
\* in JoinEnds.
JoinSkipped ==
  /\ boot = "join" /\ at \in Profiles /\ at' = at + 1
  /\ UNCHANGED <<boot, shutdown, reg, runtimes, cancel, worker, signing, enabled>>

JoinBegins ==
  /\ boot = "join" /\ at \in runtimes /\ boot' = "joining"
  /\ reg' = Transition(reg, at, "draining")
  /\ UNCHANGED <<at, shutdown, runtimes, cancel, worker, signing, enabled>>

JoinEnds ==
  /\ boot = "joining" /\ boot' = "join" /\ at' = at + 1 /\ Destroyed(at)
  /\ UNCHANGED <<shutdown, cancel, worker, signing, enabled>>

AllJoined ==
  /\ boot = "join" /\ at > NumProfiles /\ boot' = "drop"
  /\ UNCHANGED <<at, shutdown, reg, runtimes, cancel, worker, signing, enabled>>

\* As DropWorker, without joining the thread.
DropWorkerDetached(p) ==
  /\ boot = "drop" /\ p \in runtimes
  /\ cancel' = cancel \cup {p} /\ runtimes' = runtimes \ {p}
  /\ UNCHANGED <<boot, at, shutdown, reg, worker, signing, enabled>>

\* As DropWorker, without telling the worker.
DropWorkerSilent(p) ==
  /\ boot = "drop" /\ p \in runtimes /\ ~Running(p) /\ runtimes' = runtimes \ {p}
  /\ UNCHANGED <<boot, at, shutdown, reg, cancel, worker, signing, enabled>>

\* Drop of a WorkerHandle: cancelled, and joined for as long as it takes.
DropWorker(p) ==
  /\ boot = "drop" /\ p \in runtimes
  /\ cancel' = cancel \cup {p}
  /\ IF Running(p) THEN p \notin cancel /\ UNCHANGED runtimes ELSE runtimes' = runtimes \ {p}
  /\ UNCHANGED <<boot, at, shutdown, reg, worker, signing, enabled>>

Dropped ==
  /\ boot = "drop" /\ runtimes = {}
  /\ boot' = IF signing = "running" THEN "failed" ELSE "stopped"
  /\ UNCHANGED <<at, shutdown, reg, runtimes, cancel, worker, signing, enabled>>

-----------------------------------------------------------------------------
BootStep ==
  \/ \E ok \in BOOLEAN : 
       \/ OpenGate(ok) \/ ResolveUsers(ok) \/ Diagnose(ok) \/ BindIpc(ok) \/ BindSign(ok)
       \/ OpenProfile(ok) \/ PrepareEndpoint(ok)
  \/ CreateRefused \/ CreateFails \/ CreateAndStart \/ Started
  \/ \E p \in Profiles : (\E j \in BOOLEAN : Undo(p, j)) \/ DropWorker(p)
  \/ UndoEnds \/ Undone \/ Shutdown \/ JoinSkipped \/ JoinBegins \/ JoinEnds
  \/ AllJoined \/ Dropped

Next ==
  \/ BootStep \/ Signal
  \/ \E p \in Profiles :
       Packet(p) \/ Respond(p) \/ WorkerBreaks(p) \/ Drained(p)
       \/ EnableProfile(p) \/ DisableProfile(p)

\* The bootstrap thread runs; a worker that has nothing left to read notices
\* that it was cancelled (a host that sends without end keeps it).
Fairness == WF_vars(BootStep) /\ \A p \in Profiles : SF_vars(Drained(p))

Spec == Init /\ [][Next]_vars /\ Fairness

-----------------------------------------------------------------------------
(* Properties.                                                              *)

\* No virtual device outlives the subsystem: once start has failed or shutdown
\* has returned, and for an entry the registry calls destroyed or failed, no
\* worker thread runs, however the waits for it ended.
NoDeviceLeft ==
  \A p \in Profiles :
    boot \in {"failed", "stopped"} \/ reg[p] \in {"destroyed", "failed"} => ~Running(p)

\* A subsystem that is told to shut down, or fails to start, comes to an end,
\* unless in the end some worker is busy with a command for ever: the join in
\* the drop of its handle has no limit.
SubsystemEnds ==
  \/ <>[](\E p \in Profiles : worker[p] = "busy")
  \/ (shutdown = "yes" \/ boot \in {"undo", "drop"}) ~> (boot \in {"failed", "stopped"})
=============================================================================
