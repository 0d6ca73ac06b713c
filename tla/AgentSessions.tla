--------------------------- MODULE AgentSessions ---------------------------
(***************************************************************************)
(* The principal sessions of one profile and the worker threads that serve *)
(* connections: WorkerTracker, accept_and_dispatch_*, LaunchPrincipal,     *)
(* TerminatePrincipal, WaitPrincipal, RevokeSession, DisableProfile, the   *)
(* reaper of the runtime loop and shutdown (agent/runtime.rs), the request *)
(* handling of agent/ipc.rs and the processes of agent/launcher.rs.        *)
(*                                                                         *)
(* managed_sessions is taken once in a step and never held between steps.  *)
(* The browser and the pending request of a session that ends are in       *)
(* BrowserLeases and CeremonySlot.                                         *)
(***************************************************************************)
EXTENDS Integers, FiniteSets

CONSTANTS Sessions,       \* the sessions that may be launched
          Workers,        \* MAX_WORKERS threads
          Limit,          \* max_concurrent_sessions; 0 with a shared browser: none
          MaxCompleted,   \* MAX_COMPLETED_SESSIONS
          MaxStuck        \* bound on processes that survive being killed (model only)

VARIABLES proc,        \* the processes of the sessions
          over,        \* sessions past their deadline, or whose client has died
          managed,     \* managed_sessions
          completed,   \* completed_sessions
          worker,      \* the worker threads: what each is doing
          loop,        \* the runtime loop: what it has taken out and not yet recorded
          profile,     \* whether it is enabled, and whether its principals run as
                       \*   the user of the daemon or as another one
          daemon,
          ended,       \* history: "kept" if the end of a session is to be remembered,
                       \*   "released" once it was told, displaced, aged out or dropped
          stuck        \* history: processes that were killed and did not die in time

vars == <<proc, over, managed, completed, worker, loop, profile, daemon, ended, stuck>>

Free == [pc |-> "none"]
NobodyHolds == {}

Init ==
  /\ proc = [s \in Sessions |-> "unborn"] /\ over = {}
  /\ managed = {} /\ completed = {}
  /\ worker = [w \in Workers |-> Free] /\ loop = {}
  /\ profile \in [enabled : {"yes"}, user : {"same", "other"}] /\ daemon = "running"
  /\ ended = [s \in Sessions |-> "no"] /\ stuck = {}

Do(w, r) == worker' = [worker EXCEPT ![w] = r]

\* Drop of a PrincipalSession, or terminate: SIGTERM, SIGKILL and a wait that is
\* given up after two seconds.
Killed(S, survivors) ==
  /\ survivors \subseteq {s \in S : proc[s] = "running"}
  /\ Cardinality(stuck \cup survivors) =< MaxStuck
  /\ stuck' = stuck \cup survivors
  /\ proc' = [s \in Sessions |-> IF s \in S \ survivors THEN "gone" ELSE proc[s]]

\* Sessions leave managed_sessions.
Leave(S) == managed' = managed \ S /\ over' = over \ S
Mark(S, how) == ended' = [s \in Sessions |-> IF s \in S THEN how ELSE ended[s]]

\* prune_completed_before_insert and the insertion: the oldest entries make room.
Record(s, released) ==
  \E old \in SUBSET completed :
    /\ Cardinality(old) = IF Cardinality(completed) < MaxCompleted THEN 0 ELSE 1
    /\ completed' = (completed \ old) \cup {s}
    /\ Mark(old \cup released, "released")

-----------------------------------------------------------------------------
(* The world.                                                               *)

ProcessExits(s) ==
  /\ proc[s] \in {"running", "stray"} /\ proc' = [proc EXCEPT ![s] = "zombie"]
  /\ UNCHANGED <<over, managed, completed, worker, loop, profile, daemon, ended, stuck>>

SessionOver(s) ==
  /\ s \in managed /\ s \notin over /\ over' = over \cup {s}
  /\ UNCHANGED <<proc, managed, completed, worker, loop, profile, daemon, ended, stuck>>

\* An entry of completed_sessions is dropped after its ten minutes.
PruneCompleted(s) ==
  /\ s \in completed /\ loop = NobodyHolds /\ daemon = "running"
  /\ completed' = completed \ {s}
  /\ Mark({s}, "released")
  /\ UNCHANGED <<proc, over, managed, worker, loop, profile, daemon, stuck>>

-----------------------------------------------------------------------------
(* Connections.  Without a free worker a connection is dropped.             *)

Accept(w) ==
  /\ daemon = "running" /\ loop = NobodyHolds
  /\ worker[w] = Free /\ Do(w, [pc |-> "receive"])
  /\ UNCHANGED <<proc, over, managed, completed, loop, profile, daemon, ended, stuck>>

AcceptPrincipal(w) ==
  /\ daemon = "running" /\ loop = NobodyHolds
  /\ worker[w] = Free /\ Do(w, [pc |-> "principal"])
  /\ UNCHANGED <<proc, over, managed, completed, loop, profile, daemon, ended, stuck>>

\* validate_peer_cred, capture_peer_identity_double_read: the peer of a
\* connection is not who it has to be, or changes between two reads.
PeerRefused(w) ==
  /\ worker[w].pc \in {"receive", "principal"} /\ Do(w, Free)
  /\ UNCHANGED <<proc, over, managed, completed, loop, profile, daemon, ended, stuck>>

\* handle_one_principal: its requests change no session.
ServePrincipal(w) ==
  /\ worker[w].pc = "principal" /\ Do(w, Free)
  /\ UNCHANGED <<proc, over, managed, completed, loop, profile, daemon, ended, stuck>>

\* handle_one_admin up to the handler: a frame of the wrong role, version or
\* shape or with the wrong descriptors ends the connection, as does a request
\* that touches no session.
Refuse(w) ==
  /\ worker[w].pc = "receive" /\ Do(w, Free)
  /\ UNCHANGED <<proc, over, managed, completed, loop, profile, daemon, ended, stuck>>

Receive(w) ==
  /\ worker[w].pc = "receive"
  /\ \E r \in {[pc |-> "launch"], [pc |-> "terminate"], [pc |-> "disable"]}
              \cup [pc : {"wait", "revoke"}, s : Sessions] : Do(w, r)
  /\ UNCHANGED <<proc, over, managed, completed, loop, profile, daemon, ended, stuck>>

-----------------------------------------------------------------------------
(* Launching.                                                               *)

\* As ReapTake, without keeping the status of what was reaped.
ReapTakeForgetting(w) ==
  /\ worker[w].pc = "launch"
  /\ LET S == {s \in managed : profile.enabled = "yes" /\ (s \in over \/ proc[s] = "zombie")} IN
     /\ Leave(S)
     /\ Mark(S, "kept")
     /\ \E survivors \in SUBSET S : Killed(S, survivors)
     /\ Do(w, IF profile.enabled = "yes" THEN [pc |-> "spawn", todo |-> {}] ELSE Free)
  /\ UNCHANGED <<completed, loop, profile, daemon>>

\* reap_expired_sessions: the processes die inside the lock, their status is
\* recorded after it.
ReapTake(w) ==
  /\ worker[w].pc = "launch"
  /\ LET S == {s \in managed : profile.enabled = "yes" /\ (s \in over \/ proc[s] = "zombie")} IN
     /\ Leave(S)
     /\ Mark(S, "kept")
     /\ \E survivors \in SUBSET S : Killed(S, survivors)
     /\ Do(w, IF profile.enabled = "yes" THEN [pc |-> "spawn", todo |-> S] ELSE Free)
  /\ UNCHANGED <<completed, loop, profile, daemon>>

ReapRecord(w, s) ==
  /\ worker[w].pc = "spawn" /\ s \in worker[w].todo /\ Record(s, {})
  /\ Do(w, [worker[w] EXCEPT !.todo = @ \ {s}])
  /\ UNCHANGED <<proc, over, managed, loop, profile, daemon, stuck>>

\* spawn_principal: the child is verified and given its capability.  When
\* something fails it was never there (its setup or exec failed: "gone"), or its
\* process group is killed and not waited for.  A child of another user closes
\* the pipe by which spawn waits for exec as the first thing it does, so that
\* the kill may come before its setsid, when there is no such group: it goes on
\* to run the program, without a capability and unknown to the daemon.
SpawnOutcomes ==
  {"running", "zombie", "gone"} \cup (IF profile.user = "other" THEN {"stray"} ELSE {})
SpawnPrincipal(s, p) == p \in SpawnOutcomes /\ proc' = [proc EXCEPT ![s] = p]

LimitReached == Limit # 0 /\ Cardinality(managed) >= Limit

\* managed_sessions is locked from the limit check to the push.
Spawn(w, s) ==
  /\ worker[w].pc = "spawn" /\ worker[w].todo = {}
  /\ IF LimitReached \/ proc[s] # "unborn"
     THEN Do(w, Free) /\ UNCHANGED <<proc, managed>>
     ELSE \/ /\ SpawnPrincipal(s, "running") /\ managed' = managed \cup {s}
             /\ Do(w, [pc |-> "respond", s |-> s])
          \/ /\ \E p \in SpawnOutcomes \ {"running"} : SpawnPrincipal(s, p)
             /\ Do(w, Free) /\ UNCHANGED managed
  /\ UNCHANGED <<over, completed, loop, profile, daemon, ended, stuck>>

\* The worker stays for as long as the child exists, or leaves at once when the
\* answer cannot be sent.  The end of its thread sends a child of the same user
\* SIGTERM (PR_SET_PDEATHSIG), which it may ignore; for another user setuid has
\* cleared it and nothing is sent.  The session is managed either way.
Respond(w) ==
  /\ worker[w].pc = "respond"
  /\ \/ Do(w, [pc |-> "park", s |-> worker[w].s]) /\ UNCHANGED proc
     \/ Do(w, Free) /\ UNCHANGED proc
     \/ /\ Do(w, Free) /\ profile.user = "same" /\ proc[worker[w].s] = "running"
        /\ proc' = [proc EXCEPT ![worker[w].s] = "zombie"]
  /\ UNCHANGED <<over, managed, completed, loop, profile, daemon, ended, stuck>>

\* As Unpark, waiting for the record of the session instead of its process.
UnparkWhenRecorded(w) ==
  /\ worker[w].pc = "park" /\ worker[w].s \in completed /\ Do(w, Free)
  /\ UNCHANGED <<proc, over, managed, completed, loop, profile, daemon, ended, stuck>>

Unpark(w) ==
  /\ worker[w].pc = "park" /\ proc[worker[w].s] = "gone" /\ Do(w, Free)
  /\ UNCHANGED <<proc, over, managed, completed, loop, profile, daemon, ended, stuck>>

-----------------------------------------------------------------------------
(* Ending and waiting.                                                      *)

TakeAll(w) ==
  /\ worker[w].pc = "terminate"
  /\ Do(w, IF managed = {} THEN Free ELSE [pc |-> "terminating", todo |-> managed])
  /\ Leave(managed)
  /\ Mark(managed, "kept")
  /\ UNCHANGED <<proc, completed, loop, profile, daemon, stuck>>

TerminateOne(w, s) ==
  /\ worker[w].pc = "terminating" /\ s \in worker[w].todo
  /\ \E survivors \in SUBSET {s} : Killed({s}, survivors)
  /\ Record(s, {})
  /\ LET rest == worker[w].todo \ {s} IN
     Do(w, IF rest = {} THEN Free ELSE [worker[w] EXCEPT !.todo = rest])
  /\ UNCHANGED <<over, managed, loop, profile, daemon>>

\* handle_wait_principal: one round of its loop.  A session that is in nobody's
\* collection is answered from completed_sessions, which forgets it.
WaitRound(w) ==
  /\ worker[w].pc = "wait"
  /\ LET s == worker[w].s IN
     \/ /\ s \in managed /\ proc[s] = "zombie"
        /\ Leave({s}) /\ proc' = [proc EXCEPT ![s] = "gone"]
        /\ Mark({s}, "kept")
        /\ Do(w, [pc |-> "waited", s |-> s]) /\ UNCHANGED completed
     \/ /\ s \in managed /\ proc[s] # "zombie" /\ Do(w, Free)
        /\ UNCHANGED <<proc, over, managed, completed, ended>>
     \/ /\ s \notin managed /\ Do(w, Free) /\ completed' = completed \ {s}
        /\ Mark({s} \cap completed, "released")
        /\ UNCHANGED <<proc, over, managed>>
  /\ UNCHANGED <<loop, profile, daemon, stuck>>

WaitRecord(w) ==
  /\ worker[w].pc = "waited" /\ Record(worker[w].s, {worker[w].s})
  /\ Do(w, Free)
  /\ UNCHANGED <<proc, over, managed, loop, profile, daemon, stuck>>

\* handle_revoke_session and handle_disableprofile keep no status.
RevokeTake(w) ==
  /\ worker[w].pc = "revoke"
  /\ LET s == worker[w].s IN
     /\ Leave({s})
     /\ Mark({s} \cap managed, "released")
     /\ Do(w, IF s \in managed THEN [pc |-> "revoking", s |-> s] ELSE Free)
  /\ UNCHANGED <<proc, completed, loop, profile, daemon, stuck>>

RevokeDrop(w) ==
  /\ worker[w].pc = "revoking"
  /\ \E survivors \in SUBSET {worker[w].s} : Killed({worker[w].s}, survivors)
  /\ Do(w, Free)
  /\ UNCHANGED <<over, managed, completed, loop, profile, daemon, ended>>

DisableProfile(w) ==
  /\ worker[w].pc = "disable" /\ profile' = [profile EXCEPT !.enabled = "no"] /\ Leave(managed)
  /\ \E survivors \in SUBSET managed : Killed(managed, survivors)
  /\ Mark(managed, "released")
  /\ Do(w, Free)
  /\ UNCHANGED <<completed, loop, daemon>>

-----------------------------------------------------------------------------
(* The runtime loop and shutdown.                                           *)

LoopReap ==
  /\ daemon = "running" /\ loop = NobodyHolds
  /\ LET S == {s \in managed : s \in over \/ proc[s] = "zombie"} IN
     /\ S # {} /\ Leave(S) /\ loop' = S
     /\ Mark(S, "kept")
     /\ \E survivors \in SUBSET S : Killed(S, survivors)
  /\ UNCHANGED <<completed, worker, profile, daemon>>

LoopRecord(s) ==
  /\ s \in loop /\ Record(s, {}) /\ loop' = loop \ {s}
  /\ UNCHANGED <<proc, over, managed, worker, profile, daemon, stuck>>

ShutdownBegin ==
  /\ daemon = "running" /\ daemon' = "stopping"
  /\ UNCHANGED <<proc, over, managed, completed, worker, loop, profile, ended, stuck>>

\* As ShutdownSessions, without waiting for the workers.
ShutdownSessionsAtOnce ==
  /\ daemon = "stopping" /\ loop = NobodyHolds
  /\ Leave(managed) /\ daemon' = "stopped"
  /\ \E survivors \in SUBSET managed : Killed(managed, survivors)
  /\ Mark(managed, "released")
  /\ UNCHANGED <<completed, worker, loop, profile>>

\* shutdown_all_sessions, after the runtime loop was joined.
ShutdownSessions ==
  /\ daemon = "stopping" /\ loop = NobodyHolds
  /\ Leave(managed) /\ daemon' = "joining"
  /\ \E survivors \in SUBSET managed : Killed(managed, survivors)
  /\ Mark(managed, "released")
  /\ UNCHANGED <<completed, worker, loop, profile>>

\* join_all.
JoinWorkers ==
  /\ daemon = "joining" /\ \A w \in Workers : worker[w] = Free /\ daemon' = "stopped"
  /\ UNCHANGED <<proc, over, managed, completed, worker, loop, profile, ended, stuck>>

\* The thread of the agent subsystem lets go of the runtime after its shutdown:
\* the sessions that were launched while the others were ended are dropped with it.
DropRuntime ==
  /\ daemon = "stopped" /\ daemon' = "dropped"
  /\ Leave(managed)
  /\ \E survivors \in SUBSET managed : Killed(managed, survivors)
  /\ Mark(managed, "released")
  /\ UNCHANGED <<completed, worker, loop, profile>>

-----------------------------------------------------------------------------
\* What a worker does by itself once it has a request.
WorkerStep(w) ==
  \/ ReapTake(w) \/ Respond(w) \/ Unpark(w)
  \/ TakeAll(w) \/ WaitRound(w) \/ WaitRecord(w) \/ RevokeTake(w) \/ RevokeDrop(w)
  \/ DisableProfile(w)
  \/ \E s \in Sessions : ReapRecord(w, s) \/ Spawn(w, s) \/ TerminateOne(w, s)

LoopStep == LoopReap \/ \E s \in Sessions : LoopRecord(s)
MainStep == ShutdownSessions \/ JoinWorkers \/ DropRuntime

Next ==
  \/ \E s \in Sessions : ProcessExits(s) \/ SessionOver(s) \/ PruneCompleted(s)
  \/ \E w \in Workers :
       \/ Accept(w) \/ AcceptPrincipal(w) \/ PeerRefused(w) \/ ServePrincipal(w)
       \/ Refuse(w) \/ Receive(w) \/ WorkerStep(w)
  \/ LoopStep \/ ShutdownBegin \/ MainStep

\* The threads of the daemon run; clients, processes and administrators need
\* not do anything.
Fairness ==
  /\ \A w \in Workers : WF_vars(WorkerStep(w))
  /\ WF_vars(LoopStep) /\ WF_vars(MainStep)

Spec == Init /\ [][Next]_vars /\ Fairness

-----------------------------------------------------------------------------
(* Properties.                                                              *)

InHand(s) ==
  \/ s \in loop
  \/ \E w \in Workers :
       \/ worker[w].pc \in {"spawn", "terminating"} /\ s \in worker[w].todo
       \/ worker[w].pc \in {"waited", "revoking"} /\ s = worker[w].s

\* A session process that runs is managed, so that its deadline will be
\* noticed, or some thread has just taken it out and is about to kill it, or it
\* was killed and did not die in time; and no other is left once the runtime
\* has been shut down and dropped, a launch that was under way during the
\* shutdown included.  One more is named: a launch for another user that failed
\* before the child called setsid leaves a process that nobody manages
\* (launcher.rs:1128).
SessionsAccountedFor ==
  \A s \in Sessions :
    /\ proc[s] = "running" =>
         s \in stuck \/ (daemon # "dropped" /\ (s \in managed \/ InHand(s)))
    /\ proc[s] = "stray" => profile.user = "other" /\ s \notin managed

\* The end of a session that was reaped, terminated or waited for stays
\* available to a waiter until one was told, the entry was displaced or it aged
\* out: no interleaving of the reaper and the waiters drops it.
EndIsRemembered ==
  \A s \in Sessions : ended[s] = "kept" => s \in completed \/ InHand(s)

\* A shutdown ends, whatever requests were under way, unless in the end some
\* client keeps a connection open without a request, or some worker is parked
\* on a process that nobody kills any more: one that survived, or one launched
\* after the sessions were drained.
ShutdownEnds ==
  \/ <>[](\E w \in Workers : worker[w].pc \in {"receive", "principal"})
  \/ <>[](\E w \in Workers : worker[w].pc = "park" /\ proc[worker[w].s] # "gone")
  \/ (daemon = "stopping") ~> (daemon = "dropped")
=============================================================================
