---------------------------- MODULE CeremonySlot ----------------------------
(***************************************************************************)
(* One isolated profile of the agent daemon (agent/runtime.rs): the        *)
(* pending request it has published (current_pending), the preparation     *)
(* waiting for the next ceremony (CeremonyPreparationSlot of ceremony.rs), *)
(* and the threads that keep the two in step.                              *)
(*                                                                         *)
(*   principal  a principal request, under the profile's session list      *)
(*   worker     the endpoint's CTAP worker, one ceremony at a time         *)
(*   main       the runtime loop: endpoint events, expiry, dead sessions   *)
(*   admin      an administration request                                  *)
(*                                                                         *)
(* current_pending and the slot have short locks of their own: one access  *)
(* is one action.  The two locks kept across accesses, managed_sessions    *)
(* and lifecycle_lock, are variables.  Of the policy runtime only what it  *)
(* answers is kept, the state of each request; PolicyRuntime has its       *)
(* inside.  Deadlines are minutes away: a Waiting request may expire at    *)
(* any time after its creation has returned.                               *)
(***************************************************************************)
EXTENDS Integers, FiniteSets

CONSTANTS Requests, Sessions, Ops,
          Actors,     \* subset of {"cancel", "command", "reap", "revoke", "reload", "disable"}
          MaxGen,     \* bound on policy reloads (model only)
          MaxEvents   \* bound on queued endpoint events (model only)

ASSUME SlotBoundsAssumption == MaxGen \in Nat /\ MaxEvents \in Nat \ {0}

VARIABLES reqs,       \* request -> its state and tuple, as the policy runtime keeps it
          gen,        \* the current policy generation
          slot,       \* the installed preparation: its request and its number
          counter,    \* generation_counter of the slot
          current,    \* current_pending: request and preparation number
          sessions,   \* managed_sessions: the live ones
          enabled,    \* "yes" or "no"
          locks,      \* who holds managed_sessions and lifecycle_lock
          events,     \* ResponseSent events in the channel
          th,         \* the threads
          uses        \* history: key uses, the request prepared and the request consumed

vars == <<reqs, gen, slot, counter, current, sessions, enabled, locks, events, th, uses>>

Threads == {"principal", "worker", "main", "admin"}
Settled == {"Approved", "Denied", "Cancelled", "TimedOut"}
NoReq == [state |-> "None"]
Req == [state : {"Waiting"} \cup Settled, session : Sessions, op : Ops, gen : Nat]
Empty == [prep |-> 0]        \* no preparation, no pending request
Prepared == [req : Requests, prep : Nat \ {0}]
Idle == [pc |-> "idle"]

Init ==
  /\ reqs = [r \in Requests |-> NoReq]
  /\ gen = 0 /\ slot = Empty /\ counter = 0 /\ current = Empty
  /\ sessions = Sessions /\ enabled = "yes"
  /\ locks = [sessions |-> "free", lifecycle |-> "free"]
  /\ events = 0 /\ th = [t \in Threads |-> Idle]
  /\ uses = {}

\* Cancellation only touches a Waiting request (principal_cancel_pending).
SetState(ids, s) == [r \in Requests |-> IF r \in ids /\ reqs[r].state = "Waiting"
                                        THEN [reqs[r] EXCEPT !.state = s] ELSE reqs[r]]

\* clear_matching: only the preparation with that number.
Cleared(p) == IF slot.prep = p THEN Empty ELSE slot

Become(t, rec) == th' = [th EXCEPT ![t] = rec]
Take(l, t) == locks[l] = "free" /\ locks' = [locks EXCEPT ![l] = t]
ReleaseAll(t) == locks' = [l \in DOMAIN locks |-> IF locks[l] = t THEN "free" ELSE locks[l]]

-----------------------------------------------------------------------------
(* handle_create_intent, with managed_sessions held throughout.             *)

\* handle_principal: the profile is enabled and the capability is that of a
\* live session, whose list stays locked.
Admitted(s) ==
  /\ th.principal.pc = "idle" /\ enabled = "yes"
  /\ s \in sessions /\ Take("sessions", "principal")

\* Mutant: current_pending is not consulted.
StartCreateAnyway(s, op) ==
  /\ Admitted(s)
  /\ \E r \in Requests : reqs[r] = NoReq
  /\ Become("principal", [pc |-> "create", session |-> s, op |-> op, gen |-> gen])
  /\ UNCHANGED <<reqs, gen, slot, counter, current, sessions, enabled, events, uses>>

\* A pending request is a Conflict; the generation is read here, and the
\* request is made under it whatever was reloaded meanwhile.
StartCreate(s, op) ==
  /\ Admitted(s) /\ current = Empty
  /\ \E r \in Requests : reqs[r] = NoReq
  /\ Become("principal", [pc |-> "create", session |-> s, op |-> op, gen |-> gen])
  /\ UNCHANGED <<reqs, gen, slot, counter, current, sessions, enabled, events, uses>>

\* principal_create_pending_intent.
CreatePending ==
  LET p == th.principal IN
  /\ p.pc = "create"
  /\ \E r \in Requests :
       /\ reqs[r] = NoReq
       /\ reqs' = [reqs EXCEPT ![r] = [state |-> "Waiting", session |-> p.session,
                                       op |-> p.op, gen |-> p.gen]]
       /\ Become("principal", [pc |-> "install", req |-> r])
  /\ UNCHANGED <<gen, slot, counter, current, sessions, enabled, locks, events, uses>>

\* CeremonyPreparationSlot::install numbers the preparation.
Installed(r) == counter' = counter + 1 /\ slot' = [req |-> r, prep |-> counter + 1]

\* A preparation that is still installed refuses the new one.
Install ==
  LET r == th.principal.req IN
  /\ th.principal.pc = "install"
  /\ \/ /\ slot # Empty
        /\ reqs' = SetState({r}, "Cancelled")
        /\ ReleaseAll("principal") /\ Become("principal", Idle)
        /\ UNCHANGED <<slot, counter>>
     \/ /\ slot = Empty /\ Installed(r)
        /\ Become("principal", [pc |-> "audit", req |-> r, prep |-> counter + 1])
        /\ UNCHANGED <<reqs, locks>>
  /\ UNCHANGED <<gen, current, sessions, enabled, events, uses>>

\* Mutant: the preparation outlives a request that could not be recorded.
AuditCreateKeepingPreparation ==
  LET p == th.principal IN
  /\ p.pc = "audit"
  /\ \/ /\ reqs' = SetState({p.req}, "Cancelled")
        /\ ReleaseAll("principal") /\ Become("principal", Idle)
     \/ /\ Become("principal", [p EXCEPT !.pc = "publish"])
        /\ UNCHANGED <<reqs, locks>>
  /\ UNCHANGED <<gen, slot, counter, current, sessions, enabled, events, uses>>

\* The audit record is written, or its failure undoes both.
AuditCreate ==
  LET p == th.principal IN
  /\ p.pc = "audit"
  /\ \/ /\ reqs' = SetState({p.req}, "Cancelled")
        /\ slot' = Cleared(p.prep)
        /\ ReleaseAll("principal") /\ Become("principal", Idle)
     \/ /\ Become("principal", [p EXCEPT !.pc = "publish"])
        /\ UNCHANGED <<reqs, slot, locks>>
  /\ UNCHANGED <<gen, counter, current, sessions, enabled, events, uses>>

Publish ==
  LET p == th.principal IN
  /\ p.pc = "publish"
  /\ current' = [req |-> p.req, prep |-> p.prep]
  /\ ReleaseAll("principal") /\ Become("principal", Idle)
  /\ UNCHANGED <<reqs, gen, slot, counter, sessions, enabled, events, uses>>

-----------------------------------------------------------------------------
(* handle_cancel_intent: managed_sessions, then lifecycle_lock.             *)

StartCancel(r) ==
  /\ "cancel" \in Actors
  /\ reqs[r] # NoReq /\ Admitted(reqs[r].session)
  /\ Become("principal", [pc |-> "lifecycle", req |-> r])
  /\ UNCHANGED <<reqs, gen, slot, counter, current, sessions, enabled, events, uses>>

CancelLifecycle ==
  /\ th.principal.pc = "lifecycle"
  /\ Take("lifecycle", "principal")
  /\ Become("principal", [th.principal EXCEPT !.pc = "cancel"])
  /\ UNCHANGED <<reqs, gen, slot, counter, current, sessions, enabled, events, uses>>

CancelRequest ==
  /\ th.principal.pc = "cancel"
  /\ reqs' = SetState({th.principal.req}, "Cancelled")
  /\ Become("principal", [th.principal EXCEPT !.pc = "cancelClear"])
  /\ UNCHANGED <<gen, slot, counter, current, sessions, enabled, locks, events, uses>>

CancelClear ==
  LET mine == current # Empty /\ current.req = th.principal.req IN
  /\ th.principal.pc = "cancelClear"
  /\ slot' = IF mine THEN Cleared(current.prep) ELSE slot
  /\ current' = IF mine THEN Empty ELSE current
  /\ ReleaseAll("principal") /\ Become("principal", Idle)
  /\ UNCHANGED <<reqs, gen, counter, sessions, enabled, events, uses>>

-----------------------------------------------------------------------------
(* The worker: handle_ceremony_command.  bound is the request consumed.     *)

WorkerAt(pc) == Become("worker", [th.worker EXCEPT !.pc = pc])

\* The snapshot of the slot and the checks that need no waiting: the command
\* is malformed (clear_matching) or not the prepared one (clear_all), or the
\* preparation's generation is stale, or a prompt is shown.
StartCeremony ==
  /\ th.worker.pc = "idle" /\ slot # Empty
  /\ \E next \in {"clear", "clearAll", IF reqs[slot.req].gen = gen THEN "prompt" ELSE "clear"} :
       Become("worker", [pc |-> next, req |-> slot.req, prep |-> slot.prep])
  /\ UNCHANGED <<reqs, gen, slot, counter, current, sessions, enabled, locks, events, uses>>

\* A command that is no ceremony, or one without a preparation, is answered.
OtherCommand ==
  /\ "command" \in Actors /\ th.worker.pc = "idle"
  /\ Become("worker", [pc |-> "respond"])
  /\ UNCHANGED <<reqs, gen, slot, counter, current, sessions, enabled, locks, events, uses>>

\* The Waiting requests of the preparation's tuple.
Matching == {r \in Requests : reqs[r] = [reqs[th.worker.req] EXCEPT !.state = "Waiting"]}

\* The prompt is refused or times out: ceremony_deny_pending.
PromptRefused ==
  /\ th.worker.pc = "prompt"
  /\ reqs' = IF Cardinality(Matching) = 1 THEN SetState(Matching, "Denied") ELSE reqs
  /\ WorkerAt("clear")
  /\ UNCHANGED <<gen, slot, counter, current, sessions, enabled, locks, events, uses>>

\* An audit record that cannot be written ends the ceremony where it is.
AuditFails ==
  /\ th.worker.pc \in {"prompt", "use", "done"}
  /\ WorkerAt("respond")
  /\ UNCHANGED <<reqs, gen, slot, counter, current, sessions, enabled, locks, events, uses>>

\* Mutant: the approved request goes on waiting.
ResolveStillWaiting ==
  /\ th.worker.pc = "prompt"
  /\ IF Cardinality(Matching) = 1
     THEN \E r \in Matching : Become("worker", [pc |-> "use", req |-> th.worker.req,
                                                prep |-> th.worker.prep, bound |-> r])
     ELSE WorkerAt("clear")
  /\ UNCHANGED <<reqs, gen, slot, counter, current, sessions, enabled, locks, events, uses>>

\* The prompt is approved: ceremony_resolve_pending by tuple.
Resolve ==
  /\ th.worker.pc = "prompt"
  /\ IF Cardinality(Matching) = 1
     THEN \E r \in Matching :
            \/ /\ reqs' = SetState({r}, IF reqs[r].gen = gen THEN "Approved" ELSE "Cancelled")
               /\ IF reqs[r].gen = gen
                  THEN Become("worker", [pc |-> "use", req |-> th.worker.req,
                                         prep |-> th.worker.prep, bound |-> r])
                  ELSE WorkerAt("clear")
            \/ reqs' = SetState({r}, "TimedOut") /\ WorkerAt("clear")
     ELSE UNCHANGED reqs /\ WorkerAt("clear")
  /\ UNCHANGED <<gen, slot, counter, current, sessions, enabled, locks, events, uses>>

\* authorize_bound and consume_authorization fail, or the key is used.
UseKey ==
  /\ th.worker.pc = "use"
  /\ \/ WorkerAt("clear") /\ UNCHANGED uses
     \/ /\ uses' = uses \cup {[prepared |-> th.worker.req, consumed |-> th.worker.bound,
                              nth |-> Cardinality(uses)]}
        /\ WorkerAt("done")
  /\ UNCHANGED <<reqs, gen, slot, counter, current, sessions, enabled, locks, events>>

ClearPreparation ==
  /\ th.worker.pc \in {"clear", "clearAll", "done"}
  /\ slot' = IF th.worker.pc = "clearAll" THEN Empty ELSE Cleared(th.worker.prep)
  /\ WorkerAt("respond")
  /\ UNCHANGED <<reqs, gen, counter, current, sessions, enabled, locks, events, uses>>

\* on_response_sent
Respond ==
  /\ th.worker.pc = "respond" /\ events < MaxEvents
  /\ events' = events + 1
  /\ Become("worker", Idle)
  /\ UNCHANGED <<reqs, gen, slot, counter, current, sessions, enabled, locks, uses>>

-----------------------------------------------------------------------------
(* The runtime loop: handle_endpoint_event, cleanup_expired_pending.        *)

\* Mutant: an event is handled that nobody sent.
DrainEventUnchecked ==
  /\ th.main.pc = "idle"
  /\ events' = events - 1
  /\ Become("main", [pc |-> "event"])
  /\ UNCHANGED <<reqs, gen, slot, counter, current, sessions, enabled, locks, uses>>

DrainEvent ==
  /\ th.main.pc = "idle" /\ events > 0
  /\ events' = events - 1
  /\ Become("main", [pc |-> "event"])
  /\ UNCHANGED <<reqs, gen, slot, counter, current, sessions, enabled, locks, uses>>

\* lifecycle_lock, then a snapshot of current_pending.
EventSnapshot ==
  /\ th.main.pc = "event" /\ locks.lifecycle = "free"
  /\ IF current = Empty
     THEN Become("main", Idle) /\ UNCHANGED locks
     ELSE /\ Take("lifecycle", "main")
          /\ Become("main", [pc |-> "hasSession", req |-> current.req, prep |-> current.prep])
  /\ UNCHANGED <<reqs, gen, slot, counter, current, sessions, enabled, events, uses>>

\* has_session: managed_sessions, under lifecycle_lock.
EventHasSession ==
  /\ th.main.pc = "hasSession" /\ locks.sessions = "free"
  /\ IF reqs[th.main.req].session \in sessions
     THEN Become("main", [th.main EXCEPT !.pc = "status"]) /\ UNCHANGED locks
     ELSE Become("main", Idle) /\ ReleaseAll("main")
  /\ UNCHANGED <<reqs, gen, slot, counter, current, sessions, enabled, events, uses>>

\* Mutant: a denied request is left to its deadline.
EventStatusDeniedKept ==
  /\ th.main.pc = "status"
  /\ IF reqs[th.main.req].state \in {"Waiting", "Denied"}
     THEN Become("main", Idle) /\ ReleaseAll("main")
     ELSE Become("main", [th.main EXCEPT !.pc = "clear"]) /\ UNCHANGED locks
  /\ UNCHANGED <<reqs, gen, slot, counter, current, sessions, enabled, events, uses>>

EventStatus ==
  /\ th.main.pc = "status"
  /\ IF reqs[th.main.req].state = "Waiting"
     THEN Become("main", Idle) /\ ReleaseAll("main")
     ELSE Become("main", [th.main EXCEPT !.pc = "clear"]) /\ UNCHANGED locks
  /\ UNCHANGED <<reqs, gen, slot, counter, current, sessions, enabled, events, uses>>

EventClearSlot ==
  /\ th.main.pc = "clear"
  /\ slot' = Cleared(th.main.prep)
  /\ Become("main", [th.main EXCEPT !.pc = "unset"])
  /\ UNCHANGED <<reqs, gen, counter, current, sessions, enabled, locks, events, uses>>

\* current_pending is emptied whatever it holds by now.
EventUnset ==
  /\ th.main.pc = "unset"
  /\ current' = Empty
  /\ Become("main", Idle) /\ ReleaseAll("main")
  /\ UNCHANGED <<reqs, gen, slot, counter, sessions, enabled, events, uses>>

\* The policy runtime's sweep; the request being created is not that old.
Sweep(r) ==
  /\ th.main.pc = "idle"
  /\ reqs[r].state = "Waiting"
  /\ th.principal.pc \in {"install", "audit", "publish"} => th.principal.req # r
  /\ reqs' = SetState({r}, "TimedOut")
  /\ Become("main", [pc |-> "expired", req |-> r])
  /\ UNCHANGED <<gen, slot, counter, current, sessions, enabled, locks, events, uses>>

SweepClear ==
  LET mine == current # Empty /\ current.req = th.main.req IN
  /\ th.main.pc = "expired"
  /\ slot' = IF mine THEN Cleared(current.prep) ELSE slot
  /\ current' = IF mine THEN Empty ELSE current
  /\ Become("main", Idle)
  /\ UNCHANGED <<reqs, gen, counter, sessions, enabled, locks, events, uses>>

-----------------------------------------------------------------------------
(* A session ends: reap_expired_sessions on main, handle_revoke_session on  *)
(* admin.  The session goes first, its pending request follows.             *)

EndSession(t, s) ==
  /\ (IF t = "main" THEN "reap" ELSE "revoke") \in Actors
  /\ th[t].pc = "idle"
  /\ s \in sessions /\ locks.sessions = "free"
  /\ sessions' = sessions \ {s}
  /\ Become(t, [pc |-> "takePending", session |-> s])
  /\ UNCHANGED <<reqs, gen, slot, counter, current, enabled, locks, events, uses>>

\* Mutant: the pending request of the session is forgotten, not taken.
TakePendingForgetting(t) ==
  /\ th[t].pc = "takePending"
  /\ current' = IF current # Empty /\ reqs[current.req].session = th[t].session
                THEN Empty ELSE current
  /\ Become(t, [pc |-> "browser"])
  /\ UNCHANGED <<reqs, gen, slot, counter, sessions, enabled, locks, events, uses>>

TakePending(t) ==
  /\ th[t].pc = "takePending"
  /\ IF current # Empty /\ reqs[current.req].session = th[t].session
     THEN current' = Empty /\ Become(t, [pc |-> "drop", req |-> current.req, prep |-> current.prep])
     ELSE UNCHANGED current /\ Become(t, [pc |-> "browser"])
  /\ UNCHANGED <<reqs, gen, slot, counter, sessions, enabled, locks, events, uses>>

DropPending(t) ==
  /\ th[t].pc = "drop"
  /\ reqs' = SetState({th[t].req}, "Cancelled")
  /\ Become(t, [th[t] EXCEPT !.pc = "dropSlot"])
  /\ UNCHANGED <<gen, slot, counter, current, sessions, enabled, locks, events, uses>>

DropPreparation(t) ==
  /\ th[t].pc = "dropSlot"
  /\ slot' = Cleared(th[t].prep)
  /\ Become(t, [pc |-> "browser"])
  /\ UNCHANGED <<reqs, gen, counter, current, sessions, enabled, locks, events, uses>>

\* cleanup_browser_for_session waits for lifecycle_lock and lets it go.
CleanupBrowser(t) ==
  /\ th[t].pc = "browser" /\ locks.lifecycle = "free"
  /\ Become(t, Idle)
  /\ UNCHANGED <<reqs, gen, slot, counter, current, sessions, enabled, locks, events, uses>>

-----------------------------------------------------------------------------
(* handle_reload_policy and handle_disableprofile.                          *)

\* PolicyRuntime::reload as the requests see it.
Reload ==
  /\ "reload" \in Actors /\ th.admin.pc = "idle" /\ gen < MaxGen
  /\ gen' = gen + 1
  /\ reqs' = SetState(Requests, "Cancelled")
  /\ Become("admin", [pc |-> "dropCurrent", then |-> "idle"])
  /\ UNCHANGED <<slot, counter, current, sessions, enabled, locks, events, uses>>

Disable ==
  /\ "disable" \in Actors /\ th.admin.pc = "idle" /\ enabled = "yes"
  /\ enabled' = "no"
  /\ Become("admin", [pc |-> "dropCurrent", then |-> "drain"])
  /\ UNCHANGED <<reqs, gen, slot, counter, current, sessions, locks, events, uses>>

\* Under current_pending: cancel, clear, empty.
DropCurrent ==
  /\ th.admin.pc = "dropCurrent"
  /\ IF current # Empty
     THEN reqs' = SetState({current.req}, "Cancelled") /\ slot' = Cleared(current.prep)
     ELSE UNCHANGED <<reqs, slot>>
  /\ current' = Empty
  /\ Become("admin", [pc |-> th.admin.then])
  /\ UNCHANGED <<gen, counter, sessions, enabled, locks, events, uses>>

DrainSessions ==
  /\ th.admin.pc = "drain" /\ locks.sessions = "free"
  /\ sessions' = {}
  /\ Become("admin", Idle)
  /\ UNCHANGED <<reqs, gen, slot, counter, current, enabled, locks, events, uses>>

-----------------------------------------------------------------------------
PrincipalStep == \/ CreatePending \/ Install \/ AuditCreate \/ Publish
                 \/ CancelLifecycle \/ CancelRequest \/ CancelClear
WorkerStep == \/ PromptRefused \/ AuditFails \/ Resolve \/ UseKey
              \/ ClearPreparation \/ Respond
EventStep == EventSnapshot \/ EventHasSession \/ EventStatus \/ EventClearSlot \/ EventUnset
EndSessionStep(t) == TakePending(t) \/ DropPending(t) \/ DropPreparation(t) \/ CleanupBrowser(t)
MainStep == DrainEvent \/ EventStep \/ SweepClear \/ EndSessionStep("main")
AdminStep == DropCurrent \/ DrainSessions \/ EndSessionStep("admin")

Next ==
  \/ \E s \in Sessions, op \in Ops : StartCreate(s, op)
  \/ \E r \in Requests : StartCancel(r) \/ Sweep(r)
  \/ PrincipalStep
  \/ StartCeremony \/ OtherCommand \/ WorkerStep
  \/ MainStep
  \/ \E t \in {"main", "admin"}, s \in Sessions : EndSession(t, s)
  \/ Reload \/ Disable \/ AdminStep

Spec == Init /\ [][Next]_vars

\* Runnable threads run, prompts return, and deadlines pass.
Fairness ==
  /\ WF_vars(PrincipalStep) /\ WF_vars(WorkerStep) /\ WF_vars(AdminStep)
  /\ SF_vars(MainStep)
  /\ \A r \in Requests : SF_vars(Sweep(r))

FairSpec == Spec /\ Fairness

-----------------------------------------------------------------------------
(* Properties *)

TypeOK ==
  /\ reqs \in [Requests -> Req \cup {NoReq}]
  /\ {gen, counter, events} \subseteq Nat
  /\ slot \in Prepared \cup {Empty} /\ current \in Prepared \cup {Empty}
  /\ sessions \subseteq Sessions /\ enabled \in {"yes", "no"}
  /\ locks \in [{"sessions", "lifecycle"} -> Threads \cup {"free"}]
  /\ DOMAIN th = Threads
  /\ uses \subseteq [prepared : Requests, consumed : Requests, nth : Nat]

\* A profile has at most one request its sessions wait for: the check of
\* current_pending at the start of a creation and its update at the end are
\* far apart, and every other thread empties it ("Enforce one unbound and one
\* active intent per endpoint", docs/plans/agent-passkey-implementation.md).
OneUnboundIntent ==
  Cardinality({r \in Requests : reqs[r].state = "Waiting" /\ reqs[r].session \in sessions}) <= 1

\* A preparation is never stranded: as long as it occupies the slot,
\* current_pending names it or a thread is on its way to publish or clear it.
PreparationOwned ==
  slot # Empty =>
    \/ current.prep = slot.prep
    \/ \E t \in Threads : /\ th[t].pc \in {"audit", "publish", "unset", "drop", "dropSlot",
                                           "prompt", "use", "done", "clear"}
                          /\ th[t].prep = slot.prep

\* A session that has ended leaves no request behind that a prompt could
\* still approve.
EndedSessionsHoldNothing ==
  \A r \in Requests :
    (reqs[r].state = "Waiting" /\ reqs[r].session \notin sessions)
      => \E t \in {"main", "admin"} :
           \/ th[t].pc = "takePending" /\ th[t].session = reqs[r].session
           \/ th[t].pc = "drop" /\ th[t].req = r

\* One request, one use of the key, although its preparation survives an
\* audit failure and the next command finds it again.
OneUsePerRequest == \A u, v \in uses : u.consumed = v.consumed => u = v

\* The profile becomes free again without the principal's help: a request
\* that is published while it waits does not stay published for ever (unless
\* the profile is disabled meanwhile: it then admits nobody).
WaitingReleased ==
  \A r \in Requests :
    (current # Empty /\ current.req = r /\ reqs[r].state = "Waiting")
      ~> (current = Empty \/ current.req # r \/ enabled = "no")

\* "Lock ordering is documented and tested"
\* (docs/plans/agent-passkey-implementation.md): no two threads wait for each
\* other's lock.
NoCircularWait ==
  ~ /\ locks.sessions = "principal" /\ th.principal.pc = "lifecycle"
    /\ locks.lifecycle = "main" /\ th.main.pc = "hasSession"

\* The slot of an endpoint, whichever threads meet: one unbound intent, a
\* preparation that belongs to somebody, nothing left of a session that ended.
SlotOwned == OneUnboundIntent /\ PreparationOwned /\ EndedSessionsHoldNothing
=============================================================================
