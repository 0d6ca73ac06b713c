------------------------- MODULE CeremonySlotProofs -------------------------
(***************************************************************************)
(* Proofs about CeremonySlot, for every set of requests and sessions and   *)
(* for all the threads: a request pays for one use of the key, because a   *)
(* settled request never changes again and a use has an approved one       *)
(* behind it; and the slot of a profile without administrators is owned.   *)
(***************************************************************************)
EXTENDS CeremonySlot, FiniteSetTheorems, TLAPS

\* The two threads whose records carry a request from one step to another:
\* handle_create_intent or handle_cancel_intent, and the CTAP worker.
Principal ==
  [pc : {"idle"}]
    \cup [pc : {"create"}, session : Sessions, op : Ops, gen : Nat]
    \cup [pc : {"install", "lifecycle", "cancel", "cancelClear"}, req : Requests]
    \cup [pc : {"audit", "publish"}, req : Requests, prep : Nat \ {0}]

Worker ==
  [pc : {"idle", "respond"}]
    \cup [pc : {"prompt", "clear", "clearAll", "respond"}, req : Requests, prep : Nat \ {0}]
    \cup [pc : {"use", "done", "clear", "respond"}, req : Requests, prep : Nat \ {0},
          bound : Requests]

Shapes == th["principal"] \in Principal /\ th["worker"] \in Worker

\* What was paid for stays approved, and what the worker is about to use is
\* approved and has paid for nothing yet.
Consumed ==
  /\ IsFiniteSet(uses)
  /\ \A u \in uses : reqs[u.consumed].state = "Approved"
  /\ th["worker"].pc = "use" =>
       /\ reqs[th["worker"].bound].state = "Approved"
       /\ \A u \in uses : u.consumed # th["worker"].bound

IInv == TypeOK /\ Shapes /\ Consumed /\ OneUsePerRequest

\* A request that has been approved, denied, cancelled or timed out keeps its
\* state and its tuple: whatever thread comes late to it, and there are four
\* that try, finds nothing to change (principal_cancel_pending, the sweep and
\* ceremony_resolve_pending all ask for a Waiting one).
SettledIsFinal == \A r \in Requests : reqs[r].state \in Settled => reqs'[r] = reqs[r]

-----------------------------------------------------------------------------
(* A profile without administrators: what keeps its slot in order.          *)

\* Nobody revokes a session by hand, reloads the policy or disables the
\* profile.  The principal, the worker and the runtime loop are all there,
\* with cancellations, other commands, deadlines and sessions that die.
NoAdministrators == Actors \cap {"revoke", "reload", "disable"} = {}

P == th["principal"]
M == th["main"]

Creating == {"install", "audit", "publish"}               \* handle_create_intent
Handling == {"hasSession", "status", "clear", "unset"}    \* handle_endpoint_event

Loop ==
  [pc : {"idle", "event", "browser"}]
    \cup [pc : Handling \cup {"drop", "dropSlot"}, req : Requests, prep : Nat \ {0}]
    \cup [pc : {"expired"}, req : Requests]
    \cup [pc : {"takePending"}, session : Sessions]

\* Which thread holds managed_sessions and lifecycle_lock at which step.
LocksKept ==
  /\ P.pc # "idle" => locks["sessions"] = "principal"
  /\ P.pc \in {"cancel", "cancelClear"} => locks["lifecycle"] = "principal"
  /\ M.pc \in Handling => locks["lifecycle"] = "main"

\* Nothing is published while a request is made, so that what an endpoint
\* event took a snapshot of is still there when current_pending is emptied;
\* it was settled when the event asked for its state.
SnapshotCurrent ==
  /\ P.pc \in Creating \cup {"create"} => current = Empty
  /\ M.pc \in Handling => current = [req |-> M.req, prep |-> M.prep]
  /\ M.pc \in {"clear", "unset"} => reqs[M.req].state \in Settled
  /\ M.pc = "unset" => slot.prep # M.prep

\* Whatever is published, made or dropped is a request of the policy runtime.
Named ==
  /\ current # Empty => reqs[current.req] # NoReq
  /\ P.pc \notin {"idle", "create"} => reqs[P.req] # NoReq
  /\ M.pc = "drop" => reqs[M.req] # NoReq

\* managed_sessions is kept for as long as a request of the session is made;
\* what is dropped belongs to a session that has ended, and the threads that
\* empty current_pending for a request have settled it before.
SessionsKept ==
  /\ P.pc = "create" => P.session \in sessions
  /\ P.pc \in Creating => reqs[P.req].session \in sessions
  /\ P.pc = "cancelClear" => reqs[P.req].state \in Settled
  /\ M.pc = "expired" => reqs[M.req].state \in Settled
  /\ M.pc = "takePending" => M.session \notin sessions
  /\ M.pc = "drop" => reqs[M.req].session \notin sessions

\* A Waiting request is being made, is published, or is about to be dropped.
WaitingNamed ==
  \A r \in Requests : reqs[r].state = "Waiting" =>
    \/ P.pc \in Creating /\ P.req = r
    \/ current # Empty /\ current.req = r
    \/ M.pc = "drop" /\ M.req = r

\* So is the preparation in the slot; the worker, which may leave it behind
\* after an audit failure, is not needed to account for it.
SlotNamed ==
  slot # Empty =>
    \/ P.pc \in {"audit", "publish"} /\ P.prep = slot.prep
    \/ current.prep = slot.prep
    \/ M.pc \in {"drop", "dropSlot"} /\ M.prep = slot.prep

\* EndedSessionsHoldNothing, by the runtime loop: no other thread ends sessions.
EndedTaken ==
  \A r \in Requests :
    (reqs[r].state = "Waiting" /\ reqs[r].session \notin sessions)
      => \/ M.pc = "takePending" /\ M.session = reqs[r].session
         \/ M.pc = "drop" /\ M.req = r

SlotInv ==
  /\ th["admin"] = Idle /\ M \in Loop
  /\ LocksKept /\ SnapshotCurrent /\ Named /\ SessionsKept
  /\ WaitingNamed /\ SlotNamed /\ EndedTaken

-----------------------------------------------------------------------------
(* The operators of the model.                                              *)

\* A thread moves and no other does.
LEMMA BecomeDoes ==
  ASSUME DOMAIN th = Threads, NEW t \in Threads, NEW rec, Become(t, rec)
  PROVE  /\ DOMAIN th' = Threads /\ th'[t] = rec
         /\ \A u \in Threads : u # t => th'[u] = th[u]
BY DEF Become

\* The sweep, a cancellation or an answer gives Waiting requests a final state.
LEMMA SetStateDoes ==
  ASSUME TypeOK, NEW ids, NEW s \in Settled, reqs' = SetState(ids, s)
  PROVE  reqs' \in [Requests -> Req \cup {NoReq}] /\ SettledIsFinal
<1>1. \A r \in Requests : reqs[r].state = "Waiting" => [reqs[r] EXCEPT !.state = s] \in Req
  <2> SUFFICES ASSUME NEW r \in Requests, reqs[r].state = "Waiting"
               PROVE  [reqs[r] EXCEPT !.state = s] \in Req
    OBVIOUS
  <2>1. reqs[r] \in Req
    BY DEF TypeOK, NoReq
  <2> QED BY <2>1 DEF Req
<1>2. reqs' \in [Requests -> Req \cup {NoReq}]
  BY <1>1 DEF SetState, TypeOK
<1>3. SettledIsFinal
  BY DEF SettledIsFinal, SetState, Settled
<1> QED BY <1>2, <1>3

\* clear_matching leaves the preparation or nothing.
LEMMA ClearedDoes ==
  ASSUME TypeOK, NEW p
  PROVE  Cleared(p) \in Prepared \cup {Empty}
BY DEF TypeOK, Cleared

\* The two locks are taken and given back by threads.
LEMMA LocksMove ==
  ASSUME TypeOK, NEW t \in Threads
  PROVE  /\ \A l \in {"sessions", "lifecycle"} :
              Take(l, t) => locks' \in [{"sessions", "lifecycle"} -> Threads \cup {"free"}]
         /\ ReleaseAll(t) => locks' \in [{"sessions", "lifecycle"} -> Threads \cup {"free"}]
BY DEF TypeOK, Take, ReleaseAll

\* What the worker carries survives a change of its place in
\* handle_ceremony_command.
LEMMA WorkerMoves ==
  ASSUME NEW w \in Worker
  PROVE  /\ [w EXCEPT !.pc = "respond"] \in Worker /\ [w EXCEPT !.pc = "respond"].pc = "respond"
         /\ w.pc \in {"prompt", "use"} =>
              [w EXCEPT !.pc = "clear"] \in Worker /\ [w EXCEPT !.pc = "clear"].pc = "clear"
         /\ w.pc = "use" =>
              [w EXCEPT !.pc = "done"] \in Worker /\ [w EXCEPT !.pc = "done"].pc = "done"
<1>1. CASE w \in [pc : {"idle", "respond"}]
  BY <1>1 DEF Worker
<1>2. CASE w \in [pc : {"prompt", "clear", "clearAll", "respond"}, req : Requests, prep : Nat \ {0}]
  BY <1>2 DEF Worker
<1>3. CASE w \in [pc : {"use", "done", "clear", "respond"}, req : Requests, prep : Nat \ {0},
                  bound : Requests]
  BY <1>3 DEF Worker
<1> QED BY <1>1, <1>2, <1>3 DEF Worker

\* What the worker carries where it needs it.
LEMMA WorkerCarries ==
  ASSUME NEW w \in Worker
  PROVE  /\ w.pc \in {"prompt", "use"} => w.req \in Requests /\ w.prep \in Nat \ {0}
         /\ w.pc = "use" => w.bound \in Requests
BY DEF Worker

\* The same for the principal's thread.
LEMMA PrincipalMoves ==
  ASSUME NEW p \in Principal
  PROVE  /\ p.pc = "create" => p.session \in Sessions /\ p.op \in Ops /\ p.gen \in Nat
         /\ p.pc \in {"install", "audit", "publish"} => p.req \in Requests
         /\ p.pc \in {"audit", "publish"} => p.prep \in Nat \ {0}
         /\ p.pc = "audit" => [p EXCEPT !.pc = "publish"] \in Principal
         /\ p.pc = "lifecycle" => [p EXCEPT !.pc = "cancel"] \in Principal
         /\ p.pc = "cancel" => [p EXCEPT !.pc = "cancelClear"] \in Principal
BY DEF Principal

-----------------------------------------------------------------------------
(* What a step leaves of the invariant.                                     *)

\* A step that adds no use, and does not bring the worker to one.
LEMMA Frame ==
  ASSUME IInv, TypeOK', Shapes', SettledIsFinal, UNCHANGED uses,
         th'["worker"].pc = "use" => th'["worker"] = th["worker"]
  PROVE  IInv'
<1>1. \A u \in uses : u.consumed \in Requests
  BY DEF IInv, TypeOK
<1>2. th["worker"].pc = "use" => th["worker"].bound \in Requests
  BY WorkerCarries DEF IInv, Shapes
<1>3. Consumed'
  BY <1>1, <1>2 DEF IInv, Consumed, SettledIsFinal, Settled
<1> QED BY <1>3 DEF IInv, OneUsePerRequest

\* A thread moves, not to a use of the key, and the rest stays well typed.
LEMMA ThreadMoves ==
  ASSUME IInv, NEW t \in Threads, NEW rec, Become(t, rec),
         t = "principal" => rec \in Principal,
         t = "worker" => rec \in Worker /\ rec.pc # "use",
         reqs' \in [Requests -> Req \cup {NoReq}], SettledIsFinal,
         gen' \in Nat, counter' \in Nat, events' \in Nat,
         slot' \in Prepared \cup {Empty}, current' \in Prepared \cup {Empty},
         sessions' \subseteq Sessions, enabled' \in {"yes", "no"},
         locks' \in [{"sessions", "lifecycle"} -> Threads \cup {"free"}],
         UNCHANGED uses
  PROVE  IInv'
<1>1. "principal" \in Threads /\ "worker" \in Threads
  BY DEF Threads
<1>2. DOMAIN th' = Threads /\ th'[t] = rec /\ \A u \in Threads : u # t => th'[u] = th[u]
  BY BecomeDoes DEF IInv, TypeOK
<1>3. /\ TypeOK' /\ Shapes'
      /\ th'["worker"].pc = "use" => th'["worker"] = th["worker"]
  BY <1>1, <1>2 DEF IInv, TypeOK, Shapes
<1> QED BY <1>3, Frame

-----------------------------------------------------------------------------
(* The requests.                                                            *)

\* Every step leaves requests behind, and the settled ones as they were.
LEMMA RequestsStep ==
  ASSUME TypeOK, Shapes, Next
  PROVE  reqs' \in [Requests -> Req \cup {NoReq}] /\ SettledIsFinal
<1> DEFINE Goal == reqs' \in [Requests -> Req \cup {NoReq}] /\ SettledIsFinal
<1>0. ASSUME UNCHANGED reqs PROVE Goal
  BY <1>0 DEF TypeOK, SettledIsFinal
<1>1. ASSUME NEW ids, NEW s \in Settled, reqs' = SetState(ids, s) PROVE Goal
  BY <1>1, SetStateDoes
<1> SUFFICES Goal
  OBVIOUS
<1> HIDE DEF Goal
<1>2. CASE \E s \in Sessions, op \in Ops : StartCreate(s, op)
  BY <1>0, <1>2 DEF StartCreate
<1>3. ASSUME NEW r \in Requests, StartCancel(r) \/ Sweep(r) PROVE Goal
  BY <1>0, <1>1, <1>3 DEF StartCancel, Sweep, Settled
<1>4. CASE PrincipalStep
  <2>1. CASE CreatePending
    <3>1. PICK r \in Requests :
            /\ reqs[r] = NoReq
            /\ reqs' = [reqs EXCEPT ![r] = [state |-> "Waiting", session |-> th["principal"].session,
                                            op |-> th["principal"].op,
                                            gen |-> th["principal"].gen]]
      BY <2>1 DEF CreatePending
    <3>2. th["principal"].session \in Sessions /\ th["principal"].op \in Ops
          /\ th["principal"].gen \in Nat
      BY <2>1, PrincipalMoves DEF CreatePending, Shapes, TypeOK
    <3> QED BY <3>1, <3>2 DEF Goal, TypeOK, Req, NoReq, SettledIsFinal, Settled
  <2>2. CASE Install
    BY <1>0, <1>1, <2>2 DEF Install, Installed, Settled
  <2>3. CASE AuditCreate
    BY <1>0, <1>1, <2>3 DEF AuditCreate, Settled
  <2>4. CASE Publish \/ CancelLifecycle \/ CancelRequest \/ CancelClear
    BY <1>0, <1>1, <2>4 DEF Publish, CancelLifecycle, CancelRequest, CancelClear, Settled
  <2> QED BY <1>4, <2>1, <2>2, <2>3, <2>4 DEF PrincipalStep
<1>5. CASE StartCeremony \/ OtherCommand
  BY <1>0, <1>5 DEF StartCeremony, OtherCommand
<1>6. CASE WorkerStep
  <2>1. CASE PromptRefused
    BY <1>0, <1>1, <2>1 DEF PromptRefused, Settled
  <2>2. CASE Resolve
    BY <1>0, <1>1, <2>2 DEF Resolve, Settled
  <2>3. CASE AuditFails \/ UseKey \/ ClearPreparation \/ Respond
    BY <1>0, <2>3 DEF AuditFails, UseKey, ClearPreparation, Respond
  <2> QED BY <1>6, <2>1, <2>2, <2>3 DEF WorkerStep
<1>7. ASSUME NEW t, EndSessionStep(t) PROVE Goal
  BY <1>0, <1>1, <1>7
     DEF EndSessionStep, TakePending, DropPending, DropPreparation, CleanupBrowser, Settled
<1>8. CASE MainStep
  <2>1. CASE DrainEvent \/ EventStep \/ SweepClear
    BY <1>0, <2>1 DEF DrainEvent, EventStep, EventSnapshot, EventHasSession, EventStatus,
                      EventClearSlot, EventUnset, SweepClear
  <2> QED BY <1>7, <1>8, <2>1 DEF MainStep
<1>9. ASSUME NEW t, NEW s, EndSession(t, s) PROVE Goal
  BY <1>0, <1>9 DEF EndSession
<1>10. CASE Reload \/ Disable
  BY <1>0, <1>1, <1>10 DEF Reload, Disable, Settled
<1>11. CASE AdminStep
  <2>1. CASE DropCurrent \/ DrainSessions
    BY <1>0, <1>1, <2>1 DEF DropCurrent, DrainSessions, Settled
  <2> QED BY <1>7, <1>11, <2>1 DEF AdminStep
<1> QED BY <1>2, <1>3, <1>4, <1>5, <1>6, <1>8, <1>9, <1>10, <1>11 DEF Next

-----------------------------------------------------------------------------
(* One lemma for each group of actions: the invariant is inductive.         *)

\* What ThreadMoves needs to know of a step, besides the thread that moves.
Typed ==
  /\ reqs' \in [Requests -> Req \cup {NoReq}] /\ SettledIsFinal
  /\ gen' \in Nat /\ counter' \in Nat /\ events' \in Nat
  /\ slot' \in Prepared \cup {Empty} /\ current' \in Prepared \cup {Empty}
  /\ sessions' \subseteq Sessions /\ enabled' \in {"yes", "no"}
  /\ locks' \in [{"sessions", "lifecycle"} -> Threads \cup {"free"}]
  /\ UNCHANGED uses

\* The principal's thread: handle_create_intent and handle_cancel_intent.
LEMMA PrincipalKeeps ==
  ASSUME IInv, Next,
         \/ \E s \in Sessions, op \in Ops : StartCreate(s, op)
         \/ \E r \in Requests : StartCancel(r)
         \/ PrincipalStep
  PROVE  IInv'
<1>1. TypeOK /\ Shapes /\ "principal" \in Threads
  BY DEF IInv, Threads
<1>2. reqs' \in [Requests -> Req \cup {NoReq}] /\ SettledIsFinal
  BY <1>1, RequestsStep
<1>3. /\ gen \in Nat /\ counter \in Nat /\ events \in Nat
      /\ slot \in Prepared \cup {Empty} /\ current \in Prepared \cup {Empty}
      /\ sessions \subseteq Sessions /\ enabled \in {"yes", "no"}
      /\ locks \in [{"sessions", "lifecycle"} -> Threads \cup {"free"}]
  BY <1>1 DEF TypeOK
<1>4. ASSUME NEW rec \in Principal, Become("principal", rec), Typed PROVE IInv'
  BY <1>1, <1>4, ThreadMoves DEF Typed
<1> DEFINE p == th["principal"]
<1>5. /\ Take("sessions", "principal") \/ Take("lifecycle", "principal") \/ ReleaseAll("principal")
           => locks' \in [{"sessions", "lifecycle"} -> Threads \cup {"free"}]
      /\ \A q : Cleared(q) \in Prepared \cup {Empty}
  BY <1>1, LocksMove, ClearedDoes
<1>6. Idle \in Principal /\ p \in Principal
  BY <1>1 DEF Idle, Principal, Shapes
<1>7. ASSUME NEW s \in Sessions, NEW op \in Ops, StartCreate(s, op) PROVE IInv'
  <2>1. [pc |-> "create", session |-> s, op |-> op, gen |-> gen] \in Principal
    BY <1>3 DEF Principal
  <2>2. Become("principal", [pc |-> "create", session |-> s, op |-> op, gen |-> gen]) /\ Typed
    BY <1>2, <1>3, <1>5, <1>7 DEF StartCreate, Admitted, Typed
  <2> QED BY <1>4, <2>1, <2>2
<1>8. ASSUME NEW r \in Requests, StartCancel(r) PROVE IInv'
  <2>1. [pc |-> "lifecycle", req |-> r] \in Principal
    BY DEF Principal
  <2>2. Become("principal", [pc |-> "lifecycle", req |-> r]) /\ Typed
    BY <1>2, <1>3, <1>5, <1>8 DEF StartCancel, Admitted, Typed
  <2> QED BY <1>4, <2>1, <2>2
<1>9. CASE CreatePending
  <2>1. PICK r \in Requests : Become("principal", [pc |-> "install", req |-> r])
    BY <1>9 DEF CreatePending
  <2>2. [pc |-> "install", req |-> r] \in Principal
    BY DEF Principal
  <2>3. Typed
    BY <1>2, <1>3, <1>9 DEF CreatePending, Typed
  <2> QED BY <1>4, <2>1, <2>2, <2>3
<1>10. CASE Install
  <2>1. p.req \in Requests /\ counter + 1 \in Nat \ {0}
    <3>1. p.pc = "install"
      BY <1>10 DEF Install, Installed
    <3>2. p.req \in Requests
      BY <1>6, <3>1, PrincipalMoves
    <3> QED BY <1>3, <3>2
  <2>2. CASE slot # Empty
    <3>1. Become("principal", Idle) /\ Typed
      BY <1>2, <1>3, <1>5, <1>10, <2>2 DEF Install, Installed, Typed
    <3> QED BY <1>4, <1>6, <3>1
  <2>3. CASE slot = Empty
    <3> DEFINE rec == [pc |-> "audit", req |-> p.req, prep |-> counter + 1]
    <3>1. rec \in Principal /\ [req |-> p.req, prep |-> counter + 1] \in Prepared
      BY <2>1 DEF Principal, Prepared
    <3>2. Become("principal", rec) /\ Typed
      BY <1>2, <1>3, <1>10, <2>1, <2>3, <3>1 DEF Install, Installed, Typed
    <3> QED BY <1>4, <3>1, <3>2
  <2> QED BY <2>2, <2>3
<1>11. CASE AuditCreate
  <2>1. CASE Become("principal", Idle) /\ slot' = Cleared(p.prep) /\ ReleaseAll("principal")
    <3>1. Typed
      BY <1>2, <1>3, <1>5, <1>11, <2>1 DEF AuditCreate, Typed
    <3> QED BY <1>4, <1>6, <2>1, <3>1
  <2>2. CASE Become("principal", [p EXCEPT !.pc = "publish"]) /\ UNCHANGED <<slot, locks>>
    <3>1. [p EXCEPT !.pc = "publish"] \in Principal
      BY <1>6, <1>11, PrincipalMoves DEF AuditCreate
    <3>2. Typed
      BY <1>2, <1>3, <1>11, <2>2 DEF AuditCreate, Typed
    <3> QED BY <1>4, <2>2, <3>1, <3>2
  <2> QED BY <1>11, <2>1, <2>2 DEF AuditCreate
<1>12. CASE Publish
  <2>1. [req |-> p.req, prep |-> p.prep] \in Prepared
    BY <1>6, <1>12, PrincipalMoves DEF Publish, Prepared
  <2>2. Become("principal", Idle) /\ Typed
    BY <1>2, <1>3, <1>5, <1>12, <2>1 DEF Publish, Typed
  <2> QED BY <1>4, <1>6, <2>2
<1>13. CASE CancelLifecycle \/ CancelRequest
  <2>1. CASE CancelLifecycle
    <3>1. [p EXCEPT !.pc = "cancel"] \in Principal
      BY <1>6, <2>1, PrincipalMoves DEF CancelLifecycle
    <3>2. Become("principal", [p EXCEPT !.pc = "cancel"]) /\ Typed
      BY <1>2, <1>3, <1>5, <2>1 DEF CancelLifecycle, Typed
    <3> QED BY <1>4, <3>1, <3>2
  <2>2. CASE CancelRequest
    <3>1. [p EXCEPT !.pc = "cancelClear"] \in Principal
      BY <1>6, <2>2, PrincipalMoves DEF CancelRequest
    <3>2. Become("principal", [p EXCEPT !.pc = "cancelClear"]) /\ Typed
      BY <1>2, <1>3, <2>2 DEF CancelRequest, Typed
    <3> QED BY <1>4, <3>1, <3>2
  <2> QED BY <1>13, <2>1, <2>2
<1>14. CASE CancelClear
  <2>1. Become("principal", Idle) /\ Typed
    BY <1>2, <1>3, <1>5, <1>14 DEF CancelClear, Typed
  <2> QED BY <1>4, <1>6, <2>1
<1> QED BY <1>7, <1>8, <1>9, <1>10, <1>11, <1>12, <1>13, <1>14 DEF PrincipalStep

\* The worker short of using the key: handle_ceremony_command.
LEMMA WorkerKeeps ==
  ASSUME IInv, Next,
         \/ StartCeremony \/ OtherCommand \/ PromptRefused \/ AuditFails
         \/ ClearPreparation \/ Respond
  PROVE  IInv'
<1>1. TypeOK /\ Shapes /\ "worker" \in Threads /\ "worker" # "principal"
  BY DEF IInv, Threads
<1>2. reqs' \in [Requests -> Req \cup {NoReq}] /\ SettledIsFinal
  BY <1>1, RequestsStep
<1>3. /\ gen \in Nat /\ counter \in Nat /\ events \in Nat
      /\ slot \in Prepared \cup {Empty} /\ current \in Prepared \cup {Empty}
      /\ sessions \subseteq Sessions /\ enabled \in {"yes", "no"}
      /\ locks \in [{"sessions", "lifecycle"} -> Threads \cup {"free"}]
  BY <1>1 DEF TypeOK
<1>4. ASSUME NEW rec \in Worker, rec.pc # "use", Become("worker", rec), Typed PROVE IInv'
  BY <1>1, <1>4, ThreadMoves DEF Typed
<1> DEFINE w == th["worker"]
<1>5. w \in Worker /\ \A q : Cleared(q) \in Prepared \cup {Empty}
  BY <1>1, ClearedDoes DEF Shapes
<1>6. CASE StartCeremony
  <2>1. PICK next \in {"clear", "clearAll", "prompt"} :
          Become("worker", [pc |-> next, req |-> slot.req, prep |-> slot.prep])
    BY <1>6 DEF StartCeremony
  <2> DEFINE rec == [pc |-> next, req |-> slot.req, prep |-> slot.prep]
  <2>2. slot \in Prepared
    BY <1>3, <1>6 DEF StartCeremony
  <2>3. rec \in Worker /\ rec.pc # "use"
    BY <2>2 DEF Worker, Prepared
  <2>4. Typed
    BY <1>2, <1>3, <1>6 DEF StartCeremony, Typed
  <2> QED BY <1>4, <2>1, <2>3, <2>4
<1>7. CASE OtherCommand
  <2>1. [pc |-> "respond"] \in Worker
    BY DEF Worker
  <2>2. Become("worker", [pc |-> "respond"]) /\ Typed
    BY <1>2, <1>3, <1>7 DEF OtherCommand, Typed
  <2> QED BY <1>4, <2>1, <2>2
<1>8. CASE PromptRefused
  <2>1. [w EXCEPT !.pc = "clear"] \in Worker /\ [w EXCEPT !.pc = "clear"].pc # "use"
    BY <1>5, <1>8, WorkerMoves DEF PromptRefused
  <2>2. Become("worker", [w EXCEPT !.pc = "clear"]) /\ Typed
    BY <1>2, <1>3, <1>8 DEF PromptRefused, WorkerAt, Typed
  <2> QED BY <1>4, <2>1, <2>2
<1>9. CASE AuditFails \/ ClearPreparation
  <2>1. [w EXCEPT !.pc = "respond"] \in Worker /\ [w EXCEPT !.pc = "respond"].pc # "use"
    BY <1>5, WorkerMoves
  <2>2. Become("worker", [w EXCEPT !.pc = "respond"])
    BY <1>9 DEF AuditFails, ClearPreparation, WorkerAt
  <2>3. Typed
    BY <1>2, <1>3, <1>5, <1>9 DEF AuditFails, ClearPreparation, Typed
  <2> QED BY <1>4, <2>1, <2>2, <2>3
<1>10. CASE Respond
  <2>1. Idle \in Worker /\ Idle.pc # "use"
    BY DEF Worker, Idle
  <2>2. Become("worker", Idle) /\ Typed
    BY <1>2, <1>3, <1>10 DEF Respond, Typed
  <2> QED BY <1>4, <2>1, <2>2
<1> QED BY <1>6, <1>7, <1>8, <1>9, <1>10

\* An approval brings the worker to a request that was Waiting until now: no
\* use has it behind it.
LEMMA ResolveKeeps ==
  ASSUME IInv, Next, Resolve
  PROVE  IInv'
<1>1. TypeOK /\ Shapes /\ "worker" \in Threads /\ "principal" \in Threads /\ "worker" # "principal"
  BY DEF IInv, Threads
<1>2. reqs' \in [Requests -> Req \cup {NoReq}] /\ SettledIsFinal
  BY <1>1, RequestsStep
<1>3. UNCHANGED <<gen, slot, counter, current, sessions, enabled, locks, events, uses>>
  BY DEF Resolve
<1> DEFINE w == th["worker"]
<1>4. w \in Worker /\ w.pc = "prompt" /\ w.req \in Requests /\ w.prep \in Nat \ {0}
  BY <1>1, WorkerCarries DEF Resolve, Shapes
<1>5. CASE WorkerAt("clear")
  <2>1. [w EXCEPT !.pc = "clear"] \in Worker /\ [w EXCEPT !.pc = "clear"].pc # "use"
    BY <1>4, WorkerMoves
  <2>2. Become("worker", [w EXCEPT !.pc = "clear"])
    BY <1>5 DEF WorkerAt
  <2> QED BY <1>1, <1>2, <1>3, <2>1, <2>2, ThreadMoves DEF TypeOK
<1>6. CASE ~ WorkerAt("clear")
  <2>1. PICK r \in Requests :
          /\ reqs[r].state = "Waiting"
          /\ reqs' = SetState({r}, "Approved")
          /\ Become("worker", [pc |-> "use", req |-> w.req, prep |-> w.prep, bound |-> r])
    <3>1. \A r \in Matching : r \in Requests /\ reqs[r].state = "Waiting"
      <4> SUFFICES ASSUME NEW r \in Matching PROVE r \in Requests /\ reqs[r].state = "Waiting"
        OBVIOUS
      <4>1. r \in Requests /\ reqs[r] = [reqs[w.req] EXCEPT !.state = "Waiting"]
        BY DEF Matching
      <4>2. reqs[w.req] \in Req \cup {NoReq}
        BY <1>1, <1>4 DEF TypeOK
      <4> QED BY <4>1, <4>2 DEF Req, NoReq
    <3> QED BY <1>6, <3>1 DEF Resolve
  <2> DEFINE rec == [pc |-> "use", req |-> w.req, prep |-> w.prep, bound |-> r]
  <2>2. rec \in Worker /\ rec.bound = r
    BY <1>4 DEF Worker
  <2>3. DOMAIN th' = Threads /\ th'["worker"] = rec /\ th'["principal"] = th["principal"]
    BY <1>1, <2>1, BecomeDoes DEF TypeOK
  <2>4. TypeOK' /\ Shapes'
    BY <1>1, <1>2, <1>3, <2>2, <2>3 DEF TypeOK, Shapes
  <2>5. reqs'[r].state = "Approved"
    <3>1. reqs[r] \in Req
      BY <1>1, <2>1 DEF TypeOK, NoReq
    <3> QED BY <2>1, <3>1 DEF SetState, Req
  <2>6. \A u \in uses : u.consumed \in Requests /\ reqs[u.consumed].state = "Approved"
    BY <1>1 DEF IInv, TypeOK, Consumed
  <2>7. \A u \in uses : reqs'[u.consumed].state = "Approved" /\ u.consumed # r
    BY <1>2, <2>1, <2>6 DEF SettledIsFinal, Settled
  <2>8. Consumed'
    BY <1>3, <2>2, <2>3, <2>5, <2>7 DEF IInv, Consumed
  <2> QED BY <1>3, <2>4, <2>8 DEF IInv, OneUsePerRequest
<1> QED BY <1>5, <1>6

\* authorize_bound and the use: the first one of its request.
LEMMA UseKeyKeeps ==
  ASSUME IInv, Next, UseKey
  PROVE  IInv'
<1>1. TypeOK /\ Shapes /\ "worker" \in Threads /\ "principal" \in Threads /\ "worker" # "principal"
  BY DEF IInv, Threads
<1>2. UNCHANGED <<reqs, gen, slot, counter, current, sessions, enabled, locks, events>>
  BY DEF UseKey
<1>3. reqs' \in [Requests -> Req \cup {NoReq}] /\ SettledIsFinal
  BY <1>1, RequestsStep
<1> DEFINE w == th["worker"]
<1>4. w \in Worker /\ w.pc = "use" /\ w.req \in Requests /\ w.bound \in Requests
  BY <1>1, WorkerCarries DEF UseKey, Shapes
<1>5. CASE WorkerAt("clear") /\ UNCHANGED uses
  <2>1. [w EXCEPT !.pc = "clear"] \in Worker /\ [w EXCEPT !.pc = "clear"].pc # "use"
    BY <1>4, WorkerMoves
  <2>2. Become("worker", [w EXCEPT !.pc = "clear"])
    BY <1>5 DEF WorkerAt
  <2> QED BY <1>1, <1>2, <1>3, <1>5, <2>1, <2>2, ThreadMoves DEF TypeOK
<1> DEFINE new == [prepared |-> w.req, consumed |-> w.bound, nth |-> Cardinality(uses)]
<1>6. CASE uses' = uses \cup {new} /\ WorkerAt("done")
  <2>1. IsFiniteSet(uses) /\ Cardinality(uses) \in Nat
    BY FS_CardinalityType DEF IInv, Consumed
  <2>2. new \in [prepared : Requests, consumed : Requests, nth : Nat] /\ new.consumed = w.bound
    BY <1>4, <2>1
  <2>3. [w EXCEPT !.pc = "done"] \in Worker /\ [w EXCEPT !.pc = "done"].pc = "done"
    BY <1>4, WorkerMoves
  <2>4. /\ DOMAIN th' = Threads /\ th'["principal"] = th["principal"]
        /\ th'["worker"] \in Worker /\ th'["worker"].pc = "done"
    <3>1. Become("worker", [w EXCEPT !.pc = "done"]) /\ DOMAIN th = Threads
      BY <1>1, <1>6 DEF TypeOK, WorkerAt
    <3> HIDE DEF w
    <3> QED BY <1>1, <2>3, <3>1, BecomeDoes
  <2> HIDE DEF new
  <2>5. TypeOK' /\ Shapes'
    BY <1>1, <1>2, <1>6, <2>2, <2>4 DEF TypeOK, Shapes
  <2>6. IsFiniteSet(uses')
    BY <1>6, <2>1, FS_AddElement
  <2>7. Consumed'
    BY <1>2, <1>4, <1>6, <2>2, <2>4, <2>6 DEF IInv, Consumed
  <2>8. OneUsePerRequest'
    BY <1>4, <1>6, <2>2 DEF IInv, Consumed, OneUsePerRequest
  <2> QED BY <2>5, <2>7, <2>8 DEF IInv
<1> QED BY <1>5, <1>6 DEF UseKey

\* The runtime loop and the administration, which use no key.
LEMMA OthersKeep ==
  ASSUME IInv, Next,
         \/ \E r \in Requests : Sweep(r)
         \/ MainStep \/ AdminStep \/ Reload \/ Disable
         \/ \E t \in {"main", "admin"}, s \in Sessions : EndSession(t, s)
  PROVE  IInv'
<1>1. TypeOK /\ "main" \in Threads /\ "admin" \in Threads
  BY DEF IInv, Threads
<1>2. reqs' \in [Requests -> Req \cup {NoReq}] /\ SettledIsFinal
  BY <1>1, RequestsStep DEF IInv
<1>3. /\ gen \in Nat /\ counter \in Nat /\ events \in Nat
      /\ slot \in Prepared \cup {Empty} /\ current \in Prepared \cup {Empty}
      /\ sessions \subseteq Sessions /\ enabled \in {"yes", "no"}
      /\ locks \in [{"sessions", "lifecycle"} -> Threads \cup {"free"}]
  BY <1>1 DEF TypeOK
<1>4. ASSUME NEW t \in {"main", "admin"}, NEW rec, Become(t, rec), Typed PROVE IInv'
  BY <1>1, <1>4, ThreadMoves DEF Typed
<1>5. /\ Take("lifecycle", "main") \/ ReleaseAll("main")
           => locks' \in [{"sessions", "lifecycle"} -> Threads \cup {"free"}]
      /\ \A q : Cleared(q) \in Prepared \cup {Empty}
  BY <1>1, LocksMove, ClearedDoes
<1>6. ASSUME NEW r \in Requests, Sweep(r) PROVE IInv'
  <2>1. Become("main", [pc |-> "expired", req |-> r]) /\ Typed
    BY <1>2, <1>3, <1>6 DEF Sweep, Typed
  <2> QED BY <1>4, <2>1
<1>7. ASSUME NEW t \in {"main", "admin"}, EndSessionStep(t) PROVE IInv'
  <2>1. \E rec : Become(t, rec)
    BY <1>7 DEF EndSessionStep, TakePending, DropPending, DropPreparation, CleanupBrowser
  <2>2. Typed
    <3>1. CASE TakePending(t)
      BY <1>2, <1>3, <3>1 DEF TakePending, Typed
    <3>2. CASE DropPending(t) \/ DropPreparation(t) \/ CleanupBrowser(t)
      BY <1>2, <1>3, <1>5, <3>2 DEF DropPending, DropPreparation, CleanupBrowser, Typed
    <3> QED BY <1>7, <3>1, <3>2 DEF EndSessionStep
  <2> QED BY <1>4, <2>1, <2>2
<1>8. CASE DrainEvent \/ EventStep \/ SweepClear
  <2>1. \E rec : Become("main", rec)
    BY <1>8 DEF DrainEvent, EventStep, EventSnapshot, EventHasSession, EventStatus,
                EventClearSlot, EventUnset, SweepClear
  <2>2. Typed
    <3>1. CASE DrainEvent
      BY <1>2, <1>3, <3>1 DEF DrainEvent, Typed
    <3>2. CASE EventSnapshot \/ EventHasSession \/ EventStatus
      BY <1>2, <1>3, <1>5, <3>2 DEF EventSnapshot, EventHasSession, EventStatus, Typed
    <3>3. CASE EventClearSlot \/ EventUnset \/ SweepClear
      BY <1>2, <1>3, <1>5, <3>3 DEF EventClearSlot, EventUnset, SweepClear, Typed
    <3> QED BY <1>8, <3>1, <3>2, <3>3 DEF EventStep
  <2> QED BY <1>4, <2>1, <2>2
<1>9. ASSUME NEW t \in {"main", "admin"}, NEW s \in Sessions, EndSession(t, s) PROVE IInv'
  <2>1. Become(t, [pc |-> "takePending", session |-> s]) /\ Typed
    BY <1>2, <1>3, <1>9 DEF EndSession, Typed
  <2> QED BY <1>4, <2>1
<1>10. CASE Reload \/ Disable \/ DropCurrent \/ DrainSessions
  <2>1. \E rec : Become("admin", rec)
    BY <1>10 DEF Reload, Disable, DropCurrent, DrainSessions
  <2>2. Typed
    BY <1>2, <1>3, <1>5, <1>10 DEF Reload, Disable, DropCurrent, DrainSessions, Typed
  <2> QED BY <1>4, <2>1, <2>2
<1> QED BY <1>6, <1>7, <1>8, <1>9, <1>10 DEF MainStep, AdminStep

-----------------------------------------------------------------------------
(* The theorems.                                                            *)

\* The invariant holds of the profile as it starts.
LEMMA InitInv == Init => IInv
<1> SUFFICES ASSUME Init PROVE IInv
  OBVIOUS
<1>1. TypeOK
  BY DEF Init, TypeOK, Threads
<1>2. Shapes
  BY DEF Init, Shapes, Idle, Principal, Worker, Threads
<1>3. Consumed /\ OneUsePerRequest
  BY FS_EmptySet DEF Init, Consumed, OneUsePerRequest, Idle, Threads
<1> QED BY <1>1, <1>2, <1>3 DEF IInv

\* Every step of every thread preserves it.
LEMMA NextInv == IInv /\ [Next]_vars => IInv'
<1> SUFFICES ASSUME IInv, [Next]_vars PROVE IInv'
  OBVIOUS
<1>1. CASE UNCHANGED vars
  BY <1>1 DEF vars, IInv, TypeOK, Shapes, Consumed, OneUsePerRequest
<1>2. CASE Next
  BY <1>2, PrincipalKeeps, WorkerKeeps, ResolveKeeps, UseKeyKeeps, OthersKeep DEF Next, WorkerStep
<1> QED BY <1>1, <1>2

\* One request, one use of the key: for any number of requests, sessions and
\* reloads, with every thread taking part, although a preparation survives an
\* audit failure and the next command finds it again.
THEOREM OneUsePerRequestHolds == Spec => []OneUsePerRequest
<1>1. IInv => OneUsePerRequest
  BY DEF IInv
<1> QED BY <1>1, InitInv, NextInv, PTL DEF Spec

\* Nothing changes a settled request: a cancellation, a sweep, a reload or a
\* prompt that comes second finds it as the first one left it.
THEOREM SettledRequestsAreFinal == Spec => [][SettledIsFinal]_vars
<1>1. IInv /\ [Next]_vars => [SettledIsFinal]_vars
  BY RequestsStep DEF IInv
<1> QED BY <1>1, InitInv, NextInv, PTL DEF Spec

-----------------------------------------------------------------------------
(* The slot of a profile without administrators.                            *)

\* What every step but a creation does to the requests: none begins to wait,
\* none is forgotten, and each stays with its session.
Fades ==
  \A r \in Requests :
    /\ reqs'[r].state = "Waiting" => reqs[r].state = "Waiting" /\ reqs'[r].session = reqs[r].session
    /\ reqs[r] # NoReq => reqs'[r] # NoReq /\ reqs'[r].session = reqs[r].session
    /\ reqs[r].state \in Settled => reqs'[r].state \in Settled

\* A cancellation, a sweep or an answer settles the requests it names.
LEMMA FadesBy ==
  ASSUME TypeOK
  PROVE  /\ UNCHANGED reqs => Fades
         /\ \A ids : \A s \in Settled : reqs' = SetState(ids, s) =>
              /\ Fades
              /\ \A r \in Requests \cap ids : reqs[r] # NoReq => reqs'[r].state \in Settled
<1>1. UNCHANGED reqs => Fades
  BY DEF Fades
<1>2. ASSUME NEW ids, NEW s \in Settled, reqs' = SetState(ids, s), NEW r \in Requests
      PROVE  /\ reqs'[r].state = "Waiting" => reqs[r].state = "Waiting" /\ reqs'[r].session = reqs[r].session
             /\ reqs[r] # NoReq => reqs'[r] # NoReq /\ reqs'[r].session = reqs[r].session
             /\ reqs[r].state \in Settled => reqs'[r].state \in Settled
             /\ r \in ids /\ reqs[r] # NoReq => reqs'[r].state \in Settled
  <2>1. reqs'[r] = IF r \in ids /\ reqs[r].state = "Waiting"
                   THEN [reqs[r] EXCEPT !.state = s] ELSE reqs[r]
    BY <1>2 DEF SetState
  <2>2. CASE reqs[r] = NoReq
    BY <2>1, <2>2 DEF NoReq, Settled
  <2>3. CASE reqs[r] \in Req
    BY <1>2, <2>1, <2>3 DEF NoReq, Req, Settled
  <2> QED BY <2>2, <2>3 DEF TypeOK
<1> QED BY <1>1, <1>2 DEF Fades

\* A request of the policy runtime is Waiting or settled.
LEMMA RequestStates ==
  ASSUME TypeOK, NEW r \in Requests, reqs[r] # NoReq
  PROVE  reqs[r].state = "Waiting" \/ reqs[r].state \in Settled
<1>1. reqs[r] \in Req
  BY DEF TypeOK
<1> QED BY <1>1 DEF Req

\* Each thread moves alone.
LEMMA Moves ==
  ASSUME TypeOK, NEW rec
  PROVE  /\ Become("principal", rec) => P' = rec /\ M' = M /\ th'["admin"] = th["admin"]
         /\ Become("main", rec) => P' = P /\ M' = rec /\ th'["admin"] = th["admin"]
         /\ Become("worker", rec) => P' = P /\ M' = M /\ th'["admin"] = th["admin"]
BY DEF TypeOK, Threads, Become, P, M

\* clear_matching empties the slot of that preparation, or leaves it alone.
LEMMA ClearedSlot ==
  ASSUME NEW p \in Nat \ {0}
  PROVE  Cleared(p).prep # p /\ (Cleared(p) = Empty \/ Cleared(p) = slot)
BY DEF Cleared, Empty

\* What is in current_pending, and in the slot.
LEMMA Contents ==
  ASSUME TypeOK
  PROVE  /\ current # Empty => current.req \in Requests /\ current.prep \in Nat \ {0}
         /\ slot # Empty => slot.req \in Requests /\ slot.prep \in Nat \ {0}
         /\ Empty.prep = 0
BY DEF TypeOK, Prepared, Empty

\* What the runtime loop carries, where it needs it.
LEMMA LoopCarries ==
  ASSUME M \in Loop
  PROVE  /\ M.pc \in Handling \cup {"drop", "dropSlot"} => M.req \in Requests /\ M.prep \in Nat \ {0}
         /\ M.pc = "expired" => M.req \in Requests
         /\ M.pc = "takePending" => M.session \in Sessions
         /\ \A pc \in {"status", "clear", "unset", "dropSlot"} :
              M.pc \in Handling \cup {"drop"} =>
                LET n == [M EXCEPT !.pc = pc] IN
                n \in Loop /\ n.pc = pc /\ n.req = M.req /\ n.prep = M.prep
BY DEF Loop, Handling

\* The same for the principal's thread.
LEMMA PrincipalCarries ==
  ASSUME Shapes
  PROVE  /\ P.pc \notin {"idle", "create"} => P.req \in Requests
         /\ P.pc \in {"audit", "publish"} => P.prep \in Nat \ {0}
         /\ \A pc \in {"publish", "cancel", "cancelClear"} :
              LET n == [P EXCEPT !.pc = pc] IN
              /\ n.pc = pc
              /\ P.pc \notin {"idle", "create"} => n.req = P.req
              /\ P.pc = "audit" => n.prep = P.prep
<1>1. P \in Principal
  BY DEF Shapes, P
<1> QED BY <1>1 DEF Principal

\* A step that settles requests or empties the slot, of a thread that is
\* neither the principal nor the runtime loop.
LEMMA WorkerLeavesSlot ==
  ASSUME IInv, SlotInv, Fades, UNCHANGED <<current, sessions, locks>>, slot' \in {slot, Empty},
         P' = P, M' = M, th'["admin"] = th["admin"]
  PROVE  SlotInv'
<1>1. TypeOK /\ Shapes /\ M \in Loop
  BY DEF IInv, SlotInv
<1>2. /\ P.pc \notin {"idle", "create"} => P.req \in Requests
      /\ M.pc \in Handling \cup {"drop", "expired"} => M.req \in Requests
      /\ M.pc \in Handling => M.prep # 0
      /\ current # Empty => current.req \in Requests
      /\ Empty.prep = 0
  BY <1>1, PrincipalCarries, LoopCarries, Contents
<1>3. LocksKept' /\ SnapshotCurrent'
  BY <1>2 DEF SlotInv, LocksKept, SnapshotCurrent, Handling, Fades
<1>4. Named' /\ SessionsKept'
  BY <1>2 DEF SlotInv, Named, SessionsKept, Creating, Fades
<1>5. WaitingNamed' /\ SlotNamed' /\ EndedTaken'
  BY DEF SlotInv, WaitingNamed, SlotNamed, EndedTaken, Fades
<1> QED BY <1>3, <1>4, <1>5 DEF SlotInv

\* handle_ceremony_command does no more than that.
LEMMA WorkerKeepsSlot ==
  ASSUME IInv, SlotInv, StartCeremony \/ OtherCommand \/ WorkerStep
  PROVE  SlotInv'
<1>1. TypeOK
  BY DEF IInv
<1>2. \E rec : Become("worker", rec)
  BY DEF StartCeremony, OtherCommand, WorkerStep, PromptRefused, AuditFails, Resolve, UseKey,
         ClearPreparation, Respond, WorkerAt
<1>3. P' = P /\ M' = M /\ th'["admin"] = th["admin"]
  BY <1>1, <1>2, Moves
<1>4. /\ UNCHANGED <<current, sessions, locks>> /\ slot' \in {slot, Empty}
  BY DEF StartCeremony, OtherCommand, WorkerStep, PromptRefused, AuditFails, Resolve, UseKey,
         ClearPreparation, Respond, Cleared
<1>5. UNCHANGED reqs \/ \E ids : \E s \in Settled : reqs' = SetState(ids, s)
  BY DEF StartCeremony, OtherCommand, WorkerStep, PromptRefused, AuditFails, Resolve, UseKey,
         ClearPreparation, Respond, Settled
<1>6. Fades
  BY <1>1, <1>5, FadesBy
<1> QED BY <1>3, <1>4, <1>6, WorkerLeavesSlot

\* What a step of the principal or of the loop may rely on.
Facts ==
  /\ P.pc \notin {"idle", "create"} => P.req \in Requests
  /\ P.pc \in {"audit", "publish"} => P.prep \in Nat \ {0}
  /\ M.pc \in Handling \cup {"drop", "dropSlot", "expired"} => M.req \in Requests
  /\ M.pc \in Handling \cup {"drop", "dropSlot"} => M.prep \in Nat \ {0}
  /\ current # Empty => current.req \in Requests /\ current.prep \in Nat \ {0}
  /\ slot # Empty => slot.prep \in Nat \ {0}
  /\ Empty.prep = 0

\* They follow from the shapes of the threads' records and of the two slots.
LEMMA FactsHold == ASSUME IInv, SlotInv PROVE TypeOK /\ Shapes /\ M \in Loop /\ Facts
<1>1. TypeOK /\ Shapes /\ M \in Loop
  BY DEF IInv, SlotInv
<1> QED BY <1>1, PrincipalCarries, LoopCarries, Contents DEF Facts

\* handle_create_intent begins: nothing is published, and managed_sessions is
\* locked with the session in it.
LEMMA StartCreateSlot ==
  ASSUME IInv, SlotInv, NEW s \in Sessions, NEW op \in Ops, StartCreate(s, op)
  PROVE  SlotInv'
<1>1. TypeOK /\ Facts
  BY FactsHold
<1> DEFINE rec == [pc |-> "create", session |-> s, op |-> op, gen |-> gen]
<1>2. P' = rec /\ M' = M /\ th'["admin"] = th["admin"]
  BY <1>1, Moves DEF StartCreate
<1>3. rec.pc = "create" /\ rec.session = s
  OBVIOUS
<1>4. /\ P.pc = "idle" /\ s \in sessions /\ current = Empty
      /\ UNCHANGED <<reqs, slot, current, sessions>>
      /\ locks["sessions"] = "free" /\ locks' = [locks EXCEPT !["sessions"] = "principal"]
  BY DEF StartCreate, Admitted, Take, P
<1> HIDE DEF rec
<1>5. locks'["sessions"] = "principal" /\ locks'["lifecycle"] = locks["lifecycle"]
  BY <1>1, <1>4 DEF TypeOK
<1>6. LocksKept' /\ SnapshotCurrent'
  BY <1>2, <1>3, <1>4, <1>5 DEF SlotInv, LocksKept, SnapshotCurrent
<1>7. Named' /\ SessionsKept'
  BY <1>2, <1>3, <1>4 DEF SlotInv, Named, SessionsKept, Creating
<1>8. WaitingNamed' /\ SlotNamed' /\ EndedTaken'
  BY <1>2, <1>3, <1>4 DEF SlotInv, WaitingNamed, SlotNamed, EndedTaken, Creating
<1> QED BY <1>2, <1>6, <1>7, <1>8 DEF SlotInv

\* principal_create_pending_intent: the new request is in the hands of the
\* thread that makes it.
LEMMA CreatePendingSlot ==
  ASSUME IInv, SlotInv, CreatePending
  PROVE  SlotInv'
<1>1. TypeOK /\ Facts /\ Shapes
  BY FactsHold
<1>2. P.pc = "create" /\ UNCHANGED <<slot, current, sessions, locks>>
  BY DEF CreatePending, P
<1>3. PICK n \in Requests :
        /\ reqs[n] = NoReq
        /\ reqs' = [reqs EXCEPT ![n] = [state |-> "Waiting", session |-> P.session,
                                        op |-> P.op, gen |-> P.gen]]
        /\ Become("principal", [pc |-> "install", req |-> n])
  BY DEF CreatePending, P
<1>4. P' = [pc |-> "install", req |-> n] /\ M' = M /\ th'["admin"] = th["admin"]
  BY <1>1, <1>3, Moves
<1>5. P'.pc = "install" /\ P'.req = n
  BY <1>4
<1>6. /\ reqs'[n].state = "Waiting" /\ reqs'[n].session = P.session /\ reqs'[n] # NoReq
      /\ \A r \in Requests : r # n => reqs'[r] = reqs[r]
      /\ reqs[n].state \notin Settled
  BY <1>1, <1>3 DEF TypeOK, NoReq, Settled
<1>7. LocksKept' /\ SnapshotCurrent'
  BY <1>1, <1>2, <1>4, <1>5, <1>6 DEF SlotInv, LocksKept, SnapshotCurrent, Facts, Creating, Handling
<1>8. Named' /\ SessionsKept'
  BY <1>1, <1>2, <1>3, <1>4, <1>5, <1>6 DEF SlotInv, Named, SessionsKept, Facts, Creating
<1>9. WaitingNamed' /\ SlotNamed' /\ EndedTaken'
  BY <1>1, <1>2, <1>4, <1>5, <1>6
     DEF SlotInv, WaitingNamed, SlotNamed, EndedTaken, SessionsKept, Creating
<1> QED BY <1>4, <1>7, <1>8, <1>9 DEF SlotInv

\* The principal's thread gives its locks back.
LEMMA Released ==
  ASSUME TypeOK, NEW t \in {"principal", "main"}, ReleaseAll(t)
  PROVE  \A l \in {"sessions", "lifecycle"} : locks[l] # t => locks'[l] = locks[l]
BY DEF TypeOK, ReleaseAll

\* A creation ends without a request: there was a preparation already, or the
\* audit record failed and its own is cleared.
LEMMA CreationUndone ==
  ASSUME IInv, SlotInv, P.pc \in {"install", "audit"},
         reqs' = SetState({P.req}, "Cancelled"),
         P' = Idle, M' = M, th'["admin"] = th["admin"], ReleaseAll("principal"),
         P.pc = "install" => slot' = slot,
         P.pc = "audit" => slot' = Cleared(P.prep),
         UNCHANGED <<current, sessions>>
  PROVE  SlotInv'
<1>1. TypeOK /\ Facts /\ P'.pc = "idle"
  BY FactsHold DEF Idle
<1>2. P.req \in Requests /\ reqs[P.req] # NoReq
  BY <1>1 DEF SlotInv, Named, Facts
<1>3. Fades /\ reqs'[P.req].state \in Settled
  BY <1>1, <1>2, FadesBy DEF Settled
<1>4. slot' \in {slot, Empty} /\ (P.pc = "audit" => slot'.prep # P.prep)
  BY <1>1, ClearedSlot DEF Facts
<1>5. \A l \in {"sessions", "lifecycle"} : locks[l] # "principal" => locks'[l] = locks[l]
  BY <1>1, Released
<1>6. LocksKept' /\ SnapshotCurrent'
  BY <1>1, <1>3, <1>4, <1>5
     DEF SlotInv, LocksKept, SnapshotCurrent, Facts, Fades, Creating, Handling
<1>7. Named' /\ SessionsKept'
  BY <1>1, <1>3 DEF SlotInv, Named, SessionsKept, Facts, Fades, Creating
<1>8. WaitingNamed'
  BY <1>1, <1>3 DEF SlotInv, WaitingNamed, Fades, Creating, Settled
<1>9. SlotNamed'
  BY <1>1, <1>4 DEF SlotInv, SlotNamed
<1>10. EndedTaken'
  BY <1>1, <1>3 DEF SlotInv, EndedTaken, Fades
<1> QED BY <1>6, <1>7, <1>8, <1>9, <1>10 DEF SlotInv

\* The preparation is installed by the thread that is to publish it.
LEMMA InstallSlot ==
  ASSUME IInv, SlotInv, Install
  PROVE  SlotInv'
<1>1. TypeOK /\ Facts /\ P.pc = "install" /\ UNCHANGED <<current, sessions>>
  BY FactsHold DEF Install, Installed, P
<1>2. CASE slot # Empty
  <2>1. reqs' = SetState({P.req}, "Cancelled") /\ ReleaseAll("principal") /\ slot' = slot
        /\ Become("principal", Idle)
    BY <1>2 DEF Install, Installed, P
  <2>2. P' = Idle /\ M' = M /\ th'["admin"] = th["admin"]
    BY <1>1, <2>1, Moves
  <2> QED BY <1>1, <2>1, <2>2, CreationUndone
<1>3. CASE slot = Empty
  <2> DEFINE rec == [pc |-> "audit", req |-> P.req, prep |-> counter + 1]
  <2>1. /\ slot' = [req |-> P.req, prep |-> counter + 1] /\ Become("principal", rec)
        /\ UNCHANGED <<reqs, locks>>
    BY <1>3 DEF Install, Installed, P
  <2>2. P' = rec /\ M' = M /\ th'["admin"] = th["admin"]
    BY <1>1, <2>1, Moves
  <2>3. /\ P'.pc = "audit" /\ P'.req = P.req /\ P'.prep = slot'.prep
    BY <2>1, <2>2
  <2> HIDE DEF rec
  <2>4. LocksKept' /\ SnapshotCurrent'
    BY <1>1, <2>1, <2>2, <2>3
       DEF SlotInv, LocksKept, SnapshotCurrent, Creating, Handling, Facts
  <2>5. Named' /\ SessionsKept'
    BY <1>1, <2>1, <2>2, <2>3 DEF SlotInv, Named, SessionsKept, Creating
  <2>6. WaitingNamed' /\ SlotNamed' /\ EndedTaken'
    BY <1>1, <2>1, <2>2, <2>3 DEF SlotInv, WaitingNamed, SlotNamed, EndedTaken, Creating
  <2> QED BY <2>2, <2>4, <2>5, <2>6 DEF SlotInv
<1> QED BY <1>2, <1>3

\* The audit record of a creation: written, or everything undone.
LEMMA AuditCreateSlot ==
  ASSUME IInv, SlotInv, AuditCreate
  PROVE  SlotInv'
<1>1. TypeOK /\ Facts /\ Shapes /\ P.pc = "audit" /\ UNCHANGED <<current, sessions>>
  BY FactsHold DEF AuditCreate, P
<1>2. CASE /\ reqs' = SetState({P.req}, "Cancelled") /\ slot' = Cleared(P.prep)
           /\ ReleaseAll("principal") /\ Become("principal", Idle)
  <2>1. P' = Idle /\ M' = M /\ th'["admin"] = th["admin"]
    BY <1>1, <1>2, Moves
  <2> QED BY <1>1, <1>2, <2>1, CreationUndone
<1>3. CASE Become("principal", [P EXCEPT !.pc = "publish"]) /\ UNCHANGED <<reqs, slot, locks>>
  <2>1. P' = [P EXCEPT !.pc = "publish"] /\ M' = M /\ th'["admin"] = th["admin"]
    BY <1>1, <1>3, Moves
  <2>2. P'.pc = "publish" /\ P'.req = P.req /\ P'.prep = P.prep
    BY <1>1, <2>1, PrincipalCarries
  <2>3. LocksKept' /\ SnapshotCurrent'
    BY <1>1, <1>3, <2>1, <2>2 DEF SlotInv, LocksKept, SnapshotCurrent, Creating
  <2>4. Named' /\ SessionsKept'
    BY <1>1, <1>3, <2>1, <2>2 DEF SlotInv, Named, SessionsKept, Creating
  <2>5. WaitingNamed' /\ SlotNamed' /\ EndedTaken'
    BY <1>1, <1>3, <2>1, <2>2 DEF SlotInv, WaitingNamed, SlotNamed, EndedTaken, Creating
  <2> QED BY <2>1, <2>3, <2>4, <2>5 DEF SlotInv
<1> QED BY <1>2, <1>3 DEF AuditCreate, P

\* The thread that made the request hands it over to current_pending.
LEMMA PublishSlot ==
  ASSUME IInv, SlotInv, Publish
  PROVE  SlotInv'
<1>1. TypeOK /\ Facts /\ P.pc = "publish" /\ UNCHANGED <<reqs, slot, sessions>>
  BY FactsHold DEF Publish, P
<1>2. /\ current' = [req |-> P.req, prep |-> P.prep] /\ ReleaseAll("principal")
      /\ Become("principal", Idle)
  BY DEF Publish, P
<1>3. P' = Idle /\ P'.pc = "idle" /\ M' = M /\ th'["admin"] = th["admin"]
  BY <1>1, <1>2, Moves DEF Idle
<1>4. current'.req = P.req /\ current'.prep = P.prep /\ current' # Empty
  BY <1>1, <1>2 DEF Facts, Empty
<1>5. \A l \in {"sessions", "lifecycle"} : locks[l] # "principal" => locks'[l] = locks[l]
  BY <1>1, <1>2, Released
<1>6. M.pc \notin Handling
  BY <1>1, <1>2 DEF SlotInv, SnapshotCurrent, Facts, Creating, Empty
<1>7. LocksKept' /\ SnapshotCurrent'
  BY <1>3, <1>5, <1>6 DEF SlotInv, LocksKept, SnapshotCurrent, Creating, Handling
<1>8. Named' /\ SessionsKept'
  BY <1>1, <1>3, <1>4 DEF SlotInv, Named, SessionsKept, Creating
<1>9. WaitingNamed' /\ EndedTaken'
  BY <1>1, <1>3, <1>4 DEF SlotInv, WaitingNamed, EndedTaken, SnapshotCurrent, Creating
<1>10. SlotNamed'
  <2>1. current = Empty /\ (slot # Empty => slot.prep # current.prep)
    BY <1>1 DEF SlotInv, SnapshotCurrent, Facts, Creating
  <2> QED BY <1>1, <1>3, <1>4, <2>1 DEF SlotInv, SlotNamed
<1> QED BY <1>3, <1>7, <1>8, <1>9, <1>10 DEF SlotInv

\* handle_cancel_intent up to the look at current_pending.
LEMMA CancelSlot ==
  ASSUME IInv, SlotInv,
         (\E r \in Requests : StartCancel(r)) \/ CancelLifecycle \/ CancelRequest
  PROVE  SlotInv'
<1>1. TypeOK /\ Facts /\ Shapes
  BY FactsHold
<1>2. UNCHANGED <<slot, current, sessions>> /\ P.pc \in {"idle", "lifecycle", "cancel"}
  BY DEF StartCancel, Admitted, CancelLifecycle, CancelRequest, P
<1>3. /\ M' = M /\ th'["admin"] = th["admin"]
      /\ P'.pc \in {"lifecycle", "cancel", "cancelClear"}
      /\ P'.req \in Requests /\ reqs[P'.req] # NoReq
      /\ locks'["sessions"] = "principal"
      /\ P'.pc \in {"cancel", "cancelClear"} => locks'["lifecycle"] = "principal"
      /\ locks["lifecycle"] = "main" => locks'["lifecycle"] = "main"
      /\ Fades /\ (P'.pc = "cancelClear" => reqs'[P'.req].state \in Settled)
  <2>1. ASSUME NEW r \in Requests, StartCancel(r) PROVE <1>3
    <3>1. Become("principal", [pc |-> "lifecycle", req |-> r])
      BY <2>1 DEF StartCancel
    <3>2. P' = [pc |-> "lifecycle", req |-> r] /\ M' = M /\ th'["admin"] = th["admin"]
      BY <1>1, <3>1, Moves
    <3>3. locks' = [locks EXCEPT !["sessions"] = "principal"] /\ reqs[r] # NoReq /\ UNCHANGED reqs
      BY <2>1 DEF StartCancel, Admitted, Take
    <3> QED BY <1>1, <3>2, <3>3, FadesBy DEF TypeOK
  <2>2. CASE CancelLifecycle
    <3>1. Become("principal", [P EXCEPT !.pc = "cancel"]) /\ P.pc = "lifecycle"
      BY <2>2 DEF CancelLifecycle, P
    <3>2. P' = [P EXCEPT !.pc = "cancel"] /\ M' = M /\ th'["admin"] = th["admin"]
      BY <1>1, <3>1, Moves
    <3>3. P'.pc = "cancel" /\ P'.req = P.req
      BY <1>1, <3>1, <3>2, PrincipalCarries
    <3>4. /\ locks' = [locks EXCEPT !["lifecycle"] = "principal"] /\ locks["lifecycle"] = "free"
          /\ UNCHANGED reqs
      BY <2>2 DEF CancelLifecycle, Take
    <3>5. locks["sessions"] = "principal" /\ P.req \in Requests /\ reqs[P.req] # NoReq
      BY <1>1, <3>1 DEF SlotInv, LocksKept, Named, Facts
    <3> QED BY <1>1, <3>2, <3>3, <3>4, <3>5, FadesBy DEF TypeOK
  <2>3. CASE CancelRequest
    <3>1. /\ Become("principal", [P EXCEPT !.pc = "cancelClear"]) /\ P.pc = "cancel"
          /\ reqs' = SetState({P.req}, "Cancelled") /\ UNCHANGED locks
      BY <2>3 DEF CancelRequest, P
    <3>2. P' = [P EXCEPT !.pc = "cancelClear"] /\ M' = M /\ th'["admin"] = th["admin"]
      BY <1>1, <3>1, Moves
    <3>3. P'.pc = "cancelClear" /\ P'.req = P.req
      BY <1>1, <3>1, <3>2, PrincipalCarries
    <3>4. /\ locks["sessions"] = "principal" /\ locks["lifecycle"] = "principal"
          /\ P.req \in Requests /\ reqs[P.req] # NoReq
      BY <1>1, <3>1 DEF SlotInv, LocksKept, Named, Facts
    <3>5. Fades /\ reqs'[P.req].state \in Settled
      BY <1>1, <3>1, <3>4, FadesBy DEF Settled
    <3> QED BY <3>1, <3>2, <3>3, <3>4, <3>5
  <2> QED BY <2>1, <2>2, <2>3
<1>4. LocksKept' /\ SnapshotCurrent'
  BY <1>1, <1>2, <1>3 DEF SlotInv, LocksKept, SnapshotCurrent, Facts, Fades, Creating, Handling
<1>5. Named' /\ SessionsKept'
  BY <1>1, <1>2, <1>3 DEF SlotInv, Named, SessionsKept, Facts, Fades, Creating
<1>6. WaitingNamed' /\ SlotNamed' /\ EndedTaken'
  BY <1>2, <1>3 DEF SlotInv, WaitingNamed, SlotNamed, EndedTaken, Fades, Creating
<1> QED BY <1>3, <1>4, <1>5, <1>6 DEF SlotInv

\* current_pending is emptied for a settled request together with its
\* preparation, or left alone: a cancellation at its end, or the sweep.
LEMMA EmptiedSlot ==
  ASSUME IInv, SlotInv, LocksKept', M.pc \notin Handling,
         NEW r \in Requests, reqs[r].state \in Settled,
         slot' = IF current # Empty /\ current.req = r THEN Cleared(current.prep) ELSE slot,
         current' = IF current # Empty /\ current.req = r THEN Empty ELSE current,
         UNCHANGED <<reqs, sessions>>, th'["admin"] = th["admin"],
         \/ P.pc = "cancelClear" /\ P' = Idle /\ M' = M
         \/ M.pc = "expired" /\ M' = Idle /\ P' = P
  PROVE  SlotInv'
<1>1. Facts /\ M \in Loop /\ Idle.pc = "idle"
  BY FactsHold DEF Idle
<1>2. /\ current' = current \/ current' = Empty
      /\ current' # current => current.req = r /\ slot'.prep # current.prep
      /\ slot' = slot \/ slot' = Empty
  BY <1>1, ClearedSlot DEF Facts
<1>3. M' \in Loop
  BY <1>1 DEF Loop, Idle
<1>4. SnapshotCurrent'
  BY <1>1, <1>2 DEF SlotInv, SnapshotCurrent, Creating, Handling
<1>5. Named' /\ SessionsKept'
  BY <1>1, <1>2 DEF SlotInv, Named, SessionsKept, Creating
<1>6. WaitingNamed' /\ EndedTaken'
  BY <1>1, <1>2 DEF SlotInv, WaitingNamed, EndedTaken, Settled, Creating
<1>7. SlotNamed'
  BY <1>1, <1>2 DEF SlotInv, SlotNamed
<1> QED BY <1>3, <1>4, <1>5, <1>6, <1>7 DEF SlotInv

\* handle_cancel_intent ends: under lifecycle_lock, no event is being handled.
LEMMA CancelClearSlot ==
  ASSUME IInv, SlotInv, CancelClear
  PROVE  SlotInv'
<1>1. TypeOK /\ Facts /\ P.pc = "cancelClear" /\ UNCHANGED <<reqs, sessions>>
  BY FactsHold DEF CancelClear, P
<1>2. /\ ReleaseAll("principal") /\ Become("principal", Idle)
      /\ slot' = IF current # Empty /\ current.req = P.req THEN Cleared(current.prep) ELSE slot
      /\ current' = IF current # Empty /\ current.req = P.req THEN Empty ELSE current
  BY DEF CancelClear, P
<1>3. P' = Idle /\ P'.pc = "idle" /\ M' = M /\ th'["admin"] = th["admin"]
  BY <1>1, <1>2, Moves DEF Idle
<1>4. M.pc \notin Handling /\ P.req \in Requests /\ reqs[P.req].state \in Settled
  BY <1>1 DEF SlotInv, LocksKept, SessionsKept, Facts
<1>5. LocksKept'
  BY <1>3, <1>4 DEF LocksKept
<1> QED BY <1>1, <1>2, <1>3, <1>4, <1>5, EmptiedSlot

\* The sweep settles a request before it looks at current_pending.
LEMMA SweepSlot ==
  ASSUME IInv, SlotInv, NEW r \in Requests, Sweep(r)
  PROVE  SlotInv'
<1>1. TypeOK /\ Facts /\ M.pc = "idle" /\ reqs[r].state = "Waiting"
  BY FactsHold DEF Sweep, M
<1>2. /\ UNCHANGED <<slot, current, sessions, locks>> /\ reqs' = SetState({r}, "TimedOut")
      /\ Become("main", [pc |-> "expired", req |-> r])
  BY DEF Sweep
<1>3. P' = P /\ M' = [pc |-> "expired", req |-> r] /\ th'["admin"] = th["admin"]
  BY <1>1, <1>2, Moves
<1>4. M' \in Loop /\ M'.pc = "expired" /\ M'.req = r
  BY <1>3 DEF Loop
<1>5. Fades /\ reqs'[r].state \in Settled
  <2>1. reqs[r] # NoReq
    BY <1>1 DEF NoReq
  <2> QED BY <1>1, <1>2, <2>1, FadesBy DEF Settled
<1>6. LocksKept' /\ SnapshotCurrent'
  BY <1>1, <1>2, <1>3, <1>4 DEF SlotInv, LocksKept, SnapshotCurrent, Handling
<1>7. Named' /\ SessionsKept'
  BY <1>1, <1>2, <1>3, <1>4, <1>5 DEF SlotInv, Named, SessionsKept, Facts, Fades, Creating
<1>8. WaitingNamed' /\ SlotNamed' /\ EndedTaken'
  BY <1>1, <1>2, <1>3, <1>4, <1>5 DEF SlotInv, WaitingNamed, SlotNamed, EndedTaken, Fades
<1> QED BY <1>3, <1>4, <1>6, <1>7, <1>8 DEF SlotInv

\* cleanup_expired_pending ends: the loop that sweeps handles no event.
LEMMA SweepClearSlot ==
  ASSUME IInv, SlotInv, SweepClear
  PROVE  SlotInv'
<1>1. TypeOK /\ Facts /\ M.pc = "expired" /\ UNCHANGED <<reqs, sessions, locks>>
  BY FactsHold DEF SweepClear, M
<1>2. /\ Become("main", Idle)
      /\ slot' = IF current # Empty /\ current.req = M.req THEN Cleared(current.prep) ELSE slot
      /\ current' = IF current # Empty /\ current.req = M.req THEN Empty ELSE current
  BY DEF SweepClear, M
<1>3. P' = P /\ M' = Idle /\ M'.pc = "idle" /\ th'["admin"] = th["admin"]
  BY <1>1, <1>2, Moves DEF Idle
<1>4. M.pc \notin Handling /\ M.req \in Requests /\ reqs[M.req].state \in Settled
  BY <1>1 DEF SlotInv, SessionsKept, Facts, Handling
<1>5. LocksKept'
  BY <1>1, <1>3 DEF SlotInv, LocksKept, Handling
<1> QED BY <1>1, <1>2, <1>3, <1>4, <1>5, EmptiedSlot

\* The loop goes to a step at which it has nothing in hand, and changes no
\* more than its lock and an empty slot.
LEMMA LoopRests ==
  ASSUME IInv, SlotInv, UNCHANGED <<reqs, current, sessions>>, slot' \in {slot, Empty},
         P' = P, M' \in Loop, M'.pc \in {"idle", "event", "browser"}, th'["admin"] = th["admin"],
         \A l \in {"sessions", "lifecycle"} : locks[l] # "main" => locks'[l] = locks[l],
         M.pc = "takePending" => current = Empty \/ reqs[current.req].session # M.session,
         M.pc # "drop",
         M.pc = "dropSlot" => slot'.prep # M.prep
  PROVE  SlotInv'
<1>1. Facts
  BY FactsHold
<1>2. LocksKept' /\ SnapshotCurrent'
  BY DEF SlotInv, LocksKept, SnapshotCurrent, Handling
<1>3. Named' /\ SessionsKept'
  BY DEF SlotInv, Named, SessionsKept
<1>4. WaitingNamed' /\ SlotNamed'
  BY <1>1 DEF SlotInv, WaitingNamed, SlotNamed, Facts
<1>5. EndedTaken'
  <2> SUFFICES ASSUME NEW r \in Requests, reqs[r].state = "Waiting",
                      reqs[r].session \notin sessions
               PROVE  FALSE
    BY DEF EndedTaken
  <2>1. M.pc = "takePending" /\ M.session = reqs[r].session
    BY DEF SlotInv, EndedTaken
  <2>2. ~ (current # Empty /\ current.req = r)
    BY <2>1
  <2>3. ~ (P.pc \in Creating /\ P.req = r)
    BY DEF SlotInv, SessionsKept
  <2> QED BY <2>1, <2>2, <2>3 DEF SlotInv, WaitingNamed
<1> QED BY <1>2, <1>3, <1>4, <1>5 DEF SlotInv

\* The loop goes on with an event: it keeps its snapshot and lifecycle_lock.
LEMMA LoopHandles ==
  ASSUME IInv, SlotInv, UNCHANGED <<reqs, current, sessions>>, slot' \in {slot, Empty},
         P' = P, M' \in Loop, M'.pc \in Handling, th'["admin"] = th["admin"],
         M.pc \in Handling \cup {"event"},
         current = [req |-> M'.req, prep |-> M'.prep], locks'["lifecycle"] = "main",
         \A l \in {"sessions", "lifecycle"} : locks[l] = "principal" => locks'[l] = "principal",
         M'.pc \in {"clear", "unset"} => reqs[M'.req].state \in Settled,
         M'.pc = "unset" => slot'.prep # M'.prep
  PROVE  SlotInv'
<1>1. Facts
  BY FactsHold
<1>2. LocksKept' /\ SnapshotCurrent'
  BY DEF SlotInv, LocksKept, SnapshotCurrent, Handling
<1>3. Named' /\ SessionsKept'
  BY DEF SlotInv, Named, SessionsKept, Handling
<1>4. WaitingNamed' /\ SlotNamed' /\ EndedTaken'
  BY <1>1 DEF SlotInv, WaitingNamed, SlotNamed, EndedTaken, Handling
<1> QED BY <1>2, <1>3, <1>4 DEF SlotInv

\* handle_endpoint_event up to its two updates.
LEMMA EventSlot ==
  ASSUME IInv, SlotInv,
         DrainEvent \/ EventSnapshot \/ EventHasSession \/ EventStatus \/ EventClearSlot
  PROVE  SlotInv'
<1>1. TypeOK /\ Facts /\ M \in Loop
  BY FactsHold
<1>2. \A rec : Become("main", rec) => P' = P /\ M' = rec /\ th'["admin"] = th["admin"]
  BY <1>1, Moves
<1>3. /\ Idle \in Loop /\ Idle.pc = "idle"
      /\ [pc |-> "event"] \in Loop /\ [pc |-> "event"].pc = "event"
  BY DEF Loop, Idle
<1>4. ReleaseAll("main") =>
        \A l \in {"sessions", "lifecycle"} : locks[l] # "main" => locks'[l] = locks[l]
  BY <1>1, Released
<1>5. CASE DrainEvent
  <2>1. /\ Become("main", [pc |-> "event"]) /\ M.pc = "idle"
        /\ UNCHANGED <<reqs, slot, current, sessions, locks>>
    BY <1>5 DEF DrainEvent, M
  <2> QED BY <1>2, <1>3, <2>1, LoopRests
<1>6. CASE EventSnapshot
  <2>1. M.pc = "event" /\ locks["lifecycle"] = "free" /\ UNCHANGED <<reqs, slot, current, sessions>>
    BY <1>6 DEF EventSnapshot, M
  <2>2. CASE current = Empty
    <3>1. Become("main", Idle) /\ UNCHANGED locks
      BY <1>6, <2>2 DEF EventSnapshot
    <3> QED BY <1>2, <1>3, <2>1, <3>1, LoopRests
  <2>3. CASE current # Empty
    <3> DEFINE rec == [pc |-> "hasSession", req |-> current.req, prep |-> current.prep]
    <3>1. locks' = [locks EXCEPT !["lifecycle"] = "main"] /\ Become("main", rec)
      BY <1>6, <2>3 DEF EventSnapshot, Take
    <3>2. current \in Prepared
      BY <1>1, <2>3 DEF TypeOK
    <3>3. rec \in Loop /\ rec.pc = "hasSession" /\ current = [req |-> rec.req, prep |-> rec.prep]
      BY <3>2 DEF Loop, Prepared, Handling
    <3>4. /\ locks'["lifecycle"] = "main"
          /\ \A l \in {"sessions", "lifecycle"} : locks[l] = "principal" => locks'[l] = "principal"
      BY <1>1, <2>1, <3>1 DEF TypeOK
    <3>5. P' = P /\ M' = rec /\ th'["admin"] = th["admin"]
      BY <1>2, <3>1
    <3> HIDE DEF rec
    <3> QED BY <2>1, <3>3, <3>4, <3>5, LoopHandles DEF Handling
  <2> QED BY <2>2, <2>3
<1>7. ASSUME M.pc \in Handling PROVE current = [req |-> M.req, prep |-> M.prep] /\ locks["lifecycle"] = "main"
  BY <1>7 DEF SlotInv, SnapshotCurrent, LocksKept
<1>8. CASE EventHasSession
  <2>1. M.pc = "hasSession" /\ M.pc \in Handling /\ UNCHANGED <<reqs, slot, current, sessions>>
    BY <1>8 DEF EventHasSession, M, Handling
  <2>2. CASE Become("main", Idle) /\ ReleaseAll("main")
    BY <1>2, <1>3, <1>4, <2>1, <2>2, LoopRests
  <2>3. CASE Become("main", [M EXCEPT !.pc = "status"]) /\ UNCHANGED locks
    <3>1. P' = P /\ M' = [M EXCEPT !.pc = "status"] /\ th'["admin"] = th["admin"]
      BY <1>2, <2>3
    <3>2. M' \in Loop /\ M'.pc = "status" /\ M'.req = M.req /\ M'.prep = M.prep
      BY <1>1, <2>1, <3>1, LoopCarries
    <3> QED BY <1>7, <2>1, <2>3, <3>1, <3>2, LoopHandles DEF Handling
  <2> QED BY <1>8, <2>2, <2>3 DEF EventHasSession, M
<1>9. CASE EventStatus
  <2>1. M.pc = "status" /\ M.pc \in Handling /\ UNCHANGED <<reqs, slot, current, sessions>>
    BY <1>9 DEF EventStatus, M, Handling
  <2>2. CASE Become("main", Idle) /\ ReleaseAll("main")
    BY <1>2, <1>3, <1>4, <2>1, <2>2, LoopRests
  <2>3. CASE /\ reqs[M.req].state # "Waiting"
             /\ Become("main", [M EXCEPT !.pc = "clear"]) /\ UNCHANGED locks
    <3>1. P' = P /\ M' = [M EXCEPT !.pc = "clear"] /\ th'["admin"] = th["admin"]
      BY <1>2, <2>3
    <3>2. M' \in Loop /\ M'.pc = "clear" /\ M'.req = M.req /\ M'.prep = M.prep
      BY <1>1, <2>1, <3>1, LoopCarries
    <3>3. M.req \in Requests /\ current.req = M.req /\ current # Empty
      BY <1>1, <1>7, <2>1 DEF Facts, Empty
    <3>4. reqs[M.req].state \in Settled
      BY <1>1, <2>3, <3>3, RequestStates DEF SlotInv, Named
    <3> QED BY <1>7, <2>1, <2>3, <3>1, <3>2, <3>4, LoopHandles DEF Handling
  <2> QED BY <1>9, <2>2, <2>3 DEF EventStatus, M
<1>10. CASE EventClearSlot
  <2>1. /\ M.pc = "clear" /\ M.pc \in Handling /\ slot' = Cleared(M.prep)
        /\ Become("main", [M EXCEPT !.pc = "unset"]) /\ UNCHANGED <<reqs, current, sessions, locks>>
    BY <1>10 DEF EventClearSlot, M, Handling
  <2>2. P' = P /\ M' = [M EXCEPT !.pc = "unset"] /\ th'["admin"] = th["admin"]
    BY <1>2, <2>1
  <2>3. M' \in Loop /\ M'.pc = "unset" /\ M'.req = M.req /\ M'.prep = M.prep
    BY <1>1, <2>1, <2>2, LoopCarries
  <2>4. slot'.prep # M.prep /\ slot' \in {slot, Empty}
    BY <1>1, <2>1, ClearedSlot DEF Facts
  <2>5. reqs[M.req].state \in Settled
    BY <2>1 DEF SlotInv, SnapshotCurrent
  <2> QED BY <1>7, <2>1, <2>2, <2>3, <2>4, <2>5, LoopHandles DEF Handling
<1> QED BY <1>5, <1>6, <1>8, <1>9, <1>10

\* current_pending is emptied without a look at it: without administrators it
\* still holds the settled request of the snapshot.
LEMMA EventUnsetSlot ==
  ASSUME IInv, SlotInv, EventUnset
  PROVE  SlotInv'
<1>1. TypeOK /\ Facts /\ M.pc = "unset" /\ current' = Empty /\ UNCHANGED <<reqs, slot, sessions>>
  BY FactsHold DEF EventUnset, M
<1>2. Become("main", Idle) /\ ReleaseAll("main")
  BY DEF EventUnset
<1>3. P' = P /\ M' = Idle /\ M'.pc = "idle" /\ M' \in Loop /\ th'["admin"] = th["admin"]
  BY <1>1, <1>2, Moves DEF Idle, Loop
<1>4. /\ current.req = M.req /\ current.prep = M.prep /\ current # Empty
      /\ reqs[current.req].state \in Settled /\ slot.prep # current.prep
  BY <1>1 DEF SlotInv, SnapshotCurrent, Facts, Handling, Empty
<1>5. \A l \in {"sessions", "lifecycle"} : locks[l] # "main" => locks'[l] = locks[l]
  BY <1>1, <1>2, Released
<1>6. LocksKept' /\ SnapshotCurrent'
  BY <1>1, <1>3, <1>5 DEF SlotInv, LocksKept, SnapshotCurrent, Handling
<1>7. Named' /\ SessionsKept'
  BY <1>1, <1>3 DEF SlotInv, Named, SessionsKept
<1>8. WaitingNamed' /\ SlotNamed' /\ EndedTaken'
  BY <1>1, <1>3, <1>4 DEF SlotInv, WaitingNamed, SlotNamed, EndedTaken, Settled
<1> QED BY <1>3, <1>6, <1>7, <1>8 DEF SlotInv

\* reap_expired_sessions takes the session while nobody makes a request for it.
LEMMA EndSessionSlot ==
  ASSUME IInv, SlotInv, NEW s \in Sessions, EndSession("main", s)
  PROVE  SlotInv'
<1>1. TypeOK /\ Facts
  BY FactsHold
<1>2. /\ M.pc = "idle" /\ locks["sessions"] = "free" /\ sessions' = sessions \ {s}
      /\ Become("main", [pc |-> "takePending", session |-> s])
      /\ UNCHANGED <<reqs, slot, current, locks>>
  BY DEF EndSession, M
<1>3. P' = P /\ M' = [pc |-> "takePending", session |-> s] /\ th'["admin"] = th["admin"]
  BY <1>1, <1>2, Moves
<1>4. M' \in Loop /\ M'.pc = "takePending" /\ M'.session = s
  BY <1>3 DEF Loop
<1>5. P.pc = "idle"
  BY <1>2 DEF SlotInv, LocksKept
<1>6. LocksKept' /\ SnapshotCurrent'
  BY <1>2, <1>3, <1>4, <1>5 DEF SlotInv, LocksKept, SnapshotCurrent, Handling, Creating
<1>7. Named' /\ SessionsKept'
  BY <1>2, <1>3, <1>4, <1>5 DEF SlotInv, Named, SessionsKept, Creating
<1>8. WaitingNamed' /\ SlotNamed' /\ EndedTaken'
  BY <1>2, <1>3, <1>4 DEF SlotInv, WaitingNamed, SlotNamed, EndedTaken
<1> QED BY <1>3, <1>4, <1>6, <1>7, <1>8 DEF SlotInv

\* The pending request of the session is taken, cancelled and its preparation
\* cleared; what is published by then belongs to another session.
LEMMA EndSessionStepSlot ==
  ASSUME IInv, SlotInv, EndSessionStep("main")
  PROVE  SlotInv'
<1>1. TypeOK /\ Facts /\ M \in Loop
  BY FactsHold
<1>2. \A rec : Become("main", rec) => P' = P /\ M' = rec /\ th'["admin"] = th["admin"]
  BY <1>1, Moves
<1>3. /\ Idle \in Loop /\ Idle.pc = "idle"
      /\ [pc |-> "browser"] \in Loop /\ [pc |-> "browser"].pc = "browser"
  BY DEF Loop, Idle
<1>4. CASE TakePending("main")
  <2>1. M.pc = "takePending" /\ UNCHANGED <<reqs, slot, sessions, locks>>
    BY <1>4 DEF TakePending, M
  <2>2. CASE current = Empty \/ reqs[current.req].session # M.session
    <3>1. Become("main", [pc |-> "browser"]) /\ UNCHANGED current
      BY <1>4, <2>2 DEF TakePending, M
    <3> QED BY <1>2, <1>3, <2>1, <2>2, <3>1, LoopRests
  <2>3. CASE current # Empty /\ reqs[current.req].session = M.session
    <3> DEFINE rec == [pc |-> "drop", req |-> current.req, prep |-> current.prep]
    <3>1. Become("main", rec) /\ current' = Empty
      BY <1>4, <2>3 DEF TakePending, M
    <3>2. current \in Prepared
      BY <1>1, <2>3 DEF TypeOK
    <3>3. rec \in Loop /\ rec.pc = "drop" /\ rec.req = current.req /\ rec.prep = current.prep
      BY <3>2 DEF Loop, Prepared, Handling
    <3>4. P' = P /\ M' = rec /\ th'["admin"] = th["admin"]
      BY <1>2, <3>1
    <3> HIDE DEF rec
    <3>5. LocksKept' /\ SnapshotCurrent'
      BY <2>1, <3>1, <3>3, <3>4 DEF SlotInv, LocksKept, SnapshotCurrent, Handling
    <3>6. Named' /\ SessionsKept'
      BY <2>1, <2>3, <3>1, <3>3, <3>4 DEF SlotInv, Named, SessionsKept
    <3>7. WaitingNamed' /\ SlotNamed'
      BY <2>1, <3>1, <3>3, <3>4 DEF SlotInv, WaitingNamed, SlotNamed
    <3>8. EndedTaken'
      BY <2>1, <3>3, <3>4 DEF SlotInv, WaitingNamed, EndedTaken, SessionsKept
    <3> QED BY <3>3, <3>4, <3>5, <3>6, <3>7, <3>8 DEF SlotInv
  <2> QED BY <2>2, <2>3
<1>5. CASE DropPending("main")
  <2>1. /\ M.pc = "drop" /\ reqs' = SetState({M.req}, "Cancelled")
        /\ Become("main", [M EXCEPT !.pc = "dropSlot"])
        /\ UNCHANGED <<slot, current, sessions, locks>>
    BY <1>5 DEF DropPending, M
  <2>2. P' = P /\ M' = [M EXCEPT !.pc = "dropSlot"] /\ th'["admin"] = th["admin"]
    BY <1>2, <2>1
  <2>3. M' \in Loop /\ M'.pc = "dropSlot" /\ M'.req = M.req /\ M'.prep = M.prep
    BY <1>1, <2>1, <2>2, LoopCarries
  <2>4. M.req \in Requests /\ reqs[M.req] # NoReq
    BY <1>1, <2>1 DEF SlotInv, Named, Facts
  <2>5. Fades /\ reqs'[M.req].state \in Settled
    BY <1>1, <2>1, <2>4, FadesBy DEF Settled
  <2>6. LocksKept' /\ SnapshotCurrent'
    BY <2>1, <2>2, <2>3 DEF SlotInv, LocksKept, SnapshotCurrent, Handling
  <2>7. Named' /\ SessionsKept'
    BY <1>1, <2>1, <2>2, <2>3, <2>5 DEF SlotInv, Named, SessionsKept, Facts, Fades, Creating
  <2>8. WaitingNamed' /\ SlotNamed' /\ EndedTaken'
    BY <2>1, <2>2, <2>3, <2>5 DEF SlotInv, WaitingNamed, SlotNamed, EndedTaken, Fades, Settled
  <2> QED BY <2>2, <2>3, <2>6, <2>7, <2>8 DEF SlotInv
<1>6. CASE DropPreparation("main")
  <2>1. /\ M.pc = "dropSlot" /\ slot' = Cleared(M.prep) /\ Become("main", [pc |-> "browser"])
        /\ UNCHANGED <<reqs, current, sessions, locks>>
    BY <1>6 DEF DropPreparation, M
  <2>2. slot'.prep # M.prep /\ slot' \in {slot, Empty}
    BY <1>1, <2>1, ClearedSlot DEF Facts
  <2> QED BY <1>2, <1>3, <2>1, <2>2, LoopRests
<1>7. CASE CleanupBrowser("main")
  <2>1. M.pc = "browser" /\ Become("main", Idle) /\ UNCHANGED <<reqs, slot, current, sessions, locks>>
    BY <1>7 DEF CleanupBrowser, M
  <2> QED BY <1>2, <1>3, <2>1, LoopRests
<1> QED BY <1>4, <1>5, <1>6, <1>7 DEF EndSessionStep

\* Nobody administers the profile: its thread stays idle.
LEMMA AdminIdle ==
  ASSUME NoAdministrators, th["admin"] = Idle
  PROVE  /\ ~Reload /\ ~Disable /\ ~AdminStep
         /\ \A s \in Sessions : ~EndSession("admin", s)
BY DEF NoAdministrators, Reload, Disable, AdminStep, EndSession, EndSessionStep, TakePending,
       DropPending, DropPreparation, CleanupBrowser, DropCurrent, DrainSessions, Idle

\* Nothing is made, published or dropped when the profile starts.
LEMMA SlotInit == Init => SlotInv
<1> SUFFICES ASSUME Init PROVE SlotInv
  OBVIOUS
<1>1. P = Idle /\ M = Idle /\ th["admin"] = Idle /\ Idle.pc = "idle"
  BY DEF Init, P, M, Threads, Idle
<1>2. M \in Loop
  BY <1>1 DEF Loop, Idle
<1>3. /\ slot = Empty /\ current = Empty /\ \A r \in Requests : reqs[r].state = "None"
  BY DEF Init, NoReq
<1>4. LocksKept /\ SnapshotCurrent /\ Named /\ SessionsKept
  BY <1>1, <1>3 DEF LocksKept, SnapshotCurrent, Named, SessionsKept, Creating, Handling
<1>5. WaitingNamed /\ SlotNamed /\ EndedTaken
  BY <1>1, <1>3 DEF WaitingNamed, SlotNamed, EndedTaken
<1> QED BY <1>1, <1>2, <1>4, <1>5 DEF SlotInv

\* Every step of the three threads keeps the slot in order.
LEMMA SlotNext == NoAdministrators /\ IInv /\ SlotInv /\ [Next]_vars => SlotInv'
<1> SUFFICES ASSUME NoAdministrators, IInv, SlotInv, [Next]_vars PROVE SlotInv'
  OBVIOUS
<1>1. CASE UNCHANGED vars
  <2>1. UNCHANGED <<reqs, slot, current, sessions, locks, P, M>> /\ th'["admin"] = th["admin"]
    BY <1>1 DEF vars, P, M
  <2>2. Fades
    BY <2>1, FadesBy DEF IInv
  <2> QED BY <2>1, <2>2, WorkerLeavesSlot
<1>2. CASE Next
  <2>1. th["admin"] = Idle
    BY DEF SlotInv
  <2>2. ASSUME PrincipalStep PROVE SlotInv'
    BY <2>2, CreatePendingSlot, InstallSlot, AuditCreateSlot, PublishSlot, CancelSlot,
       CancelClearSlot DEF PrincipalStep
  <2>3. ASSUME MainStep PROVE SlotInv'
    BY <2>3, EventSlot, EventUnsetSlot, SweepClearSlot, EndSessionStepSlot DEF MainStep, EventStep
  <2>4. ASSUME NEW r \in Requests, StartCancel(r) \/ Sweep(r) PROVE SlotInv'
    BY <2>4, CancelSlot, SweepSlot
  <2>5. ASSUME NEW t \in {"main", "admin"}, NEW s \in Sessions, EndSession(t, s) PROVE SlotInv'
    BY <2>1, <2>5, AdminIdle, EndSessionSlot
  <2> QED BY <1>2, <2>1, <2>2, <2>3, <2>4, <2>5, AdminIdle, StartCreateSlot, WorkerKeepsSlot DEF Next
<1> QED BY <1>1, <1>2

\* A set whose members are all the same has one at most.
LEMMA AtMostOne ==
  ASSUME NEW S, \A x, y \in S : x = y
  PROVE  Cardinality(S) <= 1
<1>1. CASE S = {}
  BY <1>1, FS_EmptySet
<1>2. CASE S # {}
  <2>1. PICK x \in S : TRUE
    BY <1>2
  <2>2. S = {x}
    BY <2>1
  <2> QED BY <2>2, FS_Singleton
<1> QED BY <1>1, <1>2

\* The slot of a profile without administrators, for any number of requests,
\* sessions and endpoint events: at most one request of a live session waits,
\* the preparation in the slot is published or some thread is about to publish
\* or clear it, and a session that ended leaves no request that a prompt could
\* approve.
THEOREM SlotIsOwned == NoAdministrators => (Spec => []SlotOwned)
<1> SUFFICES ASSUME NoAdministrators PROVE Spec => []SlotOwned
  OBVIOUS
<1>1. IInv /\ SlotInv => SlotOwned
  <2> SUFFICES ASSUME IInv, SlotInv PROVE SlotOwned
    OBVIOUS
  <2>1. OneUnboundIntent
    <3> DEFINE S == {r \in Requests : reqs[r].state = "Waiting" /\ reqs[r].session \in sessions}
    <3>1. \A r \in S : (P.pc \in Creating /\ P.req = r) \/ (current # Empty /\ current.req = r)
      BY DEF SlotInv, WaitingNamed, SessionsKept
    <3>2. \A x, y \in S : x = y
      BY <3>1 DEF SlotInv, SnapshotCurrent
    <3> QED BY <3>2, AtMostOne DEF OneUnboundIntent
  <2>2. PreparationOwned
    BY DEF SlotInv, SlotNamed, PreparationOwned, Threads, P, M
  <2>3. EndedSessionsHoldNothing
    BY DEF SlotInv, EndedTaken, EndedSessionsHoldNothing, M
  <2> QED BY <2>1, <2>2, <2>3 DEF SlotOwned
<1>2. Init => IInv /\ SlotInv
  BY InitInv, SlotInit
<1>3. IInv /\ SlotInv /\ [Next]_vars => (IInv /\ SlotInv)'
  BY NextInv, SlotNext
<1> QED BY <1>1, <1>2, <1>3, PTL DEF Spec
=============================================================================
