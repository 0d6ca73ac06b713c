--------------------------- MODULE BrowserLeases ---------------------------
(***************************************************************************)
(* The browsers of one profile: BrowserProcessManager (agent/browser.rs),  *)
(* the bookkeeping in active_browser and shared_browsers, and the threads  *)
(* of the daemon that launch, share, lose, expire and stop browsers        *)
(* (agent/runtime.rs, agent/runtime/browser_ensure.rs).                    *)
(*                                                                         *)
(* A lease, the process it was made for and its bearer token have one id;  *)
(* the lease's directory, a private one that is renamed and deleted with   *)
(* it, is left out.  browser_manager, lifecycle_lock and managed_sessions  *)
(* are held across steps; a step takes the other locks once.  Of time      *)
(* only "the deadline of this lease has passed" is kept.  A request's      *)
(* browser_lease_id is always None in the daemon, so the branches that     *)
(* follow it are left out.                                                 *)
(***************************************************************************)
EXTENDS Integers, FiniteSets

CONSTANTS Leases, Sessions,
          Admins,       \* threads that serve administration requests
          Scopes,       \* browser_scope: subset of {"session", "profile"}
          MaxFaults,    \* bound on failing system calls (model only)
          MaxRequests   \* bound on requests to the daemon (model only)

ASSUME BrowserNamesAssumption ==
  Admins \cap {"loop", "principal", "main", "free"} = {} /\ "none" \notin Leases
ASSUME ScopesAssumption == Scopes \subseteq {"session", "profile"}

VARIABLES scope,      \* the profile's browser_scope
          lease,      \* BrowserProcessManager.leases
          proc,       \* the browser processes
          token,      \* what the sign registry holds for a browser
          active,     \* active_browser
          shared,     \* shared_browsers, which has at most this profile's entry
          sess,       \* managed_sessions
          enabled,    \* of the profile
          th,         \* the threads
          lifecycle, mgr, managed,     \* holders of the three locks
          daemon,     \* running, stopping, stopped or aborted
          slips,      \* history: what the code lets escape, by cause
          faults, requests

locks == <<lifecycle, mgr, managed>>
vars == <<scope, lease, proc, token, active, shared, sess, enabled, th,
          lifecycle, mgr, managed, daemon, slips, faults, requests>>

Threads == Admins \cup {"loop", "principal", "main"}
None == "none"
LiveStates == {"pending", "active"}
LeaseStates == LiveStates \cup {"revoked", "exit"}
NoLease == [state |-> "none"]
Lease == [state : LeaseStates, child : {"held", "none"}, reaped : {"no", "yes"},
          due : {"no", "yes"}, by : {"principal", "admin"}]
NoShared == [lease |-> None, attached |-> {}]
Idle == [pc |-> "idle"]

\* What each kind of thread has in hand.
Ender == [pc : {"ending"}, ending : SUBSET Sessions]
         \cup [pc : {"detach"}, ending : SUBSET Sessions, s : Sessions]
         \cup [pc : {"kill"}, ending : SUBSET Sessions, l : Leases]
Ensurer == {Idle}
           \cup [pc : {"checked", "verified", "shared", "unshare", "own", "disown", "launch"}, s : Sessions]
           \cup [pc : {"attach", "insert", "finish", "record", "share"}, s : Sessions, l : Leases]
Admin == Ender \cup [pc : {"idle", "find", "adminlaunch"}]
         \cup [pc : {"drain"}, why : {"reload", "disable"}]
         \cup [pc : {"unshare", "killall"}, why : {"reload", "disable"}, todo : SUBSET Leases]
Loop == Ender \cup {Idle} \cup [pc : {"exits", "expired"}, todo : SUBSET Leases]
        \cup [pc : {"forget"}, back : {"exits", "expired"}, todo : SUBSET Leases, l : Leases,
              cleared : {"no", "yes"}]
        \cup [pc : {"expire"}, todo : SUBSET Leases, over : SUBSET Leases]
Main == Ender \cup [pc : {"idle", "join", "terminate", "stopped"}]

TypeOK ==
  /\ scope \in Scopes
  /\ lease \in [Leases -> Lease \cup {NoLease}]
  /\ proc \in [Leases -> {"unborn", "running", "zombie", "gone"}]
  /\ token \in [Leases -> {"none", "registration", "signing"}]
  /\ active \in [Sessions -> Leases \cup {None}]
  /\ shared \in [lease : Leases \cup {None}, attached : SUBSET Sessions]
  /\ sess \in [Sessions -> {"live", "ended"}]
  /\ enabled \in {"no", "yes"} /\ daemon \in {"running", "stopping", "stopped", "aborted"}
  /\ th = [t \in Threads |-> th[t]]
  /\ th["principal"] \in Ensurer /\ th["loop"] \in Loop /\ th["main"] \in Main
  /\ \A t \in Admins : th[t] \in Admin
  /\ {lifecycle, mgr, managed} \subseteq Threads \cup {"free"}

Init ==
  /\ scope \in Scopes
  /\ lease = [l \in Leases |-> NoLease]
  /\ proc = [l \in Leases |-> "unborn"]
  /\ token = [l \in Leases |-> "none"]
  /\ active = [s \in Sessions |-> None] /\ shared = NoShared
  /\ sess = [s \in Sessions |-> "live"] /\ enabled = "yes"
  /\ th = [t \in Threads |-> Idle]
  /\ lifecycle = "free" /\ mgr = "free" /\ managed = "free"
  /\ daemon = "running" /\ slips = {} /\ faults = 0 /\ requests = 0

Exists(l) == l # None /\ lease[l] # NoLease
\* snapshot, state Active or AuthenticationPending, and an endpoint (port mode).
IsLive(l) == Exists(l) /\ lease[l].state \in LiveStates
Go(t, r) == th' = [th EXCEPT ![t] = r]

\* revoke_by_lease takes the signing entry of a token away and leaves the
\* registration entry.
RevokeByLease(L) ==
  token' = [l \in Leases |-> IF l \in L /\ token[l] = "signing" THEN "registration" ELSE token[l]]

-----------------------------------------------------------------------------
(* BrowserProcessManager.                                                   *)

\* terminate: the identity of the process is verified before each signal and
\* the child given up in any case.
OutOfReach(l) == proc[l] = "running" /\ faults < MaxFaults
AfterTerminate(l) ==
  IF ~Exists(l) \/ lease[l].child = "none" \/ proc[l] = "gone" THEN {proc[l]}
  ELSE IF OutOfReach(l) THEN {"gone", "running"} ELSE {"gone"}

\* Stopping a browser, whichever way: its process, and the fault used up by
\* one that did not stop.
Stop(l) ==
  \E p \in AfterTerminate(l) :
    /\ proc' = [proc EXCEPT ![l] = p]
    /\ IF Exists(l) /\ p = "running" /\ lease[l].child = "held"
       THEN faults' = faults + 1 /\ slips' = slips \cup {<<"unkillable", l>>}
       ELSE UNCHANGED <<faults, slips>>

\* revoke, terminate, cleanup, remove: the four calls always come together.
Discard(l) == Stop(l) /\ lease' = [lease EXCEPT ![l] = NoLease]

\* How launch_pending_with_agent_endpoint ends: with a lease; refused, nothing
\* spawned or what was spawned killed and waited for; or with an error after the
\* browser was spawned (its identity unread, the manifest not written), which
\* leaves a process that nobody holds.
LaunchOutcomes == {"ok", "refused", "stray"}

Launch(l, by, outcome) ==
  /\ outcome # "refused" => proc[l] = "unborn"
  /\ outcome = "stray" => faults < MaxFaults
  /\ faults' = IF outcome = "stray" THEN faults + 1 ELSE faults
  /\ proc' = [proc EXCEPT ![l] = IF outcome \in {"stray", "ok"} THEN "running" ELSE @]
  /\ slips' = slips \cup (IF outcome = "stray" THEN {<<"stray", l>>} ELSE {})
                    \cup (IF outcome = "ok" /\ daemon = "stopped" THEN {<<"late", l>>} ELSE {})
  /\ lease' = [lease EXCEPT ![l] =
       IF outcome = "ok"
       THEN [state |-> "pending", child |-> "held", reaped |-> "no", due |-> "no", by |-> by]
       ELSE @]

\* A browser exits by itself; its deadline passes.
BrowserExits(l) ==
  /\ proc[l] = "running" /\ proc' = [proc EXCEPT ![l] = "zombie"]
  /\ UNCHANGED <<scope, lease, token, active, shared, sess, enabled, th, locks,
                 daemon, slips, faults>>

DeadlinePasses(l) ==
  /\ IsLive(l) /\ lease[l].due = "no"
  /\ lease' = [lease EXCEPT ![l].due = "yes"]
  /\ UNCHANGED <<scope, proc, token, active, shared, sess, enabled, th, locks,
                 daemon, slips, faults>>

\* AssertionActivatingKeyProvider.sign after a signature: a pending lease is
\* activated unless its login deadline has passed, and gets a new deadline.
ActivateAfterAssertion(l) ==
  /\ token[l] = "signing" /\ mgr = "free" /\ daemon = "running"
  /\ Exists(l) /\ lease[l].state = "pending" /\ lease[l].due = "no"
  /\ lease[l].by = "principal"
  /\ lease' = [lease EXCEPT ![l].state = "active"]
  /\ UNCHANGED <<scope, proc, token, active, shared, sess, enabled, th, locks,
                 daemon, slips, faults>>

-----------------------------------------------------------------------------
(* handle_ensure_browser.  The request holds managed_sessions,              *)
(* lifecycle_lock and browser_manager, in this order, until it answers.     *)

P == "principal"
Ensure(pc) == th[P].pc = pc
Answer ==
  /\ Go(P, Idle) /\ managed' = "free" /\ lifecycle' = "free" /\ mgr' = "free"

EnsureBegin(s) ==
  /\ Ensure("idle") /\ enabled = "yes" /\ daemon = "running"
  /\ Go(P, [pc |-> "checked", s |-> s])
  /\ UNCHANGED <<scope, lease, proc, token, active, shared, sess, enabled, locks,
                 daemon, slips, faults>>

\* The capability is looked up among the sessions that are still managed.
EnsureVerify ==
  /\ Ensure("checked") /\ managed = "free"
  /\ IF sess[th[P].s] = "live"
     THEN managed' = P /\ Go(P, [th[P] EXCEPT !.pc = "verified"])
     ELSE Go(P, Idle) /\ UNCHANGED managed
  /\ UNCHANGED <<scope, lease, proc, token, active, shared, sess, enabled,
                 lifecycle, mgr, daemon, slips, faults>>

EnsureLock ==
  /\ Ensure("verified") /\ lifecycle = "free" /\ mgr = "free"
  /\ lifecycle' = P /\ mgr' = P
  /\ Go(P, [th[P] EXCEPT !.pc = IF scope = "profile" THEN "shared" ELSE "own"])
  /\ UNCHANGED <<scope, lease, proc, token, active, shared, sess, enabled, managed,
                 daemon, slips, faults>>

\* The shared browser of the profile is joined when it is live, and dropped
\* when it is not.
EnsureShared ==
  /\ Ensure("shared")
  /\ LET l == shared.lease s == th[P].s IN
     \/ /\ l = None /\ Go(P, [pc |-> "own", s |-> s])
        /\ UNCHANGED <<lease, proc, token, slips, faults>>
     \/ /\ IsLive(l) /\ Go(P, [pc |-> "attach", s |-> s, l |-> l])
        /\ UNCHANGED <<lease, proc, token, slips, faults>>
     \/ /\ l # None /\ ~IsLive(l) /\ Go(P, [pc |-> "unshare", s |-> s])
        /\ RevokeByLease({l}) /\ Discard(l)
  /\ UNCHANGED <<scope, active, shared, sess, enabled, locks, daemon>>

EnsureUnshare ==
  /\ Ensure("unshare") /\ shared' = NoShared /\ Go(P, [th[P] EXCEPT !.pc = "own"])
  /\ UNCHANGED <<scope, lease, proc, token, active, sess, enabled, locks, daemon,
                 slips, faults>>

\* A panic ends the daemon: the release profile aborts (a debug build unwinds and
\* poisons the locks; it is not modelled).  With browser_scope = profile no browser
\* is bound to the life of the daemon: what runs runs on, on no lease.
Abort ==
  /\ daemon' = "aborted" /\ th' = [t \in Threads |-> Idle]
  /\ managed' = "free" /\ lifecycle' = "free" /\ mgr' = "free"
  /\ lease' = [l \in Leases |-> NoLease] /\ token' = [l \in Leases |-> "none"]
  /\ active' = [s \in Sessions |-> None] /\ shared' = NoShared
  /\ sess' = [s \in Sessions |-> "ended"]
  /\ slips' = slips \cup {<<"panic", l>> : l \in {k \in Leases : proc[k] = "running"}}

\* The entry is fetched a second time and unwrapped, and whoever cleans up the
\* profile without lifecycle_lock may have removed it in between.
EnsureAttach ==
  /\ Ensure("attach")
  /\ \/ /\ shared.lease # None
        /\ shared' = [shared EXCEPT !.attached = @ \cup {th[P].s}]
        /\ Go(P, [th[P] EXCEPT !.pc = "insert"])
        /\ UNCHANGED <<lease, token, active, sess, locks, daemon, slips>>
     \/ shared.lease = None /\ Abort
  /\ UNCHANGED <<scope, proc, enabled, faults>>

EnsureInsert ==
  /\ Ensure("insert") /\ active' = [active EXCEPT ![th[P].s] = th[P].l] /\ Answer
  /\ UNCHANGED <<scope, lease, proc, token, shared, sess, enabled, daemon, slips, faults>>

\* The browser the session has already is handed out again when it is live.
EnsureOwn ==
  /\ Ensure("own")
  /\ LET s == th[P].s l == active[th[P].s] IN
     \/ /\ l = None /\ Go(P, [pc |-> "launch", s |-> s])
        /\ UNCHANGED <<lease, proc, token, managed, lifecycle, mgr, slips, faults>>
     \/ /\ IsLive(l) /\ Answer /\ UNCHANGED <<lease, proc, token, slips, faults>>
     \/ /\ l # None /\ ~IsLive(l) /\ Go(P, [pc |-> "disown", s |-> s])
        /\ RevokeByLease({l}) /\ Discard(l) /\ UNCHANGED <<managed, lifecycle, mgr>>
  /\ UNCHANGED <<scope, active, shared, sess, enabled, daemon>>

EnsureDisown ==
  /\ Ensure("disown") /\ active' = [active EXCEPT ![th[P].s] = None]
  /\ Go(P, [th[P] EXCEPT !.pc = "launch"])
  /\ UNCHANGED <<scope, lease, proc, token, shared, sess, enabled, locks, daemon,
                 slips, faults>>

\* A launch that fails takes its registration token back.
EnsureLaunch(l, outcome) ==
  /\ Ensure("launch") /\ Launch(l, "principal", outcome)
  /\ IF outcome = "ok"
     THEN /\ token' = [token EXCEPT ![l] = "registration"]
          /\ Go(P, [pc |-> "finish", s |-> th[P].s, l |-> l])
          /\ UNCHANGED <<managed, lifecycle, mgr>>
     ELSE Answer /\ UNCHANGED token
  /\ UNCHANGED <<scope, active, shared, sess, enabled, daemon>>

\* finish_principal_browser_launch: a grant is made and the token bound to the
\* lease, unless no credential is in scope; a failure undoes the launch.
EnsureFinish ==
  /\ Ensure("finish")
  /\ \/ /\ \E k \in {"registration", "signing"} : token' = [token EXCEPT ![th[P].l] = k]
        /\ Go(P, [th[P] EXCEPT !.pc = "record"])
        /\ UNCHANGED <<lease, proc, managed, lifecycle, mgr, slips, faults>>
     \/ /\ token' = [token EXCEPT ![th[P].l] = "none"]
        /\ Discard(th[P].l) /\ Answer
  /\ UNCHANGED <<scope, active, shared, sess, enabled, daemon>>

EnsureRecord ==
  /\ Ensure("record") /\ active' = [active EXCEPT ![th[P].s] = th[P].l]
  /\ IF scope = "profile"
     THEN Go(P, [th[P] EXCEPT !.pc = "share"]) /\ UNCHANGED <<managed, lifecycle, mgr>>
     ELSE Answer
  /\ UNCHANGED <<scope, lease, proc, token, shared, sess, enabled, daemon, slips, faults>>

EnsureShare ==
  /\ Ensure("share")
  /\ shared' = [lease |-> th[P].l, attached |-> {th[P].s}] /\ Answer
  /\ UNCHANGED <<scope, lease, proc, token, active, sess, enabled, daemon, slips, faults>>

-----------------------------------------------------------------------------
(* Sessions that end: terminated, waited for or revoked by an               *)
(* administrator, reaped by the runtime loop, dropped by a shutdown.        *)

EndSessions(t, S) ==
  /\ th[t] = Idle /\ managed = "free" /\ daemon = "running"
  /\ S # {} /\ \A s \in S : sess[s] = "live"
  /\ sess' = [s \in Sessions |-> IF s \in S THEN "ended" ELSE sess[s]]
  /\ Go(t, [pc |-> "ending", ending |-> S])
  /\ UNCHANGED <<scope, lease, proc, token, active, shared, enabled, locks, daemon,
                 slips, faults>>

\* cleanup_browser_for_session, under lifecycle_lock.
EndDetach(t, s) ==
  /\ th[t].pc = "ending" /\ s \in th[t].ending /\ lifecycle = "free"
  /\ active' = [active EXCEPT ![s] = None]
  /\ LET l == active[s] rest == th[t].ending \ {s} IN
     IF l = None
     THEN Go(t, [th[t] EXCEPT !.ending = rest]) /\ UNCHANGED <<lifecycle, token>>
     ELSE /\ lifecycle' = t
          /\ IF scope = "profile"
             THEN Go(t, [pc |-> "detach", ending |-> rest, s |-> s]) /\ UNCHANGED token
             ELSE Go(t, [pc |-> "kill", ending |-> rest, l |-> l]) /\ RevokeByLease({l})
  /\ UNCHANGED <<scope, lease, proc, shared, sess, enabled, mgr, managed, daemon,
                 slips, faults>>

\* As DetachSession, forgetting the shared browser instead of stopping it.
DetachWithoutStopping(t) ==
  /\ th[t].pc = "detach"
  /\ LET left == shared.attached \ {th[t].s} IN
     shared' = IF left = {} THEN NoShared ELSE [shared EXCEPT !.attached = left]
  /\ Go(t, [pc |-> "ending", ending |-> th[t].ending]) /\ lifecycle' = "free"
  /\ UNCHANGED <<scope, lease, proc, token, active, sess, enabled, mgr, managed, daemon,
                 slips, faults>>

\* detach_session_from_shared: the last one out stops the shared browser.
DetachSession(t) ==
  /\ th[t].pc = "detach"
  /\ LET left == shared.attached \ {th[t].s} IN
     IF th[t].s \in shared.attached /\ left = {}
     THEN /\ shared' = NoShared /\ RevokeByLease({shared.lease})
          /\ Go(t, [pc |-> "kill", ending |-> th[t].ending, l |-> shared.lease])
          /\ UNCHANGED lifecycle
     ELSE /\ shared' = [shared EXCEPT !.attached = left] /\ UNCHANGED token
          /\ Go(t, [pc |-> "ending", ending |-> th[t].ending]) /\ lifecycle' = "free"
  /\ UNCHANGED <<scope, lease, proc, active, sess, enabled, mgr, managed, daemon,
                 slips, faults>>

EndKill(t) ==
  /\ th[t].pc = "kill" /\ mgr = "free" /\ Discard(th[t].l)
  /\ lifecycle' = "free" /\ Go(t, [pc |-> "ending", ending |-> th[t].ending])
  /\ UNCHANGED <<scope, token, active, shared, sess, enabled, mgr, managed, daemon>>

EndDone(t) ==
  /\ th[t].pc = "ending" /\ th[t].ending = {}
  /\ Go(t, IF t = "main" THEN [pc |-> "terminate"] ELSE Idle)
  /\ managed' = IF t = "main" THEN "free" ELSE managed
  /\ UNCHANGED <<scope, lease, proc, token, active, shared, sess, enabled, lifecycle,
                 mgr, daemon, slips, faults>>

-----------------------------------------------------------------------------
(* cleanup_all_browsers_for_profile, called without lifecycle_lock when a   *)
(* profile is disabled, the policy reloaded, a grant or credential revoked. *)

CleanupBegin(t, why) ==
  /\ th[t] = Idle /\ daemon = "running"
  /\ enabled' = IF why = "disable" THEN "no" ELSE enabled
  /\ Go(t, [pc |-> "drain", why |-> why])
  /\ UNCHANGED <<scope, lease, proc, token, active, shared, sess, locks, daemon,
                 slips, faults>>

DrainActive(t) ==
  /\ th[t].pc = "drain"
  /\ Go(t, [pc |-> "unshare", why |-> th[t].why,
            todo |-> {active[s] : s \in Sessions} \ {None}])
  /\ active' = [s \in Sessions |-> None]
  /\ UNCHANGED <<scope, lease, proc, token, shared, sess, enabled, locks, daemon,
                 slips, faults>>

RemoveShared(t) ==
  /\ th[t].pc = "unshare" /\ shared' = NoShared
  /\ Go(t, [th[t] EXCEPT !.pc = "killall", !.todo = @ \cup ({shared.lease} \ {None})])
  /\ UNCHANGED <<scope, lease, proc, token, active, sess, enabled, locks, daemon,
                 slips, faults>>

\* As KillOne, leaving the token of the browser valid.
KillOneKeepingToken(t, l) ==
  /\ th[t].pc = "killall" /\ l \in th[t].todo /\ mgr \in {"free", t}
  /\ Discard(l)
  /\ Go(t, [th[t] EXCEPT !.todo = @ \ {l}])
  /\ mgr' = IF th[t].todo = {l} THEN "free" ELSE t
  /\ UNCHANGED <<scope, token, active, shared, sess, enabled, lifecycle, managed, daemon>>

KillOne(t, l) ==
  /\ th[t].pc = "killall" /\ l \in th[t].todo /\ mgr \in {"free", t}
  /\ RevokeByLease({l}) /\ Discard(l)
  /\ Go(t, [th[t] EXCEPT !.todo = @ \ {l}])
  /\ mgr' = IF th[t].todo = {l} THEN "free" ELSE t
  /\ UNCHANGED <<scope, active, shared, sess, enabled, lifecycle, managed, daemon>>

\* handle_disableprofile drops the sessions afterwards, and no browser with
\* them: what a request launched meanwhile is left to its deadline.
CleanupEnd(t) ==
  /\ th[t].pc = "killall" /\ th[t].todo = {}
  /\ th[t].why = "disable" => managed = "free"
  /\ IF th[t].why = "disable"
     THEN /\ sess' = [s \in Sessions |-> "ended"]
          /\ slips' = slips \cup {<<"disabled", active[s]>> : s \in {r \in Sessions : Exists(active[r])}}
     ELSE UNCHANGED <<sess, slips>>
  /\ Go(t, Idle)
  /\ UNCHANGED <<scope, lease, proc, token, active, shared, enabled, locks, daemon, faults>>

EnableProfile(t) ==
  /\ th[t] = Idle /\ enabled = "no" /\ daemon = "running" /\ enabled' = "yes"
  /\ UNCHANGED <<scope, lease, proc, token, active, shared, sess, th, locks, daemon,
                 slips, faults>>

-----------------------------------------------------------------------------
(* handle_launch_browser, for an administrator, under browser_manager.      *)

AdminAccept(t) ==
  /\ th[t] = Idle /\ daemon = "running" /\ Go(t, [pc |-> "find"])
  /\ UNCHANGED <<scope, lease, proc, token, active, shared, sess, enabled, locks,
                 daemon, slips, faults>>

\* find_live_lease_for_profile goes through the leases in any order, reaps the
\* exited browsers it meets and stops at the first that still runs.  What it
\* reaps check_exits will pass over.
FindLive(t) ==
  /\ th[t].pc = "find" /\ mgr = "free"
  /\ LET dead == {l \in Leases : IsLive(l) /\ lease[l].child = "held" /\ proc[l] = "zombie"}
         running == {l \in Leases : IsLive(l) /\ (lease[l].child = "none" \/ proc[l] = "running")}
     IN \E met \in SUBSET dead :
          /\ running = {} => met = dead
          /\ lease' = [l \in Leases |-> IF l \in met THEN [lease[l] EXCEPT !.reaped = "yes"] ELSE lease[l]]
          /\ proc' = [l \in Leases |-> IF l \in met THEN "gone" ELSE proc[l]]
          /\ IF running = {}
             THEN mgr' = t /\ Go(t, [pc |-> "adminlaunch"])
             ELSE UNCHANGED mgr /\ Go(t, Idle)
  /\ UNCHANGED <<scope, token, active, shared, sess, enabled, lifecycle, managed,
                 daemon, slips, faults>>

\* The registration token of a launch that fails stays (kept here only for a
\* launch that left a process); the lease of one that succeeds is in nobody's
\* active_browser.
AdminLaunch(t, l, outcome) ==
  /\ th[t].pc = "adminlaunch" /\ Launch(l, "admin", outcome)
  /\ \E k \in IF outcome = "ok" THEN {"registration", "signing"} ELSE {"registration"} :
       token' = IF outcome = "refused" THEN token ELSE [token EXCEPT ![l] = k]
  /\ mgr' = "free" /\ Go(t, Idle)
  /\ UNCHANGED <<scope, active, shared, sess, enabled, lifecycle, managed, daemon>>

-----------------------------------------------------------------------------
(* The runtime loop, holding browser_manager.                               *)

CheckExits ==
  /\ th["loop"] = Idle /\ mgr = "free" /\ daemon = "running" /\ mgr' = "loop"
  /\ LET exited == {l \in Leases : IsLive(l) /\ lease[l].reaped = "no"
                                   /\ lease[l].child = "held" /\ proc[l] = "zombie"} IN
     /\ lease' = [l \in Leases |->
          IF l \in exited
          THEN [lease[l] EXCEPT !.state = "exit", !.reaped = "yes", !.child = "none"]
          ELSE lease[l]]
     /\ proc' = [l \in Leases |-> IF l \in exited THEN "gone" ELSE proc[l]]
     /\ Go("loop", [pc |-> "exits", todo |-> exited])
  /\ UNCHANGED <<scope, token, active, shared, sess, enabled, lifecycle, managed,
                 daemon, slips, faults>>

\* What is done for each lease that exited or expired: its token, the
\* sessions' entries, the shared entry; and if there was any, the lease itself.
LoopForget(l) ==
  /\ th["loop"].pc \in {"exits", "expired"} /\ l \in th["loop"].todo
  /\ RevokeByLease({l})
  /\ active' = [s \in Sessions |-> IF active[s] = l THEN None ELSE active[s]]
  /\ Go("loop", [pc |-> "forget", back |-> th["loop"].pc, todo |-> th["loop"].todo \ {l},
                 l |-> l, cleared |-> IF \E s \in Sessions : active[s] = l THEN "yes" ELSE "no"])
  /\ UNCHANGED <<scope, lease, proc, shared, sess, enabled, locks, daemon, slips, faults>>

LoopForgetShared ==
  /\ th["loop"].pc = "forget"
  /\ LET l == th["loop"].l IN
     /\ shared' = IF shared.lease = l THEN NoShared ELSE shared
     /\ IF shared.lease = l \/ th["loop"].cleared = "yes"
        THEN Discard(l)
        ELSE UNCHANGED <<lease, proc, slips, faults>>
  /\ Go("loop", [pc |-> th["loop"].back, todo |-> th["loop"].todo])
  /\ UNCHANGED <<scope, token, active, sess, enabled, locks, daemon>>

\* check_expired.
CheckExpired ==
  /\ th["loop"].pc = "exits" /\ th["loop"].todo = {}
  /\ LET due == {l \in Leases : IsLive(l) /\ lease[l].due = "yes"} IN
     Go("loop", [pc |-> "expire", todo |-> due, over |-> due])
  /\ UNCHANGED <<scope, lease, proc, token, active, shared, sess, enabled, locks,
                 daemon, slips, faults>>

ExpireOne(l) ==
  /\ th["loop"].pc = "expire" /\ l \in th["loop"].todo /\ Stop(l)
  /\ lease' = [lease EXCEPT ![l].child = "none", ![l].state = "revoked"]
  /\ Go("loop", [th["loop"] EXCEPT !.todo = @ \ {l}])
  /\ UNCHANGED <<scope, token, active, shared, sess, enabled, locks, daemon>>

LoopExpired ==
  /\ th["loop"].pc = "expire" /\ th["loop"].todo = {}
  /\ Go("loop", [pc |-> "expired", todo |-> th["loop"].over])
  /\ UNCHANGED <<scope, lease, proc, token, active, shared, sess, enabled, locks,
                 daemon, slips, faults>>

LoopEnd ==
  /\ th["loop"].pc = "expired" /\ th["loop"].todo = {} /\ mgr' = "free" /\ Go("loop", Idle)
  /\ UNCHANGED <<scope, lease, proc, token, active, shared, sess, enabled, lifecycle,
                 managed, daemon, slips, faults>>

-----------------------------------------------------------------------------
(* shutdown: tokens, the loop, the sessions, then every browser; requests   *)
(* already accepted are only waited for after that.                         *)

ShutdownBegin ==
  /\ daemon = "running" /\ daemon' = "stopping"
  /\ token' = [l \in Leases |-> "none"]
  /\ Go("main", [pc |-> "join"])
  /\ UNCHANGED <<scope, lease, proc, active, shared, sess, enabled, locks, slips, faults>>

ShutdownSessions ==
  /\ th["main"].pc = "join" /\ th["loop"] = Idle /\ managed = "free"
  /\ managed' = "main"
  /\ Go("main", [pc |-> "ending", ending |-> {s \in Sessions : sess[s] = "live"}])
  /\ sess' = [s \in Sessions |-> "ended"]
  /\ UNCHANGED <<scope, lease, proc, token, active, shared, enabled, lifecycle, mgr,
                 daemon, slips, faults>>

\* terminate_all ignores what terminate returns: a process out of its reach is
\* given up as well.
TerminateAll ==
  /\ th["main"].pc = "terminate" /\ mgr = "free"
  /\ LET held == {l \in Leases : Exists(l) /\ lease[l].child = "held"} IN
     \E left \in SUBSET {l \in held : OutOfReach(l)} :
       /\ faults + Cardinality(left) =< MaxFaults /\ faults' = faults + Cardinality(left)
       /\ proc' = [l \in Leases |-> IF l \in held \ left THEN "gone" ELSE proc[l]]
       /\ slips' = slips \cup {<<"unkillable", l>> : l \in left}
  /\ lease' = [l \in Leases |-> IF Exists(l) THEN [lease[l] EXCEPT !.child = "none"] ELSE NoLease]
  /\ daemon' = "stopped" /\ Go("main", [pc |-> "stopped"])
  /\ UNCHANGED <<scope, token, active, shared, sess, enabled, locks>>

-----------------------------------------------------------------------------
EnsureStep ==
  \/ EnsureVerify \/ EnsureLock \/ EnsureShared \/ EnsureUnshare \/ EnsureAttach
  \/ EnsureInsert \/ EnsureOwn \/ EnsureDisown \/ EnsureFinish \/ EnsureRecord \/ EnsureShare
  \/ \E l \in Leases, o \in LaunchOutcomes : EnsureLaunch(l, o)

\* A request reaches the daemon.
Request ==
  /\ requests < MaxRequests /\ requests' = requests + 1
  /\ \/ \E s \in Sessions : EnsureBegin(s)
     \/ \E t \in Admins :
          \/ \E why \in {"reload", "disable"} : CleanupBegin(t, why)
          \/ EnableProfile(t) \/ AdminAccept(t)
          \/ \E S \in SUBSET Sessions : EndSessions(t, S)

AdminStep(t) ==
  \/ DrainActive(t) \/ RemoveShared(t) \/ CleanupEnd(t) \/ FindLive(t)
  \/ \E l \in Leases : KillOne(t, l)
  \/ \E l \in Leases, o \in LaunchOutcomes : AdminLaunch(t, l, o)

EndStep(t) ==
  \/ \E s \in Sessions : EndDetach(t, s)
  \/ DetachSession(t) \/ EndKill(t) \/ EndDone(t)

LoopStep ==
  \/ CheckExits \/ LoopForgetShared \/ CheckExpired \/ LoopExpired \/ LoopEnd
  \/ \E l \in Leases : LoopForget(l) \/ ExpireOne(l)
  \/ \E S \in SUBSET Sessions : EndSessions("loop", S)

MainStep == ShutdownBegin \/ ShutdownSessions \/ TerminateAll

Next ==
  \/ Request
  \/ /\ UNCHANGED requests
     /\ \/ \E l \in Leases : BrowserExits(l) \/ DeadlinePasses(l) \/ ActivateAfterAssertion(l)
        \/ EnsureStep \/ LoopStep \/ MainStep
        \/ \E t \in Admins : AdminStep(t)
        \/ \E t \in Threads : EndStep(t)

Spec == Init /\ [][Next]_vars

-----------------------------------------------------------------------------
(* Properties.                                                              *)

\* The leases that a thread has in hand, or a session that still points to them.
InHand ==
  {l \in Leases : \E t \in Threads :
    \/ th[t].pc \in {"attach", "insert", "finish", "record", "share", "kill"} /\ th[t].l = l
    \/ th[t].pc \in {"unshare", "killall"} /\ t \in Admins /\ l \in th[t].todo
    \/ th[t].pc \in {"ending", "detach", "kill"} /\ \E s \in th[t].ending : active[s] = l
    \/ th[t].pc = "detach" /\ shared.lease = l}

\* The exceptions, named by their cause: a launch that lost the process it had
\* spawned (browser.rs:835, 868), a process that outlived the signals, a browser
\* that a request launched while its profile was disabled (runtime.rs:4029), one
\* an administrator's request launched after terminate_all, and one that runs when
\* a request finds its shared browser's entry gone and the daemon aborts
\* (browser_ensure.rs:163).
Excused(l) ==
  \E why \in {"stray", "unkillable", "disabled", "late", "panic"} : <<why, l>> \in slips
Running == {l \in Leases : proc[l] = "running" /\ ~Excused(l)}

\* A browser that runs is on a lease that holds its child process, and, when a
\* principal launched it, belongs to a live session, is in some thread's hands
\* or is past its deadline; after a shutdown none runs.
BrowsersAreOwned ==
  \A l \in Running :
    /\ Exists(l) /\ lease[l].child = "held" /\ daemon # "stopped"
    /\ \/ lease[l].by = "admin" \/ lease[l].due = "yes" \/ l \in InHand
       \/ \E s \in Sessions : active[s] = l /\ sess[s] = "live"

\* The signing token of a browser is gone when its lease is: whatever thread
\* drops the lease has revoked the token in the same hold of browser_manager
\* or before, and none is bound afterwards.
TokensDieWithLease ==
  \A l \in Leases : token[l] = "signing" =>
    Exists(l) /\ (lease[l].state \in LiveStates \/ th["loop"].pc \in {"exits", "forget", "expire", "expired"})

-----------------------------------------------------------------------------
(* The inductive invariant behind the two, in parts.                        *)

\* Which threads hold which lock, and that a request's session stays managed
\* as long as the request holds managed_sessions.
AtWork == {"shared", "attach", "unshare", "insert", "own", "disown", "launch", "finish",
           "record", "share"}
Looping == {"exits", "forget", "expire", "expired"}
LocksHeld ==
  /\ th[P].pc \in AtWork => mgr = P /\ lifecycle = P
  /\ th[P].pc \in AtWork \cup {"verified"} => managed = P
  /\ th[P].pc \in AtWork \cup {"verified"} => sess[th[P].s] = "live"
  /\ th["loop"].pc \in Looping => mgr = "loop"
  /\ \A t \in Admins : th[t].pc = "adminlaunch" => mgr = t
  /\ \A t \in Threads : th[t].pc \in {"detach", "kill"} => lifecycle = t
  /\ daemon = "running" => th["main"] = Idle
  /\ th["main"].pc \in {"ending", "detach", "kill"} => managed = "main"

\* Whatever names a browser names one that was spawned: a launch never takes
\* the id of another.
Known ==
  /\ \A l \in Leases : proc[l] = "unborn" => lease[l] = NoLease /\ token[l] = "none"
  /\ \A s \in Sessions : active[s] # None => proc[active[s]] # "unborn"
  /\ shared.lease # None => proc[shared.lease] # "unborn"
  /\ \A t \in Threads : th[t].pc = "kill" => proc[th[t].l] # "unborn"
  /\ th[P].pc \in {"attach", "insert", "finish", "record", "share"} => proc[th[P].l] # "unborn"

\* Who drops a lease has taken its signing token away, and a lease that the loop
\* found over still has its token only until the loop gets to it.
TokensTaken ==
  /\ \A t \in Threads : th[t].pc = "kill" => token[th[t].l] # "signing"
  /\ th["loop"].pc = "forget" => token[th["loop"].l] # "signing"
  /\ \A l \in Leases : token[l] = "signing" /\ lease[l].state \notin LiveStates =>
       \/ th["loop"].pc \in {"exits", "forget", "expired"} /\ l \in th["loop"].todo
       \/ th["loop"].pc = "expire" /\ l \in th["loop"].over
  /\ th["loop"].pc = "expire" =>
       th["loop"].todo \subseteq th["loop"].over /\ \A l \in th["loop"].todo : lease[l] # NoLease
  /\ th[P].pc = "finish" =>
       /\ lease[th[P].l].state = "pending" /\ shared.lease # th[P].l
       /\ \A s \in Sessions : active[s] # th[P].l
       /\ \A t \in Threads : th[t].pc = "kill" => th[t].l # th[P].l

\* The browsers that are over for good, and those that a cleanup will stop.
Ended == {l \in Leases : proc[l] \in {"zombie", "gone"} \/ Excused(l)}
Doomed == {l \in Leases : \E t \in Admins : th[t].pc \in {"unshare", "killall"} /\ l \in th[t].todo}

\* What handle_ensure_browser may rely on at each of its stages.
Ensuring ==
  /\ th[P].pc \in {"launch", "finish", "record"} => active[th[P].s] = None
  /\ th[P].pc \in {"own", "disown", "launch", "finish", "record", "share"} => shared = NoShared
  /\ th[P].pc \in {"attach", "insert"} =>
       \/ shared.lease = th[P].l
       \/ shared.lease = None /\ (th[P].l \in Running => th[P].l \in Doomed)
  /\ th[P].pc = "unshare" /\ shared.lease # None => lease[shared.lease] = NoLease
  /\ th[P].pc = "disown" /\ active[th[P].s] # None => lease[active[th[P].s]] = NoLease
  /\ th[P].pc = "share" /\ th[P].l \in Running => active[th[P].s] = th[P].l \/ th[P].l \in Doomed
  /\ th[P].pc \in {"shared", "attach", "insert", "unshare", "share"} => scope = "profile"
  /\ th[P].pc = "record" => \A s \in Sessions : active[s] # th[P].l
  /\ th[P].pc = "share" => \A s \in Sessions : active[s] = th[P].l => s = th[P].s
  /\ th[P].pc = "insert" /\ shared.lease = th[P].l => th[P].s \in shared.attached

\* Who has the shared browser of a profile, and who leaves it.
Sharing ==
  /\ shared.lease = None <=> shared.attached = {}
  /\ scope = "session" => shared = NoShared /\ \A t \in Threads : th[t].pc # "detach"
  /\ \A s \in Sessions : active[s] \in Running /\ scope = "profile" =>
       \/ shared.lease = active[s] \/ active[s] \in Doomed
       \/ th[P].pc = "share" /\ th[P].l = active[s]
  /\ \A s \in Sessions : active[s] \in Running /\ sess[s] = "ended" =>
       \E t \in Threads : th[t].pc \in {"ending", "detach", "kill"} /\ s \in th[t].ending
  /\ \A s \in shared.attached : shared.lease \in Running =>
       \/ active[s] = shared.lease \/ shared.lease \in Doomed
       \/ th[P].pc = "insert" /\ th[P].s = s /\ th[P].l = shared.lease
       \/ \E t \in Threads : th[t].pc = "detach" /\ th[t].s = s

\* A session on its way out is no longer managed, and one that is to leave the
\* shared browser no longer has it as its own; who has it is attached to it.
Leaving ==
  /\ \A t \in Threads : th[t].pc \in {"ending", "detach", "kill"} =>
       \A s \in th[t].ending : sess[s] = "ended"
  /\ \A t \in Threads : th[t].pc = "detach" => sess[th[t].s] = "ended" /\ active[th[t].s] = None
  /\ \A s \in Sessions : active[s] # None /\ active[s] = shared.lease => s \in shared.attached

\* What the loop has found exited or expired does not run.
LoopEnded ==
  /\ th["loop"].pc \in {"exits", "forget", "expired"} => th["loop"].todo \subseteq Ended
  /\ th["loop"].pc = "forget" => th["loop"].l \in Ended
  /\ th["loop"].pc = "expire" => th["loop"].over \ th["loop"].todo \subseteq Ended

IInv ==
  /\ TypeOK /\ LocksHeld /\ Known /\ TokensTaken /\ Ensuring /\ Sharing /\ Leaving /\ LoopEnded
  /\ TokensDieWithLease /\ BrowsersAreOwned
=============================================================================
