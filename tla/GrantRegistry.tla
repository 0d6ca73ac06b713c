--------------------------- MODULE GrantRegistry ---------------------------
(***************************************************************************)
(* The delegated-grant registry of one profile (agent/grant.rs) as a state *)
(* machine.  Each operation runs under the registry's Mutex, so it is one  *)
(* action.  The clock normally advances, but the code defends against a    *)
(* reading below the last one it saw (check_clock), so Regress is an       *)
(* action of the environment.                                              *)
(*                                                                         *)
(* issued, distrusted and exited are history variables.                    *)
(***************************************************************************)
EXTENDS Grants

CONSTANTS MaxConcurrent,  \* max_concurrent_grants
          MaxTtl,         \* max_ttl_secs of the policy snapshot
          Ttls,           \* TTLs that are asked for, refused ones included
          Requestable,    \* the sets of operations that are asked for
          MaxTime, MaxGen \* bounds on the clock and on reloads (model only)

ASSUME MaxConcurrentAssumption == MaxConcurrent \in Nat
ASSUME MaxTtlAssumption == MaxTtl \in Nat \ {0}
ASSUME GrantTtlsAssumption == Ttls \subseteq Nat
ASSUME RequestableAssumption == Requestable \subseteq SUBSET Ops

VARIABLES grants, requests, claims,   \* the three HashMaps
          gen,         \* policy_generation
          allowed,     \* allowed_actions of the current generation
          lastSeen,    \* last_seen_mono
          now,         \* Clock::monotonic_secs
          minted,      \* ids handed out (they are random and never repeat)
          issued,      \* request -> the grants created for it
          distrusted,  \* grants that were active when the clock went back
          exited       \* sessions whose principal is gone

maps == <<grants, requests, claims>>
policy == <<gen, allowed>>
history == <<issued, distrusted, exited>>
vars == <<maps, policy, lastSeen, now, minted, history>>

AllIds == GrantIds \cup RequestIds \cup ClaimIds

TypeOK ==
  /\ grants \in GrantMap /\ requests \in RequestMap /\ claims \in ClaimMap
  /\ gen \in Nat /\ allowed \in SUBSET Ops
  /\ lastSeen \in Nat /\ now \in Nat
  /\ minted \subseteq AllIds
  /\ issued \in [RequestIds -> SUBSET GrantIds]
  /\ distrusted \subseteq GrantIds /\ exited \subseteq Sessions

Init ==
  /\ grants = [g \in GrantIds |-> NoGrant]
  /\ requests = [q \in RequestIds |-> NoRequest]
  /\ claims = [c \in ClaimIds |-> NoClaim]
  /\ gen = 0 /\ allowed \in SUBSET Ops
  /\ lastSeen = 0 /\ now = 0 /\ minted = {}
  /\ issued = [q \in RequestIds |-> {}]
  /\ distrusted = {} /\ exited = {}

\* The environment's clock, forwards and (unexpectedly) backwards.
Tick == /\ now < MaxTime /\ now' = now + 1
        /\ UNCHANGED <<maps, policy, lastSeen, minted, history>>

Regress == /\ now > 0 /\ now' = now - 1
           /\ UNCHANGED <<maps, policy, lastSeen, minted, history>>

\* check_clock failing: every active grant is revoked, the call errs.
ClockAmbiguity ==
  /\ now < lastSeen
  /\ grants' = FailClosedAll(grants)
  /\ distrusted' = distrusted \cup ActiveGrants(grants)
  /\ UNCHANGED <<requests, claims, policy, lastSeen, now, minted, issued, exited>>

\* check_clock succeeding.
ClockOk == now >= lastSeen /\ lastSeen' = now

\* request_grant (dynamic = FALSE refuses an empty credential set) and
\* request_dynamic_grant.
RequestGrant(s, ops, ttl, dynamic) ==
  \/ ClockAmbiguity
  \/ /\ ClockOk
     /\ IF (dynamic \/ ops # {}) /\ ttl > 0 /\ ttl <= MaxTtl
        THEN \E q \in RequestIds \ minted :
               /\ requests' = [requests EXCEPT ![q] =
                    [session |-> s, ops |-> ops, ttl |-> ttl, status |-> "open"]]
               /\ minted' = minted \cup {q}
        ELSE UNCHANGED <<requests, minted>>
     /\ UNCHANGED <<grants, claims, policy, now, history>>

\* Mutant: the request stays open after its approval.
ApproveGrantKeepOpen(q) ==
  \/ ClockAmbiguity
  \/ /\ ClockOk
     /\ requests[q].status = "open"
     /\ Cardinality(ActiveGrants(grants)) < MaxConcurrent
     /\ \E g \in GrantIds \ minted :
          /\ grants' = [grants EXCEPT ![g] = NewGrant(requests[q], gen, MaxTtl, now)]
          /\ minted' = minted \cup {g}
          /\ issued' = [issued EXCEPT ![q] = @ \cup {g}]
     /\ UNCHANGED <<requests, claims, policy, now, distrusted, exited>>

\* Mutant: one grant too many (> instead of >=).
ApproveGrantOffByOne(q) ==
  /\ ClockOk
  /\ requests[q].status = "open"
  /\ Cardinality(ActiveGrants(grants)) <= MaxConcurrent
  /\ \E g \in GrantIds \ minted :
       /\ grants' = [grants EXCEPT ![g] = NewGrant(requests[q], gen, MaxTtl, now)]
       /\ requests' = [requests EXCEPT ![q].status = "granted"]
       /\ minted' = minted \cup {g}
       /\ issued' = [issued EXCEPT ![q] = @ \cup {g}]
  /\ UNCHANGED <<claims, policy, now, distrusted, exited>>

\* approve_grant: unknown or resolved requests and a full registry err after
\* check_clock.  Overdue grants that no check_expired has visited still count.
ApproveGrant(q) ==
  \/ ClockAmbiguity
  \/ /\ ClockOk
     /\ IF requests[q].status = "open" /\ Cardinality(ActiveGrants(grants)) < MaxConcurrent
        THEN \E g \in GrantIds \ minted :
               /\ grants' = [grants EXCEPT ![g] = NewGrant(requests[q], gen, MaxTtl, now)]
               /\ requests' = [requests EXCEPT ![q].status = "granted"]
               /\ minted' = minted \cup {g}
               /\ issued' = [issued EXCEPT ![q] = @ \cup {g}]
        ELSE UNCHANGED <<grants, requests, minted, issued>>
     /\ UNCHANGED <<claims, policy, now, distrusted, exited>>

RevokeGrant(g) ==
  /\ grants[g].state = "Active"
  /\ grants' = [grants EXCEPT ![g] = TryTransition(@, "Active", "Revoked")]
  /\ UNCHANGED <<requests, claims, policy, lastSeen, now, minted, history>>

CancelRequest(q) ==
  /\ requests[q].status = "open"
  /\ requests' = [requests EXCEPT ![q].status = "cancelled"]
  /\ UNCHANGED <<grants, claims, policy, lastSeen, now, minted, history>>

\* on_policy_reload: the new generation may allow other actions.
OnPolicyReload ==
  /\ gen < MaxGen
  /\ grants' = FailClosedAll(grants)
  /\ gen' = gen + 1
  /\ allowed' \in SUBSET Ops
  /\ requests' = [q \in RequestIds |-> NoRequest]
  /\ claims' = [c \in ClaimIds |-> NoClaim]
  /\ UNCHANGED <<lastSeen, now, minted, history>>

\* Mutant: the session's open requests survive its exit.
OnPrincipalExitKeepingRequests(s) ==
  /\ grants' = RevokeSession(grants, s)
  /\ claims' = RetainAfterExit(claims, RevokeSession(grants, s), s)
  /\ exited' = exited \cup {s}
  /\ UNCHANGED <<requests, policy, lastSeen, now, minted, issued, distrusted>>

OnPrincipalExit(s) ==
  /\ grants' = RevokeSession(grants, s)
  /\ requests' = DropRequests(requests, s)
  /\ claims' = RetainAfterExit(claims, RevokeSession(grants, s), s)
  /\ exited' = exited \cup {s}
  /\ UNCHANGED <<policy, lastSeen, now, minted, issued, distrusted>>

\* on_daemon_restart
OnDaemonRestart ==
  /\ grants' = [g \in GrantIds |-> NoGrant]
  /\ requests' = [q \in RequestIds |-> NoRequest]
  /\ claims' = [c \in ClaimIds |-> NoClaim]
  /\ lastSeen' = 0
  /\ UNCHANGED <<policy, now, minted, history>>

ExpireSweep ==
  /\ grants' = CheckExpired(grants, now)
  /\ UNCHANGED <<requests, claims, policy, lastSeen, now, minted, history>>

\* claim_for_authorize: the sweep stays even when the claim is refused.
ClaimForAuthorize(g, s, op) ==
  \/ ClockAmbiguity
  \/ LET swept == CheckExpired(grants, now) IN
     /\ ClockOk
     /\ grants' = swept
     /\ IF ClaimAllowed(swept, g, s, op, gen, allowed)
        THEN \E c \in ClaimIds \ minted :
               /\ claims' = [claims EXCEPT ![c] = [grant |-> g, op |-> op, consumed |-> "no"]]
               /\ minted' = minted \cup {c}
        ELSE UNCHANGED <<claims, minted>>
     /\ UNCHANGED <<requests, policy, now, history>>

\* consume_claim_by_ceremony / try_consume
ConsumeClaim(c) ==
  /\ claims[c].consumed = "no"
  /\ claims' = [claims EXCEPT ![c].consumed = "yes"]
  /\ UNCHANGED <<grants, requests, policy, lastSeen, now, minted, issued, distrusted, exited>>

CancelClaim(c) ==
  /\ claims' = [claims EXCEPT ![c] = NoClaim]
  /\ UNCHANGED <<grants, requests, policy, lastSeen, now, minted, history>>

CancelSessionClaims(s) ==
  /\ claims' = CancelClaimsForSession(claims, grants, s)
  /\ UNCHANGED <<grants, requests, policy, lastSeen, now, minted, history>>

CancelGrantClaims(g) ==
  /\ claims' = CancelClaimsForGrant(claims, g)
  /\ UNCHANGED <<grants, requests, policy, lastSeen, now, minted, history>>

\* Only live principals ask for grants and claims; session ids are random
\* and an exited session's id never comes back.
Next ==
  \/ Tick \/ Regress
  \/ \E s \in Sessions \ exited, ops \in Requestable, ttl \in Ttls, dynamic \in BOOLEAN :
       RequestGrant(s, ops, ttl, dynamic)
  \/ \E q \in RequestIds : ApproveGrant(q) \/ CancelRequest(q)
  \/ \E g \in GrantIds : RevokeGrant(g) \/ CancelGrantClaims(g)
  \/ OnPolicyReload \/ OnDaemonRestart \/ ExpireSweep
  \/ \E s \in Sessions : OnPrincipalExit(s) \/ CancelSessionClaims(s)
  \/ \E g \in GrantIds, s \in Sessions \ exited, op \in Ops : ClaimForAuthorize(g, s, op)
  \/ \E c \in ClaimIds : ConsumeClaim(c) \/ CancelClaim(c)

Spec == Init /\ [][Next]_vars

-----------------------------------------------------------------------------
(* Properties *)

\* One approval, one grant: no order of approvals, cancellations, exits and
\* clock failures turns one request into two grants.
OneGrantPerRequest == \A q \in RequestIds : Cardinality(issued[q]) <= 1

\* max_concurrent_grants bounds the active grants.
WithinConcurrentLimit == Cardinality(ActiveGrants(grants)) <= MaxConcurrent

\* fail_closed_all: a grant that was active when the clock was seen to go
\* backwards never authorises anything again.
DistrustedStayDead ==
  \A g \in distrusted : grants[g].state \in {"None", "Revoked"}

\* A principal that is gone holds no active grant and no request that an
\* administrator could still approve.
ExitedHoldNothing ==
  \A s \in exited :
    /\ \A g \in ActiveGrants(grants) : grants[g].session # s
    /\ \A q \in RequestIds : requests[q].status = "open" => requests[q].session # s

\* A claim is only ever made on a grant that is active, in time by the clock
\* the registry reads, and owned by a principal that is still there.
ClaimsOnlyOnLiveGrants ==
  [][\A c \in ClaimIds :
       (claims[c] = NoClaim /\ claims'[c] # NoClaim)
         => LET g == grants[claims'[c].grant] IN
            /\ g.state = "Active"
            /\ now < g.expiry
            /\ g.session \notin exited
            /\ claims'[c].op \in g.ops \cap allowed]_vars

\* What ended stays ended: neither a grant the clock discredited nor anything
\* a principal that is gone had comes back, whatever is asked afterwards.
EndedHoldNothing == DistrustedStayDead /\ ExitedHoldNothing

\* The inductive invariant behind these: an id that was never handed out names
\* nothing, so a new grant or request is no earlier one; a request that gave a
\* grant is not open; and the active grants are finitely many.
FreshIds ==
  /\ \A g \in GrantIds \ minted : grants[g] = NoGrant
  /\ \A q \in RequestIds \ minted : requests[q] = NoRequest /\ issued[q] = {}
  /\ distrusted \subseteq minted

IssuedOnce ==
  \A q \in RequestIds :
    \/ issued[q] = {}
    \/ requests[q].status # "open" /\ \E g \in GrantIds : issued[q] = {g}

IInv ==
  /\ TypeOK /\ FreshIds /\ IssuedOnce /\ EndedHoldNothing
  /\ IsFiniteSet(ActiveGrants(grants)) /\ WithinConcurrentLimit
=============================================================================
