------------------------------- MODULE Grants -------------------------------
(***************************************************************************)
(* Records and pure operations of the delegated-grant registry of one      *)
(* profile (agent/grant.rs, GrantRegistry): grants, the requests they come *)
(* from and the one-shot claims made on them.  A map that has no entry for *)
(* an id holds NoGrant, NoRequest or NoClaim.                              *)
(*                                                                         *)
(* Abstraction.  What a grant covers (RP ids, "*" included, the credential *)
(* set) and what a claim asks for (RP id, credential, action) is one       *)
(* operation of Ops and membership of it: the scope tests of the code are  *)
(* membership tests on normalised values.  Endpoint and principal digest   *)
(* are stored in a grant but no operation that changes state reads them.   *)
(***************************************************************************)
EXTENDS Integers, FiniteSets

CONSTANTS GrantIds, RequestIds, ClaimIds, Sessions, Ops

GrantStates == {"Active", "Revoked", "Expired"}

NoGrant == [state |-> "None"]
Grant == [session : Sessions, ops : SUBSET Ops, gen : Nat, expiry : Nat,
          state : GrantStates]

\* status "open" is resolved = false; "granted" and "cancelled" are resolved.
NoRequest == [status |-> "None"]
Request == [session : Sessions, ops : SUBSET Ops, ttl : Nat,
            status : {"open", "granted", "cancelled"}]

NoClaim == [consumed |-> "None"]
Claim == [grant : GrantIds, op : Ops, consumed : {"no", "yes"}]

GrantMap == [GrantIds -> Grant \cup {NoGrant}]
RequestMap == [RequestIds -> Request \cup {NoRequest}]
ClaimMap == [ClaimIds -> Claim \cup {NoClaim}]

\* try_transition: compare-and-exchange on the grant's atomic state.
TryTransition(g, from, to) ==
  IF g.state = from THEN [g EXCEPT !.state = to] ELSE g

ActiveGrants(grants) == {g \in GrantIds : grants[g].state = "Active"}

\* Mutant: a clock regression or reload revokes nothing.
FailClosedNothing(grants) == grants

\* fail_closed_all
FailClosedAll(grants) ==
  [g \in GrantIds |-> TryTransition(grants[g], "Active", "Revoked")]

\* Mutant: the expiry instant itself is still inside the TTL.
CheckExpiredLate(grants, now) ==
  [g \in GrantIds |-> IF grants[g].state = "Active" /\ now > grants[g].expiry
                      THEN TryTransition(grants[g], "Active", "Expired")
                      ELSE grants[g]]

\* check_expired
CheckExpired(grants, now) ==
  [g \in GrantIds |-> IF grants[g].state = "Active" /\ now >= grants[g].expiry
                      THEN TryTransition(grants[g], "Active", "Expired")
                      ELSE grants[g]]

\* Mutant: the expiry is taken early by an unchecked subtraction.
ClampTtlUnderflow(requested, max) == requested - 2

\* clamp_ttl with MIN_TTL_SECS = 1
ClampTtl(requested, max) ==
  IF requested < 1 THEN 1 ELSE IF requested > max THEN max ELSE requested

NewGrant(req, gen, max, now) ==
  [session |-> req.session, ops |-> req.ops, gen |-> gen,
   expiry |-> now + ClampTtl(req.ttl, max), state |-> "Active"]

\* The grant part of on_principal_exit.
RevokeSession(grants, s) ==
  [g \in GrantIds |-> IF grants[g].state = "Active" /\ grants[g].session = s
                      THEN TryTransition(grants[g], "Active", "Revoked")
                      ELSE grants[g]]

\* The pending_requests.retain of on_principal_exit.
DropRequests(requests, s) ==
  [q \in RequestIds |-> IF requests[q] # NoRequest /\ requests[q].session = s
                        THEN NoRequest ELSE requests[q]]

\* The claims.retain of on_principal_exit, run after the grants were revoked:
\* a claim is dropped only when its grant is the session's and still Active.
RetainAfterExit(claims, grants, s) ==
  [c \in ClaimIds |->
     IF /\ claims[c] # NoClaim
        /\ \/ grants[claims[c].grant] = NoGrant
           \/ /\ grants[claims[c].grant].session = s
              /\ grants[claims[c].grant].state = "Active"
     THEN NoClaim ELSE claims[c]]

\* cancel_claims_for_session
CancelClaimsForSession(claims, grants, s) ==
  [c \in ClaimIds |->
     IF claims[c] # NoClaim
        /\ (grants[claims[c].grant] = NoGrant \/ grants[claims[c].grant].session = s)
     THEN NoClaim ELSE claims[c]]

\* cancel_claims_for_grant
CancelClaimsForGrant(claims, g) ==
  [c \in ClaimIds |-> IF claims[c] # NoClaim /\ claims[c].grant = g
                      THEN NoClaim ELSE claims[c]]

\* The checks of claim_for_authorize after check_clock and check_expired.
ClaimAllowed(grants, g, s, op, gen, allowed) ==
  /\ grants[g].state = "Active"
  /\ grants[g].session = s
  /\ grants[g].gen = gen
  /\ op \in grants[g].ops
  /\ op \in allowed
=============================================================================
