------------------------ MODULE GrantRegistryProofs ------------------------
(***************************************************************************)
(* Proofs about the delegated-grant registry, for every set of ids,        *)
(* sessions and operations, every limit and every TTL, with a clock that   *)
(* may go backwards at any time.                                           *)
(***************************************************************************)
EXTENDS GrantRegistry, FiniteSetTheorems, TLAPS

\* What an operation may do to a grant other than issue it: leave it, drop it,
\* or end one that was active.
Ends(old, new) ==
  \/ new = old
  \/ new = NoGrant
  \/ /\ old \in Grant /\ new \in Grant
     /\ old.state = "Active" /\ new.state # "Active"
     /\ new.session = old.session

\* try_transition from Active ends a grant or leaves it.
LEMMA TryTransitionEnds ==
  ASSUME NEW g \in Grant \cup {NoGrant}, NEW to \in {"Revoked", "Expired"}
  PROVE  /\ TryTransition(g, "Active", to) \in Grant \cup {NoGrant}
         /\ Ends(g, TryTransition(g, "Active", to))
         /\ TryTransition(g, "Active", to).state # "Active"
BY DEF TryTransition, Ends, Grant, GrantStates, NoGrant

\* fail_closed_all ends every active grant, and revokes it.
LEMMA FailClosedAllEnds ==
  ASSUME NEW gs \in GrantMap
  PROVE  /\ FailClosedAll(gs) \in GrantMap
         /\ \A g \in GrantIds : /\ Ends(gs[g], FailClosedAll(gs)[g])
                                /\ FailClosedAll(gs)[g].state # "Active"
                                /\ gs[g].state = "Active" => FailClosedAll(gs)[g].state = "Revoked"
<1>1. \A g \in GrantIds : gs[g] \in Grant \cup {NoGrant}
  BY DEF GrantMap
<1>2. \A g \in GrantIds : FailClosedAll(gs)[g] = TryTransition(gs[g], "Active", "Revoked")
  BY DEF FailClosedAll
<1>3. \A g \in GrantIds : gs[g].state = "Active" => FailClosedAll(gs)[g].state = "Revoked"
  BY <1>1, <1>2 DEF TryTransition, Grant, NoGrant
<1> QED BY <1>1, <1>2, <1>3, TryTransitionEnds DEF FailClosedAll, GrantMap

\* check_expired ends active grants and leaves the others; one that is active
\* afterwards was so before and is in time.
LEMMA CheckExpiredEnds ==
  ASSUME NEW gs \in GrantMap, NEW t \in Nat
  PROVE  /\ CheckExpired(gs, t) \in GrantMap
         /\ \A g \in GrantIds :
              /\ Ends(gs[g], CheckExpired(gs, t)[g])
              /\ CheckExpired(gs, t)[g].state = "Active"
                   => CheckExpired(gs, t)[g] = gs[g] /\ t < gs[g].expiry
<1>1. \A g \in GrantIds : gs[g] \in Grant \cup {NoGrant}
  BY DEF GrantMap
<1>2. \A g \in GrantIds :
        CheckExpired(gs, t)[g] = IF gs[g].state = "Active" /\ t >= gs[g].expiry
                                 THEN TryTransition(gs[g], "Active", "Expired")
                                 ELSE gs[g]
  BY DEF CheckExpired
<1>3. ASSUME NEW g \in GrantIds
      PROVE  /\ CheckExpired(gs, t)[g] \in Grant \cup {NoGrant}
             /\ Ends(gs[g], CheckExpired(gs, t)[g])
             /\ CheckExpired(gs, t)[g].state = "Active"
                   => CheckExpired(gs, t)[g] = gs[g] /\ t < gs[g].expiry
  <2>1. CASE gs[g].state = "Active" /\ t >= gs[g].expiry
    BY <1>1, <1>2, <2>1, TryTransitionEnds
  <2>2. CASE ~(gs[g].state = "Active" /\ t >= gs[g].expiry)
    <3>1. CheckExpired(gs, t)[g] = gs[g]
      BY <1>2, <2>2
    <3>2. gs[g].state = "Active" => gs[g].expiry \in Nat
      BY <1>1 DEF Grant, NoGrant
    <3> QED BY <1>1, <2>2, <3>1, <3>2 DEF Ends
  <2> QED BY <2>1, <2>2
<1> QED BY <1>3 DEF CheckExpired, GrantMap

\* on_principal_exit ends the grants of the session and leaves the others.
LEMMA RevokeSessionEnds ==
  ASSUME NEW gs \in GrantMap, NEW s \in Sessions
  PROVE  /\ RevokeSession(gs, s) \in GrantMap
         /\ \A g \in GrantIds : /\ Ends(gs[g], RevokeSession(gs, s)[g])
                                /\ RevokeSession(gs, s)[g].state = "Active"
                                     => RevokeSession(gs, s)[g].session # s
<1>1. \A g \in GrantIds : gs[g] \in Grant \cup {NoGrant}
  BY DEF GrantMap
<1>2. \A g \in GrantIds :
        RevokeSession(gs, s)[g] = IF gs[g].state = "Active" /\ gs[g].session = s
                                  THEN TryTransition(gs[g], "Active", "Revoked")
                                  ELSE gs[g]
  BY DEF RevokeSession
<1>3. ASSUME NEW g \in GrantIds
      PROVE  /\ RevokeSession(gs, s)[g] \in Grant \cup {NoGrant}
             /\ Ends(gs[g], RevokeSession(gs, s)[g])
             /\ RevokeSession(gs, s)[g].state = "Active"
                  => RevokeSession(gs, s)[g].session # s
  BY <1>1, <1>2, TryTransitionEnds DEF Ends
<1> QED BY <1>3 DEF RevokeSession, GrantMap

\* A step that issues nothing: every grant stays or ends, every request stays,
\* is closed or is dropped.
Settles(old, new) ==
  \/ new = old
  \/ new = NoRequest
  \/ /\ old \in Request /\ new \in Request
     /\ old.status = "open" /\ new.status # "open"

\* The active grants of a map whose grants stay or end are among the old ones.
LEMMA EndsActive ==
  ASSUME NEW old \in GrantMap, NEW new \in GrantMap,
         \A g \in GrantIds : Ends(old[g], new[g]),
         IsFiniteSet(ActiveGrants(old)), Cardinality(ActiveGrants(old)) <= MaxConcurrent
  PROVE  /\ ActiveGrants(new) \subseteq ActiveGrants(old)
         /\ \A g \in ActiveGrants(new) : new[g] = old[g]
         /\ IsFiniteSet(ActiveGrants(new))
         /\ Cardinality(ActiveGrants(new)) <= MaxConcurrent
<1>1. ASSUME NEW g \in GrantIds, new[g].state = "Active"
      PROVE  new[g] = old[g] /\ old[g].state = "Active"
  BY <1>1 DEF Ends, NoGrant
<1>2. ActiveGrants(new) \subseteq ActiveGrants(old)
  BY <1>1 DEF ActiveGrants
<1>3. \A g \in ActiveGrants(new) : new[g] = old[g]
  BY <1>1 DEF ActiveGrants
<1>4. /\ IsFiniteSet(ActiveGrants(new))
      /\ Cardinality(ActiveGrants(new)) <= Cardinality(ActiveGrants(old))
  BY <1>2, FS_Subset
<1>5. Cardinality(ActiveGrants(new)) \in Nat /\ Cardinality(ActiveGrants(old)) \in Nat
  BY <1>4, FS_CardinalityType
<1> QED BY <1>2, <1>3, <1>4, <1>5, MaxConcurrentAssumption

\* A step that only ends grants and closes requests, and mints at most ids of
\* claims, preserves the inductive invariant.
LEMMA EndingStep ==
  ASSUME IInv, TypeOK',
         \A g \in GrantIds : Ends(grants[g], grants'[g]),
         \A q \in RequestIds : Settles(requests[q], requests'[q]),
         minted \subseteq minted', UNCHANGED <<issued, distrusted, exited>>
  PROVE  IInv'
<1> USE DEF IInv
<1>1. grants \in GrantMap /\ grants' \in GrantMap
  BY DEF TypeOK
<1>2. /\ ActiveGrants(grants') \subseteq ActiveGrants(grants)
      /\ \A g \in ActiveGrants(grants') : grants'[g] = grants[g]
      /\ IsFiniteSet(ActiveGrants(grants'))
      /\ Cardinality(ActiveGrants(grants')) <= MaxConcurrent
  BY <1>1, EndsActive DEF WithinConcurrentLimit
<1>3. FreshIds'
  <2>1. ASSUME NEW g \in GrantIds, g \notin minted' PROVE grants'[g] = NoGrant
    <3>1. grants[g] = NoGrant
      BY <2>1 DEF FreshIds
    <3> QED BY <3>1 DEF Ends, NoGrant
  <2>2. ASSUME NEW q \in RequestIds, q \notin minted'
        PROVE  requests'[q] = NoRequest /\ issued'[q] = {}
    <3>1. requests[q] = NoRequest /\ issued[q] = {}
      BY <2>2 DEF FreshIds
    <3> QED BY <3>1 DEF Settles, NoRequest
  <2> QED BY <2>1, <2>2 DEF FreshIds
<1>4. IssuedOnce'
  <2>1. ASSUME NEW q \in RequestIds, requests'[q].status = "open"
        PROVE  requests[q].status = "open"
    BY <2>1 DEF Settles, NoRequest
  <2> QED BY <2>1 DEF IssuedOnce
<1>5. DistrustedStayDead'
  <2>1. ASSUME NEW g \in distrusted PROVE grants'[g].state \in {"None", "Revoked"}
    <3>1. g \in GrantIds /\ grants[g].state \in {"None", "Revoked"}
      BY DEF TypeOK, EndedHoldNothing, DistrustedStayDead
    <3> QED BY <3>1 DEF Ends, NoGrant
  <2> QED BY <2>1 DEF DistrustedStayDead
<1>6. ExitedHoldNothing'
  <2>1. ASSUME NEW q \in RequestIds, requests'[q].status = "open"
        PROVE  requests'[q] = requests[q]
    BY <2>1 DEF Settles, NoRequest
  <2> QED BY <1>2, <2>1 DEF ExitedHoldNothing, EndedHoldNothing
<1> QED BY <1>2, <1>3, <1>4, <1>5, <1>6 DEF EndedHoldNothing, WithinConcurrentLimit

\* check_clock that fails: what was active is revoked and distrusted.
LEMMA ClockAmbiguityInv == ASSUME IInv, ClockAmbiguity PROVE IInv'
<1> USE DEF IInv
<1> DEFINE gs == FailClosedAll(grants)
<1>1. grants \in GrantMap /\ ActiveGrants(grants) \subseteq GrantIds
  BY DEF TypeOK, ActiveGrants
<1>2. /\ gs \in GrantMap
      /\ \A g \in GrantIds : Ends(grants[g], gs[g]) /\ gs[g].state # "Active"
      /\ \A g \in GrantIds : grants[g].state = "Active" => gs[g].state = "Revoked"
  BY <1>1, FailClosedAllEnds
<1>3. grants' = gs /\ UNCHANGED <<requests, claims, gen, allowed, lastSeen, now, minted, issued, exited>>
  BY DEF ClockAmbiguity, policy
<1>4. TypeOK'
  BY <1>1, <1>2, <1>3 DEF TypeOK, ClockAmbiguity
<1>5. ActiveGrants(grants') = {}
  BY <1>2, <1>3 DEF ActiveGrants
<1>6. IsFiniteSet(ActiveGrants(grants')) /\ Cardinality(ActiveGrants(grants')) <= MaxConcurrent
  BY <1>5, FS_EmptySet, MaxConcurrentAssumption
<1>7. DistrustedStayDead'
  <2>1. ASSUME NEW g \in distrusted PROVE gs[g].state \in {"None", "Revoked"}
    <3>1. g \in GrantIds /\ grants[g].state \in {"None", "Revoked"}
      BY DEF TypeOK, EndedHoldNothing, DistrustedStayDead
    <3> QED BY <1>2, <3>1 DEF Ends, NoGrant
  <2>2. \A g \in ActiveGrants(grants) : gs[g].state = "Revoked"
    BY <1>2 DEF ActiveGrants
  <2> QED BY <1>3, <2>1, <2>2 DEF DistrustedStayDead, ClockAmbiguity
<1>8. FreshIds'
  <2>1. ASSUME NEW g \in GrantIds, g \notin minted PROVE gs[g] = NoGrant
    <3>1. grants[g] = NoGrant
      BY <2>1 DEF FreshIds
    <3> QED BY <1>2, <3>1 DEF Ends, NoGrant
  <2>2. ActiveGrants(grants) \subseteq minted
    BY DEF FreshIds, ActiveGrants, NoGrant
  <2> QED BY <1>3, <2>1, <2>2 DEF FreshIds, ClockAmbiguity
<1>9. IssuedOnce' /\ ExitedHoldNothing'
  BY <1>3, <1>5 DEF IssuedOnce, ExitedHoldNothing, EndedHoldNothing
<1> QED BY <1>4, <1>6, <1>7, <1>8, <1>9 DEF EndedHoldNothing, WithinConcurrentLimit

\* request_grant: the request has an id that was never used and a session that
\* is still there.
LEMMA RequestGrantInv ==
  ASSUME IInv, NEW s \in Sessions \ exited, NEW ops \in Requestable, NEW ttl \in Ttls,
         NEW dynamic \in BOOLEAN, RequestGrant(s, ops, ttl, dynamic)
  PROVE  IInv'
<1>1. CASE ClockAmbiguity
  BY <1>1, ClockAmbiguityInv
<1>2. CASE ~ClockAmbiguity
  <2>1. ClockOk /\ UNCHANGED <<grants, claims, gen, allowed, now, issued, distrusted, exited>>
    BY <1>2 DEF RequestGrant, policy, history
  <2>2. CASE UNCHANGED <<requests, minted>>
    <3>1. TypeOK'
      BY <2>1, <2>2 DEF IInv, TypeOK, ClockOk
    <3> QED BY <2>1, <2>2, <3>1, EndingStep DEF Ends, Settles
  <2>3. CASE ~UNCHANGED <<requests, minted>>
    <3>1. PICK q \in RequestIds \ minted :
            /\ requests' = [requests EXCEPT ![q] =
                 [session |-> s, ops |-> ops, ttl |-> ttl, status |-> "open"]]
            /\ minted' = minted \cup {q}
      BY <1>2, <2>3 DEF RequestGrant
    <3> DEFINE r == [session |-> s, ops |-> ops, ttl |-> ttl, status |-> "open"]
    <3>2. r \in Request
      BY GrantTtlsAssumption, RequestableAssumption DEF Request
    <3>3. TypeOK'
      BY <2>1, <3>1, <3>2 DEF IInv, TypeOK, ClockOk, RequestMap, AllIds
    <3>4. requests'[q] = r /\ issued[q] = {} /\ \A p \in RequestIds \ {q} : requests'[p] = requests[p]
      BY <3>1 DEF IInv, TypeOK, RequestMap, FreshIds
    <3>5. FreshIds'
      BY <2>1, <3>1, <3>4 DEF IInv, FreshIds
    <3>6. IssuedOnce'
      BY <2>1, <3>4 DEF IInv, IssuedOnce
    <3>7. ExitedHoldNothing'
      BY <2>1, <3>4 DEF IInv, ExitedHoldNothing, EndedHoldNothing
    <3> QED BY <2>1, <3>3, <3>5, <3>6, <3>7
         DEF IInv, EndedHoldNothing, DistrustedStayDead, WithinConcurrentLimit
  <2> QED BY <2>2, <2>3
<1> QED BY <1>1, <1>2

\* The lifetime of a grant is at least one second and at most the policy's.
LEMMA ClampTtlBounds ==
  ASSUME NEW ttl \in Nat
  PROVE  ClampTtl(ttl, MaxTtl) \in 1 .. MaxTtl
BY MaxTtlAssumption DEF ClampTtl

\* approve_grant: the one step that issues a grant.
LEMMA ApproveGrantInv ==
  ASSUME IInv, NEW q \in RequestIds, ApproveGrant(q)
  PROVE  IInv'
<1> USE DEF IInv
<1>1. CASE ClockAmbiguity
  BY <1>1, ClockAmbiguityInv
<1>2. CASE ~ClockAmbiguity
  <2>1. ClockOk /\ UNCHANGED <<claims, gen, allowed, now, distrusted, exited>>
    BY <1>2 DEF ApproveGrant, policy
  <2>2. CASE ~(requests[q].status = "open" /\ Cardinality(ActiveGrants(grants)) < MaxConcurrent)
    <3>1. UNCHANGED <<grants, requests, minted, issued>>
      BY <1>2, <2>2 DEF ApproveGrant
    <3>2. TypeOK'
      BY <2>1, <3>1 DEF TypeOK, ClockOk
    <3> QED BY <2>1, <3>1, <3>2, EndingStep DEF Ends, Settles
  <2>3. CASE requests[q].status = "open" /\ Cardinality(ActiveGrants(grants)) < MaxConcurrent
    <3> DEFINE n == NewGrant(requests[q], gen, MaxTtl, now)
    <3>1. PICK g \in GrantIds \ minted :
            /\ grants' = [grants EXCEPT ![g] = n]
            /\ requests' = [requests EXCEPT ![q].status = "granted"]
            /\ minted' = minted \cup {g}
            /\ issued' = [issued EXCEPT ![q] = @ \cup {g}]
      BY <1>2, <2>3 DEF ApproveGrant
    <3>2. requests[q] \in Request
      BY <2>3 DEF TypeOK, RequestMap, NoRequest
    <3>3. n \in Grant /\ n.state = "Active" /\ n.session = requests[q].session
      <4>1. requests[q].ttl \in Nat
        BY <3>2 DEF Request
      <4>2. now + ClampTtl(requests[q].ttl, MaxTtl) \in Nat
        BY <4>1, ClampTtlBounds DEF TypeOK
      <4> QED BY <3>2, <4>2 DEF NewGrant, Grant, GrantStates, Request, TypeOK
    <3>4. /\ grants'[g] = n /\ grants[g] = NoGrant
          /\ \A h \in GrantIds \ {g} : grants'[h] = grants[h]
      BY <3>1 DEF TypeOK, GrantMap, FreshIds
    <3>5. /\ requests'[q].status = "granted" /\ requests'[q] \in Request
          /\ \A p \in RequestIds \ {q} : requests'[p] = requests[p]
      BY <3>1, <3>2 DEF TypeOK, RequestMap, Request
    <3>6. issued'[q] = {g} /\ \A p \in RequestIds \ {q} : issued'[p] = issued[p]
      BY <2>3, <3>1 DEF TypeOK, IssuedOnce
    <3>7. TypeOK'
      <4>1. grants' \in GrantMap
        BY <3>1, <3>3 DEF TypeOK, GrantMap
      <4>2. requests' \in RequestMap
        BY <3>1, <3>5 DEF TypeOK, RequestMap
      <4>3. issued' \in [RequestIds -> SUBSET GrantIds]
        BY <3>1 DEF TypeOK
      <4> QED BY <2>1, <3>1, <4>1, <4>2, <4>3 DEF TypeOK, ClockOk, AllIds
    <3>8. ActiveGrants(grants') = ActiveGrants(grants) \cup {g}
      BY <3>3, <3>4 DEF ActiveGrants, NoGrant
    <3>9. g \notin ActiveGrants(grants)
      BY <3>4 DEF ActiveGrants, NoGrant
    <3>10. /\ IsFiniteSet(ActiveGrants(grants'))
           /\ Cardinality(ActiveGrants(grants')) = Cardinality(ActiveGrants(grants)) + 1
      BY <3>8, <3>9, FS_AddElement
    <3>11. Cardinality(ActiveGrants(grants)) \in Nat
      BY FS_CardinalityType
    <3>12. Cardinality(ActiveGrants(grants')) <= MaxConcurrent
      BY <2>3, <3>10, <3>11, MaxConcurrentAssumption
    <3>13. FreshIds'
      <4>1. q \in minted
        BY <3>2 DEF FreshIds, NoRequest, Request
      <4>2. \A p \in RequestIds \ minted' : requests'[p] = NoRequest /\ issued'[p] = {}
        BY <3>1, <3>5, <3>6, <4>1 DEF FreshIds
      <4> QED BY <2>1, <3>1, <3>4, <4>2 DEF FreshIds
    <3>14. IssuedOnce'
      BY <3>5, <3>6 DEF IssuedOnce
    <3>15. DistrustedStayDead'
      <4>1. g \notin distrusted
        BY DEF FreshIds
      <4> QED BY <2>1, <3>4, <4>1 DEF DistrustedStayDead, EndedHoldNothing, TypeOK
    <3>16. ExitedHoldNothing'
      <4>1. n.session \notin exited
        BY <2>3, <3>3 DEF ExitedHoldNothing, EndedHoldNothing
      <4>2. ASSUME NEW h \in ActiveGrants(grants') PROVE grants'[h].session \notin exited
        BY <3>4, <3>8, <4>1, <4>2, h \in GrantIds
          DEF ExitedHoldNothing, EndedHoldNothing, ActiveGrants
      <4>3. ASSUME NEW p \in RequestIds, requests'[p].status = "open"
            PROVE  requests'[p] = requests[p]
        BY <3>5, <4>3
      <4> QED BY <2>1, <4>2, <4>3 DEF ExitedHoldNothing, EndedHoldNothing
    <3> QED BY <3>7, <3>10, <3>12, <3>13, <3>14, <3>15, <3>16
         DEF EndedHoldNothing, WithinConcurrentLimit
  <2> QED BY <2>2, <2>3
<1> QED BY <1>1, <1>2

\* on_principal_exit: what the session had ends before it counts as gone.
LEMMA OnPrincipalExitInv ==
  ASSUME IInv, NEW s \in Sessions, OnPrincipalExit(s)
  PROVE  IInv'
<1> USE DEF IInv
<1> DEFINE gs == RevokeSession(grants, s)
           rs == DropRequests(requests, s)
<1>1. grants \in GrantMap /\ requests \in RequestMap /\ claims \in ClaimMap
  BY DEF TypeOK
<1>2. /\ gs \in GrantMap
      /\ \A g \in GrantIds : /\ Ends(grants[g], gs[g])
                             /\ gs[g].state = "Active" => gs[g].session # s
  BY <1>1, RevokeSessionEnds
<1>3. /\ rs \in RequestMap
      /\ \A q \in RequestIds : /\ rs[q] = NoRequest \/ rs[q] = requests[q]
                               /\ rs[q] # NoRequest => rs[q].session # s
  BY <1>1 DEF DropRequests, RequestMap
<1>4. /\ grants' = gs /\ requests' = rs
      /\ claims' = RetainAfterExit(claims, gs, s) /\ exited' = exited \cup {s}
      /\ UNCHANGED <<gen, allowed, lastSeen, now, minted, issued, distrusted>>
  BY DEF OnPrincipalExit, policy
<1>5. claims' \in ClaimMap
  BY <1>1, <1>4 DEF RetainAfterExit, ClaimMap
<1>6. TypeOK'
  BY <1>2, <1>3, <1>4, <1>5 DEF TypeOK
<1>7. /\ ActiveGrants(gs) \subseteq ActiveGrants(grants)
      /\ \A g \in ActiveGrants(gs) : gs[g] = grants[g]
      /\ IsFiniteSet(ActiveGrants(gs)) /\ Cardinality(ActiveGrants(gs)) <= MaxConcurrent
  BY <1>1, <1>2, EndsActive DEF WithinConcurrentLimit
<1>8. FreshIds'
  <2>1. ASSUME NEW g \in GrantIds, g \notin minted PROVE gs[g] = NoGrant
    <3>1. grants[g] = NoGrant
      BY <2>1 DEF FreshIds
    <3> QED BY <1>2, <3>1 DEF Ends, NoGrant
  <2> QED BY <1>3, <1>4, <2>1 DEF FreshIds
<1>9. IssuedOnce'
  BY <1>3, <1>4 DEF IssuedOnce, NoRequest
<1>10. DistrustedStayDead'
  <2>1. ASSUME NEW g \in distrusted PROVE gs[g].state \in {"None", "Revoked"}
    <3>1. g \in GrantIds /\ grants[g].state \in {"None", "Revoked"}
      BY DEF TypeOK, EndedHoldNothing, DistrustedStayDead
    <3> QED BY <1>2, <3>1 DEF Ends, NoGrant
  <2> QED BY <1>4, <2>1 DEF DistrustedStayDead
<1>11. ExitedHoldNothing'
  <2>1. ASSUME NEW g \in ActiveGrants(gs), NEW t \in exited \cup {s} PROVE gs[g].session # t
    BY <1>2, <1>7 DEF ActiveGrants, ExitedHoldNothing, EndedHoldNothing
  <2>2. ASSUME NEW q \in RequestIds, rs[q].status = "open", NEW t \in exited \cup {s}
        PROVE  rs[q].session # t
    BY <1>3, <2>2 DEF ExitedHoldNothing, EndedHoldNothing, NoRequest
  <2> QED BY <1>4, <2>1, <2>2 DEF ExitedHoldNothing
<1> QED BY <1>4, <1>6, <1>7, <1>8, <1>9, <1>10, <1>11
     DEF EndedHoldNothing, WithinConcurrentLimit

\* The inductive invariant holds initially.
LEMMA InitInv == Init => IInv
<1> SUFFICES ASSUME Init PROVE IInv
  OBVIOUS
<1>1. TypeOK /\ FreshIds /\ IssuedOnce
  BY DEF Init, TypeOK, FreshIds, IssuedOnce, GrantMap, RequestMap, ClaimMap, AllIds
<1>2. ActiveGrants(grants) = {}
  BY DEF Init, ActiveGrants, NoGrant
<1>3. IsFiniteSet(ActiveGrants(grants)) /\ WithinConcurrentLimit
  BY <1>2, FS_EmptySet, MaxConcurrentAssumption DEF WithinConcurrentLimit
<1>4. EndedHoldNothing
  BY DEF Init, EndedHoldNothing, DistrustedStayDead, ExitedHoldNothing
<1> QED BY <1>1, <1>3, <1>4 DEF IInv

\* Every operation of the registry preserves the inductive invariant.
LEMMA NextInv == IInv /\ [Next]_vars => IInv'
<1> SUFFICES ASSUME IInv, [Next]_vars PROVE IInv'
  OBVIOUS
<1> USE DEF maps, policy, history
<1>a. TypeOK
  BY DEF IInv
<1>b. grants \in GrantMap /\ requests \in RequestMap /\ claims \in ClaimMap /\ now \in Nat
  BY <1>a DEF TypeOK
<1>1. CASE Tick \/ Regress
  <2>1. TypeOK' /\ UNCHANGED <<grants, requests, minted, issued, distrusted, exited>>
    BY <1>a, <1>1 DEF Tick, Regress, TypeOK
  <2> QED BY <2>1, EndingStep DEF Ends, Settles
<1>2. ASSUME NEW s \in Sessions \ exited, NEW ops \in Requestable, NEW ttl \in Ttls,
             NEW dynamic \in BOOLEAN, RequestGrant(s, ops, ttl, dynamic)
      PROVE  IInv'
  BY <1>2, RequestGrantInv
<1>3. ASSUME NEW q \in RequestIds, ApproveGrant(q) PROVE IInv'
  BY <1>3, ApproveGrantInv
<1>4. ASSUME NEW q \in RequestIds, CancelRequest(q) PROVE IInv'
  <2>1. requests[q] \in Request
    BY <1>b, <1>4 DEF CancelRequest, RequestMap, NoRequest
  <2>2. /\ requests' \in RequestMap
        /\ \A p \in RequestIds : Settles(requests[p], requests'[p])
    BY <1>b, <1>4, <2>1 DEF CancelRequest, RequestMap, Request, Settles
  <2>3. TypeOK' /\ UNCHANGED <<grants, minted, issued, distrusted, exited>>
    BY <1>a, <1>4, <2>2 DEF CancelRequest, TypeOK
  <2> QED BY <2>2, <2>3, EndingStep DEF Ends
<1>5. ASSUME NEW g \in GrantIds, RevokeGrant(g) PROVE IInv'
  <2>1. grants[g] \in Grant \cup {NoGrant}
    BY <1>b DEF GrantMap
  <2>2. /\ grants' = [grants EXCEPT ![g] = TryTransition(grants[g], "Active", "Revoked")]
        /\ UNCHANGED <<requests, claims, gen, allowed, lastSeen, now, minted, issued, distrusted, exited>>
    BY <1>5 DEF RevokeGrant
  <2>3. grants' \in GrantMap /\ \A h \in GrantIds : Ends(grants[h], grants'[h])
    BY <1>b, <2>1, <2>2, TryTransitionEnds DEF GrantMap, Ends
  <2>4. TypeOK'
    BY <1>a, <2>2, <2>3 DEF TypeOK
  <2> QED BY <2>2, <2>3, <2>4, EndingStep DEF Settles
<1>6. CASE OnPolicyReload
  <2>1. /\ grants' \in GrantMap /\ \A g \in GrantIds : Ends(grants[g], grants'[g])
    BY <1>b, <1>6, FailClosedAllEnds DEF OnPolicyReload
  <2>2. TypeOK' /\ UNCHANGED <<minted, issued, distrusted, exited>>
    BY <1>a, <1>6, <2>1 DEF OnPolicyReload, TypeOK, RequestMap, ClaimMap
  <2>3. \A q \in RequestIds : Settles(requests[q], requests'[q])
    BY <1>6 DEF OnPolicyReload, Settles
  <2> QED BY <2>1, <2>2, <2>3, EndingStep
<1>7. CASE OnDaemonRestart
  <2>1. /\ \A g \in GrantIds : Ends(grants[g], grants'[g])
        /\ \A q \in RequestIds : Settles(requests[q], requests'[q])
    BY <1>7 DEF OnDaemonRestart, Ends, Settles
  <2>2. TypeOK' /\ UNCHANGED <<minted, issued, distrusted, exited>>
    BY <1>a, <1>7 DEF OnDaemonRestart, TypeOK, GrantMap, RequestMap, ClaimMap
  <2> QED BY <2>1, <2>2, EndingStep
<1>8. CASE ExpireSweep
  <2>1. grants' \in GrantMap /\ \A g \in GrantIds : Ends(grants[g], grants'[g])
    BY <1>b, <1>8, CheckExpiredEnds DEF ExpireSweep
  <2>2. TypeOK' /\ UNCHANGED <<requests, minted, issued, distrusted, exited>>
    BY <1>a, <1>8, <2>1 DEF ExpireSweep, TypeOK
  <2> QED BY <2>1, <2>2, EndingStep DEF Settles
<1>9. ASSUME NEW s \in Sessions, OnPrincipalExit(s) PROVE IInv'
  BY <1>9, OnPrincipalExitInv
<1>10. ASSUME NEW g \in GrantIds, NEW s \in Sessions \ exited, NEW op \in Ops,
              ClaimForAuthorize(g, s, op)
       PROVE  IInv'
  <2>1. CASE ClockAmbiguity
    BY <2>1, ClockAmbiguityInv
  <2>2. CASE ~ClockAmbiguity
    <3>1. ClockOk /\ grants' = CheckExpired(grants, now)
          /\ UNCHANGED <<requests, gen, allowed, now, issued, distrusted, exited>>
      BY <1>10, <2>2 DEF ClaimForAuthorize
    <3>2. grants' \in GrantMap /\ \A h \in GrantIds : Ends(grants[h], grants'[h])
      BY <1>b, <3>1, CheckExpiredEnds
    <3>3. claims' \in ClaimMap /\ minted \subseteq minted' /\ minted' \subseteq AllIds
      <4>1. CASE UNCHANGED <<claims, minted>>
        BY <1>a, <1>b, <4>1 DEF TypeOK
      <4>2. CASE ~UNCHANGED <<claims, minted>>
        <5>1. PICK c \in ClaimIds \ minted :
                /\ claims' = [claims EXCEPT ![c] = [grant |-> g, op |-> op, consumed |-> "no"]]
                /\ minted' = minted \cup {c}
          BY <1>10, <2>2, <4>2 DEF ClaimForAuthorize
        <5>2. [grant |-> g, op |-> op, consumed |-> "no"] \in Claim
          BY DEF Claim
        <5> QED BY <1>a, <1>b, <5>1, <5>2 DEF TypeOK, ClaimMap, AllIds
      <4> QED BY <4>1, <4>2
    <3>4. TypeOK'
      BY <1>a, <3>1, <3>2, <3>3 DEF TypeOK, ClockOk
    <3> QED BY <3>1, <3>2, <3>3, <3>4, EndingStep DEF Settles
  <2> QED BY <2>1, <2>2
<1>11. ASSUME NEW c \in ClaimIds, ConsumeClaim(c) \/ CancelClaim(c) PROVE IInv'
  <2>1. claims' \in ClaimMap
    <3>1. CASE ConsumeClaim(c)
      <4>1. claims[c] \in Claim
        BY <1>b, <3>1 DEF ConsumeClaim, ClaimMap, NoClaim
      <4> QED BY <1>b, <3>1, <4>1 DEF ConsumeClaim, ClaimMap, Claim
    <3>2. CASE CancelClaim(c)
      BY <1>b, <3>2 DEF CancelClaim, ClaimMap
    <3> QED BY <1>11, <3>1, <3>2
  <2>2. UNCHANGED <<grants, requests, gen, allowed, lastSeen, now, minted, issued, distrusted, exited>>
    BY <1>11 DEF ConsumeClaim, CancelClaim
  <2>3. TypeOK'
    BY <1>a, <2>1, <2>2 DEF TypeOK
  <2> QED BY <2>2, <2>3, EndingStep DEF Ends, Settles
<1>12. ASSUME NEW s \in Sessions, CancelSessionClaims(s) PROVE IInv'
  <2>1. TypeOK' /\ UNCHANGED <<grants, requests, minted, issued, distrusted, exited>>
    BY <1>a, <1>b, <1>12 DEF CancelSessionClaims, CancelClaimsForSession, TypeOK, ClaimMap
  <2> QED BY <2>1, EndingStep DEF Ends, Settles
<1>13. ASSUME NEW g \in GrantIds, CancelGrantClaims(g) PROVE IInv'
  <2>1. TypeOK' /\ UNCHANGED <<grants, requests, minted, issued, distrusted, exited>>
    BY <1>a, <1>b, <1>13 DEF CancelGrantClaims, CancelClaimsForGrant, TypeOK, ClaimMap
  <2> QED BY <2>1, EndingStep DEF Ends, Settles
<1>14. CASE UNCHANGED vars
  <2>1. TypeOK' /\ UNCHANGED <<grants, requests, minted, issued, distrusted, exited>>
    BY <1>a, <1>14 DEF vars, TypeOK
  <2> QED BY <2>1, EndingStep DEF Ends, Settles
<1> QED BY <1>1, <1>2, <1>3, <1>4, <1>5, <1>6, <1>7, <1>8, <1>9, <1>10, <1>11, <1>12, <1>13,
           <1>14 DEF Next

\* The inductive invariant holds in every behaviour of the registry.
THEOREM InvHolds == Spec => []IInv
BY InitInv, NextInv, PTL DEF Spec

\* One approval, one grant: whatever approvals, cancellations, exits, reloads,
\* restarts and clock failures are mixed, approve_grant never makes a second
\* grant of one request.
THEOREM OneGrantPerRequestHolds == Spec => []OneGrantPerRequest
<1>1. IInv => OneGrantPerRequest
  <2> SUFFICES ASSUME IInv, NEW q \in RequestIds PROVE Cardinality(issued[q]) <= 1
    BY DEF OneGrantPerRequest
  <2>1. issued[q] = {} \/ \E g \in GrantIds : issued[q] = {g}
    BY DEF IInv, IssuedOnce
  <2>2. CASE issued[q] = {}
    <3>1. Cardinality(issued[q]) = 0
      BY <2>2, FS_EmptySet
    <3> QED BY <3>1
  <2>3. ASSUME NEW g \in GrantIds, issued[q] = {g} PROVE Cardinality(issued[q]) <= 1
    <3>1. Cardinality({g}) = 1
      BY FS_Singleton
    <3> QED BY <2>3, <3>1
  <2> QED BY <2>1, <2>2, <2>3
<1> QED BY <1>1, InvHolds, PTL

\* max_concurrent_grants bounds the grants that are active at any time.
THEOREM WithinConcurrentLimitHolds == Spec => []WithinConcurrentLimit
BY InvHolds, PTL DEF IInv

\* A grant the clock discredited, and everything of a principal that is gone,
\* stays dead: fail_closed_all and on_principal_exit cannot be undone.
THEOREM EndedHoldNothingHolds == Spec => []EndedHoldNothing
BY InvHolds, PTL DEF IInv

\* A claim is only ever made by claim_for_authorize, on a grant that is active
\* and in time after the sweep it begins with, for a principal that is still
\* there and an operation both the grant and the policy allow.
THEOREM ClaimsOnlyOnLiveGrantsHolds == Spec => ClaimsOnlyOnLiveGrants
<1> DEFINE Live(c) ==
      (claims[c] = NoClaim /\ claims'[c] # NoClaim)
        => LET g == grants[claims'[c].grant] IN
           /\ g.state = "Active"
           /\ now < g.expiry
           /\ g.session \notin exited
           /\ claims'[c].op \in g.ops \cap allowed
<1>1. ASSUME IInv, [Next]_vars, NEW c \in ClaimIds PROVE Live(c)
  <2> SUFFICES ASSUME claims[c] = NoClaim, claims'[c] # NoClaim PROVE Live(c)
    OBVIOUS
  <2>1. grants \in GrantMap /\ claims \in ClaimMap /\ now \in Nat
    BY <1>1 DEF IInv, TypeOK
  <2>2. claims' # claims
    OBVIOUS
  <2>3. ~(\E d \in ClaimIds : ConsumeClaim(d) \/ CancelClaim(d))
    BY <2>1 DEF ConsumeClaim, CancelClaim, ClaimMap, NoClaim
  <2>4. ~(\E s \in Sessions : OnPrincipalExit(s) \/ CancelSessionClaims(s))
    BY DEF OnPrincipalExit, CancelSessionClaims, RetainAfterExit, CancelClaimsForSession
  <2>5. ~(\E g \in GrantIds : RevokeGrant(g) \/ CancelGrantClaims(g))
    BY <2>2 DEF RevokeGrant, CancelGrantClaims, CancelClaimsForGrant
  <2>6. ~(OnPolicyReload \/ OnDaemonRestart \/ ExpireSweep \/ Tick \/ Regress \/ UNCHANGED vars)
    BY <2>2 DEF OnPolicyReload, OnDaemonRestart, ExpireSweep, Tick, Regress, vars, maps
  <2>7. ~(\E q \in RequestIds : ApproveGrant(q) \/ CancelRequest(q))
    BY <2>2 DEF ApproveGrant, CancelRequest, ClockAmbiguity
  <2>8. ~(\E s \in Sessions \ exited, ops \in Requestable, ttl \in Ttls, dynamic \in BOOLEAN :
            RequestGrant(s, ops, ttl, dynamic))
    BY <2>2 DEF RequestGrant, ClockAmbiguity
  <2>9. PICK g \in GrantIds, s \in Sessions \ exited, op \in Ops : ClaimForAuthorize(g, s, op)
    BY <1>1, <2>3, <2>4, <2>5, <2>6, <2>7, <2>8 DEF Next
  <2> DEFINE swept == CheckExpired(grants, now)
  <2>10. ~ClockAmbiguity
    BY <2>2 DEF ClockAmbiguity
  <2>11. ClaimAllowed(swept, g, s, op, gen, allowed)
    BY <2>2, <2>9, <2>10 DEF ClaimForAuthorize
  <2>12. \E d \in ClaimIds \ minted :
           claims' = [claims EXCEPT ![d] = [grant |-> g, op |-> op, consumed |-> "no"]]
    BY <2>9, <2>10, <2>11 DEF ClaimForAuthorize
  <2>13. claims'[c] = [grant |-> g, op |-> op, consumed |-> "no"]
    BY <2>1, <2>12 DEF ClaimMap
  <2>14. swept[g] = grants[g] /\ now < grants[g].expiry
    BY <2>1, <2>11, CheckExpiredEnds DEF ClaimAllowed
  <2> QED BY <2>11, <2>13, <2>14 DEF ClaimAllowed
<1>2. IInv /\ [Next]_vars => [\A c \in ClaimIds : Live(c)]_vars
  BY <1>1
<1> QED BY <1>2, InvHolds, PTL DEF Spec, ClaimsOnlyOnLiveGrants
=============================================================================
