------------------------ MODULE PolicyRuntimeProofs ------------------------
(***************************************************************************)
(* Proofs about the policy runtime of a profile, for every number of       *)
(* requests, ceremonies, sessions and reloading administrators, all limits *)
(* and lifetimes.                                                          *)
(***************************************************************************)
EXTENDS PolicyRuntime, FiniteSetTheorems, TLAPS

-----------------------------------------------------------------------------
(* What the store's operations do to one intent.                            *)

\* The intent stays in its state, or it ends without ever having been claimed.
Fades(x, y) ==
  \/ y = x
  \/ /\ x \in Intent /\ y \in Intent
     /\ y.session = x.session /\ y.scope = x.scope
     /\ \/ y.state = x.state
        \/ x.state \in {"Pending", "Approved"} /\ y.state \in {"Expired", "Denied", "Cancelled"}

\* Changing the state of an intent leaves the rest of it alone.
LEMMA IntentState ==
  ASSUME NEW x \in Intent, NEW st \in IntentStates
  PROVE  LET y == [x EXCEPT !.state = st] IN
         y \in Intent /\ y.state = st /\ y.session = x.session /\ y.scope = x.scope
BY DEF Intent

\* cleanup_expired and expire_if_needed, one intent.
LEMMA ExpireFades ==
  ASSUME NEW x \in Intent \cup {NoIntent}, NEW t
  PROVE  Fades(x, Expire(x, t))
<1>1. CASE Expire(x, t) = x
  BY <1>1 DEF Fades
<1>2. CASE Expire(x, t) # x
  <2>1. x.state \in {"Pending", "Approved"} /\ Expire(x, t) = [x EXCEPT !.state = "Expired"]
    BY <1>2 DEF Expire, Overdue, TransitionTo
  <2>2. x \in Intent
    BY <2>1 DEF NoIntent
  <2> DEFINE y == [x EXCEPT !.state = "Expired"]
  <2>3. y \in Intent /\ y.state = "Expired" /\ y.session = x.session /\ y.scope = x.scope
    BY <2>2, IntentState DEF IntentStates
  <2> HIDE DEF y
  <2>4. Expire(x, t) = y
    BY <2>1 DEF y
  <2> QED BY <2>1, <2>2, <2>3, <2>4 DEF Fades
<1> QED BY <1>1, <1>2

\* An intent is denied, or expired instead when it is overdue, or stays.
LEMMA DenyFades ==
  ASSUME NEW x \in Intent \cup {NoIntent}, NEW t, NEW to \in {"Denied", "Cancelled"}
  PROVE  /\ Fades(x, TransitionTo(x, to))
         /\ Fades(x, IF Overdue(x, t) THEN Expire(x, t) ELSE TransitionTo(x, to))
<1>1. Fades(x, TransitionTo(x, to))
  <2>1. CASE TransitionTo(x, to) = x
    BY <2>1 DEF Fades
  <2>2. CASE TransitionTo(x, to) # x
    <3>1. x.state = "Pending" /\ TransitionTo(x, to) = [x EXCEPT !.state = to]
      BY <2>2 DEF TransitionTo, CanTransition, Transitions
    <3>2. x \in Intent
      BY <3>1 DEF NoIntent
    <3> DEFINE y == [x EXCEPT !.state = to]
    <3>3. y \in Intent /\ y.state = to /\ y.session = x.session /\ y.scope = x.scope
      BY <3>2 DEF Intent, IntentStates
    <3> HIDE DEF y
    <3>4. TransitionTo(x, to) = y
      BY <3>1 DEF y
    <3> QED BY <3>1, <3>2, <3>3, <3>4 DEF Fades
  <2> QED BY <2>1, <2>2
<1> QED BY <1>1, ExpireFades

\* What fades stays in the type.
LEMMA FadesType ==
  ASSUME NEW x \in Intent \cup {NoIntent}, NEW y, Fades(x, y)
  PROVE  y \in Intent \cup {NoIntent}
BY DEF Fades


\* cleanup_expired
LEMMA CleanupFades ==
  ASSUME NEW st \in Store, NEW t
  PROVE  /\ \A i \in IntentIds : Fades(st[i], CleanupExpired(st, t)[i])
         /\ CleanupExpired(st, t) \in Store
<1>1. \A i \in IntentIds : st[i] \in Intent \cup {NoIntent} /\ CleanupExpired(st, t)[i] = Expire(st[i], t)
  BY DEF Store, CleanupExpired
<1>2. \A i \in IntentIds : Fades(st[i], CleanupExpired(st, t)[i])
  BY <1>1, ExpireFades
<1>3. \A i \in IntentIds : Expire(st[i], t) \in Intent \cup {NoIntent}
  BY <1>1, <1>2, FadesType
<1> QED BY <1>2, <1>3 DEF CleanupExpired, Store

\* CloseRequests denies intents, one by one.
LEMMA DenyIntentsFades ==
  ASSUME intents \in Store, NEW ids
  PROVE  /\ \A i \in IntentIds : Fades(intents[i], DenyIntents(ids)[i])
         /\ DenyIntents(ids) \in Store
<1>1. ASSUME NEW i \in IntentIds
      PROVE  /\ DenyIntents(ids)[i] = intents[i]
                \/ DenyIntents(ids)[i] = (IF Overdue(intents[i], now) THEN Expire(intents[i], now)
                                         ELSE TransitionTo(intents[i], "Denied"))
             /\ intents[i] \in Intent \cup {NoIntent}
  BY DEF DenyIntents, Resolve, Store
<1>2. \A i \in IntentIds : Fades(intents[i], DenyIntents(ids)[i])
  BY <1>1, DenyFades DEF Fades
<1>3. \A i \in IntentIds : DenyIntents(ids)[i] \in Intent \cup {NoIntent}
  BY <1>1, <1>2, FadesType
<1>4. DenyIntents(ids) = [i \in IntentIds |-> DenyIntents(ids)[i]]
  BY DEF DenyIntents
<1> QED BY <1>2, <1>3, <1>4 DEF Store

\* cancel_by_session
LEMMA CancelFades ==
  ASSUME intents \in Store, NEW s
  PROVE  /\ \A i \in IntentIds : Fades(intents[i], CancelBySession(intents, s)[i])
         /\ CancelBySession(intents, s) \in Store
<1>1. ASSUME NEW i \in IntentIds
      PROVE  /\ CancelBySession(intents, s)[i] = intents[i]
                \/ CancelBySession(intents, s)[i] = TransitionTo(intents[i], "Cancelled")
             /\ intents[i] \in Intent \cup {NoIntent}
  BY DEF CancelBySession, Store
<1>2. \A i \in IntentIds : Fades(intents[i], CancelBySession(intents, s)[i])
  BY <1>1, DenyFades DEF Fades
<1>3. \A i \in IntentIds : CancelBySession(intents, s)[i] \in Intent \cup {NoIntent}
  BY <1>1, <1>2, FadesType
<1>4. CancelBySession(intents, s) = [i \in IntentIds |-> CancelBySession(intents, s)[i]]
  BY DEF CancelBySession
<1> QED BY <1>2, <1>3, <1>4 DEF Store

\* approve: a pending intent that is not overdue is approved, another one stays
\* or expires.
LEMMA ApproveEffect ==
  ASSUME intents \in Store, NEW i \in IntentIds
  PROVE  /\ Resolve(intents, i, "Approved", now) \in Store
         /\ \A j \in IntentIds \ {i} : Resolve(intents, i, "Approved", now)[j] = intents[j]
         /\ IF ResolveOk(intents, i, "Approved", now)
            THEN /\ intents[i] \in Intent /\ intents[i].state = "Pending"
                 /\ Resolve(intents, i, "Approved", now)[i] = [intents[i] EXCEPT !.state = "Approved"]
            ELSE Fades(intents[i], Resolve(intents, i, "Approved", now)[i])
<1>1. intents[i] \in Intent \cup {NoIntent}
  BY DEF Store
<1>2. \A j \in IntentIds \ {i} : Resolve(intents, i, "Approved", now)[j] = intents[j]
  BY DEF Resolve, Store
<1>3. Resolve(intents, i, "Approved", now)[i] = IF Overdue(intents[i], now) THEN Expire(intents[i], now)
                                               ELSE TransitionTo(intents[i], "Approved")
  BY DEF Resolve, Store
<1>4. CASE ResolveOk(intents, i, "Approved", now)
  <2>1. intents[i].state = "Pending" /\ Resolve(intents, i, "Approved", now)[i] = [intents[i] EXCEPT !.state = "Approved"]
    BY <1>3, <1>4 DEF ResolveOk, TransitionTo, CanTransition, Transitions
  <2>2. intents[i] \in Intent
    BY <1>1, <2>1 DEF NoIntent
  <2>3. Resolve(intents, i, "Approved", now)[i] \in Intent
    BY <2>1, <2>2 DEF Intent, IntentStates
  <2>4. Resolve(intents, i, "Approved", now) \in Store
    BY <1>2, <2>3 DEF Resolve, Store
  <2> QED BY <1>2, <1>4, <2>1, <2>2, <2>4
<1>5. CASE ~ResolveOk(intents, i, "Approved", now)
  <2>1. Fades(intents[i], Resolve(intents, i, "Approved", now)[i])
    <3>1. CASE Overdue(intents[i], now)
      BY <1>1, <1>3, <3>1, ExpireFades
    <3>2. CASE ~Overdue(intents[i], now)
      BY <1>3, <1>5, <3>2 DEF ResolveOk, TransitionTo, Fades
    <3> QED BY <3>1, <3>2
  <2>2. Resolve(intents, i, "Approved", now)[i] \in Intent \cup {NoIntent}
    BY <1>1, <2>1, FadesType
  <2>3. Resolve(intents, i, "Approved", now) \in Store
    BY <1>2, <2>2 DEF Resolve, Store
  <2> QED BY <1>2, <1>5, <2>1, <2>3
<1> QED BY <1>4, <1>5

\* claim_approved: the overdue expire, one approved intent with the tuple is
\* claimed.
LEMMA ClaimEffect ==
  ASSUME intents \in Store, NEW s, NEW sc, NEW i \in Claimable(intents, s, sc, now)
  PROVE  LET nx == ClaimApproved(intents, i, now) IN
         /\ i \in IntentIds /\ intents[i] \in Intent /\ intents[i].state = "Approved"
         /\ intents[i].session = s /\ intents[i].scope = sc
         /\ nx \in Store
         /\ nx[i] \in Intent /\ nx[i].state = "Claimed" /\ nx[i].session = s /\ nx[i].scope = sc
         /\ \A j \in IntentIds \ {i} : Fades(intents[j], nx[j])
<1> DEFINE swept == CleanupExpired(intents, now)
           nx == ClaimApproved(intents, i, now)
<1>1. /\ i \in IntentIds /\ swept \in Store /\ swept[i].state = "Approved"
      /\ swept[i].session = s /\ swept[i].scope = sc
      /\ \A j \in IntentIds : Fades(intents[j], swept[j])
  BY CleanupFades DEF Claimable, MatchesQuery
<1>2. /\ swept[i] \in Intent /\ intents[i] \in Intent /\ intents[i].state = "Approved"
      /\ intents[i].session = s /\ intents[i].scope = sc
  <2>1. swept[i] \in Intent
    BY <1>1 DEF Store, NoIntent
  <2> QED BY <1>1, <2>1 DEF Fades
<1>3. nx = [swept EXCEPT ![i] = [[swept[i] EXCEPT !.state = "Claimed"] EXCEPT !.token = "taken"]]
  BY <1>1 DEF ClaimApproved, ClaimIntent, TransitionTo, CanTransition, Transitions
<1> DEFINE y == [[swept[i] EXCEPT !.state = "Claimed"] EXCEPT !.token = "taken"]
<1>4. y \in Intent /\ y.state = "Claimed" /\ y.session = s /\ y.scope = sc
  BY <1>1, <1>2 DEF Intent, IntentStates
<1> HIDE DEF y, swept
<1>5. nx = [swept EXCEPT ![i] = y]
  BY <1>3 DEF y
<1> HIDE DEF nx
<1>6. nx \in Store /\ nx[i] = y /\ \A j \in IntentIds \ {i} : nx[j] = swept[j]
  BY <1>1, <1>4, <1>5 DEF Store
<1>7. \A j \in IntentIds \ {i} : Fades(intents[j], nx[j])
  BY <1>1, <1>6
<1> QED BY <1>1, <1>2, <1>4, <1>6, <1>7 DEF nx

\* rollback_claim: a claimed intent is approved again, another one stays.
LEMMA RollbackEffect ==
  ASSUME NEW st \in Store, NEW i \in IntentIds
  PROVE  LET nx == RollbackClaim(st, i) IN
         /\ nx \in Store
         /\ \A j \in IntentIds \ {i} : nx[j] = st[j]
         /\ IF st[i].state = "Claimed"
            THEN nx[i] \in Intent /\ nx[i].state = "Approved" /\ nx[i].session = st[i].session
                 /\ nx[i].scope = st[i].scope
            ELSE nx[i] = st[i]
<1>1. CASE st[i].state = "Claimed"
  <2>1. st[i] \in Intent
    BY <1>1 DEF Store, NoIntent
  <2> DEFINE y == [st[i] EXCEPT !.state = "Approved"]
  <2>2. y \in Intent /\ y.state = "Approved" /\ y.session = st[i].session /\ y.scope = st[i].scope
    BY <2>1 DEF Intent, IntentStates
  <2>3. RollbackClaim(st, i) = [st EXCEPT ![i] = y]
    BY <1>1 DEF RollbackClaim
  <2> HIDE DEF y
  <2> QED BY <1>1, <2>2, <2>3 DEF Store
<1>2. CASE st[i].state # "Claimed"
  BY <1>2 DEF RollbackClaim, Store
<1> QED BY <1>1, <1>2

\* consume_claimed
LEMMA ConsumeEffect ==
  ASSUME intents \in Store, NEW i \in IntentIds, ConsumeOk(intents, i)
  PROVE  LET nx == ConsumeClaimed(intents, i) IN
         /\ nx \in Store /\ intents[i] \in Intent
         /\ \A j \in IntentIds \ {i} : nx[j] = intents[j]
         /\ nx[i] \in Intent /\ nx[i].state = "Consumed" /\ nx[i].session = intents[i].session
         /\ nx[i].scope = intents[i].scope
<1>1. intents[i] \in Intent /\ intents[i].state = "Claimed"
  BY DEF Store, NoIntent, ConsumeOk
<1> DEFINE y == [intents[i] EXCEPT !.state = "Consumed"]
<1>2. y \in Intent /\ y.state = "Consumed" /\ y.session = intents[i].session /\ y.scope = intents[i].scope
  BY <1>1 DEF Intent, IntentStates
<1>3. ConsumeClaimed(intents, i) = [intents EXCEPT ![i] = y]
  BY <1>1 DEF ConsumeClaimed, TransitionTo, CanTransition, Transitions
<1> HIDE DEF y
<1> QED BY <1>1, <1>2, <1>3 DEF Store

-----------------------------------------------------------------------------
(* What the other operations do to one record.                              *)

\* A grant stays, ends or is forgotten; a request for one likewise; a claim is
\* consumed or forgotten; a handle is invalidated; a request is settled.
GrantFades(x, y) ==
  y = x \/ y = NoGrant \/ (x.state = "Active" /\ y \in Grant /\ y.state # "Active")
GrantRequestFades(x, y) ==
  y = x \/ y = NoRequest \/ (x.status = "open" /\ y \in Request /\ y.status # "open")
ClaimFades(x, y) ==
  y = x \/ y = NoClaim \/ (x.consumed = "no" /\ y \in Claim /\ y.consumed = "yes")
HandleFades(x, y) ==
  y = x \/ (x \in Auth /\ y \in Auth /\ y.intent = x.intent /\ y.status = "invalidated")
RequestFades(x, y) ==
  y = x \/ (x.state = "Waiting" /\ x \in Preq /\ y \in Preq /\ y.kind = x.kind)

\* try_transition on a grant.
LEMMA TransitionFades ==
  ASSUME NEW x \in Grant \cup {NoGrant}, NEW to \in {"Revoked", "Expired"}
  PROVE  /\ GrantFades(x, TryTransition(x, "Active", to))
         /\ TryTransition(x, "Active", to) \in Grant \cup {NoGrant}
<1>1. CASE x.state = "Active"
  <2>1. x \in Grant
    BY <1>1 DEF NoGrant
  <2> DEFINE y == [x EXCEPT !.state = to]
  <2>2. y \in Grant /\ y.state = to
    BY <2>1 DEF Grant, GrantStates
  <2>3. TryTransition(x, "Active", to) = y
    BY <1>1 DEF TryTransition
  <2> HIDE DEF y
  <2> QED BY <1>1, <2>2, <2>3 DEF GrantFades
<1>2. CASE x.state # "Active"
  BY <1>2 DEF TryTransition, GrantFades
<1> QED BY <1>1, <1>2


\* No request has the shape of a missing one.
LEMMA NotNoPreq ==
  ASSUME NEW x \in Preq \cup {NoPreq}
  PROVE  (x # NoPreq => x \in Preq) /\ (x \in Preq => x # NoPreq) /\ NoPreq.state = "None"
BY DEF Preq, NoPreq


\* A worker that is not idle has a ceremony.
LEMMA AtWork ==
  ASSUME TypeOK, worker.pc # "idle"
  PROVE  /\ worker \in Working /\ worker.pc \in WorkerStages /\ worker.session \in Sessions
         /\ worker.scope \in Scope /\ worker.scope.op \in Ops
         /\ worker.intent \in IntentIds \cup {NoId} /\ worker.grant \in IntentIds \cup {NoId}
         /\ worker.cer \in CeremonyIds \cup {NoId}
<1>1. worker \in Working
  BY DEF TypeOK, IdleWorker
<1> QED BY <1>1 DEF Working, Scope

\* CloseRequests, request by request.
LEMMA CloseEffect ==
  ASSUME TypeOK, NEW ids \in SUBSET IntentIds, \A i \in ids : preqs[i].state = "Waiting",
         NEW st \in {"Denied", "Cancelled", "TimedOut"}, CloseRequests(ids, st)
  PROVE  /\ intents' \in Store /\ \A i \in IntentIds : Fades(intents[i], intents'[i])
         /\ preqs' \in [IntentIds -> Preq \cup {NoPreq}]
         /\ \A i \in IntentIds : RequestFades(preqs[i], preqs'[i])
         /\ grants' \in GrantMap /\ \A i \in IntentIds : GrantFades(grants[i], grants'[i])
         /\ greqs' \in RequestMap
         /\ \A i \in IntentIds : GrantRequestFades(greqs[i], greqs'[i])
         /\ UNCHANGED <<claims, regGen, pending, preqLock, current, lastGen, now, minted, history>>
<1>1. /\ intents \in Store /\ grants \in GrantMap /\ greqs \in RequestMap
      /\ preqs \in [IntentIds -> Preq \cup {NoPreq}]
  BY DEF TypeOK
<1>2. intents' \in Store /\ \A i \in IntentIds : Fades(intents[i], intents'[i])
  BY <1>1, DenyIntentsFades DEF CloseRequests
<1>3. ASSUME NEW i \in IntentIds
      PROVE  preqs'[i] \in Preq \cup {NoPreq} /\ RequestFades(preqs[i], preqs'[i])
  <2>1. preqs[i] \in Preq \cup {NoPreq}
    BY <1>1
  <2>2. CASE i \in ids
    <3>1. preqs[i].state = "Waiting" /\ preqs[i] # NoPreq
      BY <2>2 DEF NoPreq
    <3>2. preqs'[i] = [preqs[i] EXCEPT !.state = st]
      BY <2>2 DEF CloseRequests
    <3>3. preqs[i] \in Preq /\ preqs'[i] \in Preq /\ preqs'[i].kind = preqs[i].kind
      BY <2>1, <3>1, <3>2 DEF Preq
    <3> QED BY <3>1, <3>3 DEF RequestFades
  <2>3. CASE i \notin ids
    BY <2>1, <2>3 DEF CloseRequests, RequestFades
  <2> QED BY <2>2, <2>3
<1>4. ASSUME NEW i \in IntentIds
      PROVE  grants'[i] \in Grant \cup {NoGrant} /\ GrantFades(grants[i], grants'[i])
  <2>1. grants[i] \in Grant \cup {NoGrant}
    BY <1>1 DEF GrantMap
  <2>2. grants'[i] = grants[i] \/ grants'[i] = TryTransition(grants[i], "Active", "Revoked")
    BY DEF CloseRequests
  <2> QED BY <2>1, <2>2, TransitionFades DEF GrantFades
<1>5. ASSUME NEW i \in IntentIds
      PROVE  greqs'[i] \in Request \cup {NoRequest} /\ GrantRequestFades(greqs[i], greqs'[i])
  <2>1. greqs[i] \in Request \cup {NoRequest}
    BY <1>1 DEF RequestMap
  <2>2. CASE greqs'[i] = greqs[i]
    BY <2>1, <2>2 DEF GrantRequestFades
  <2>3. CASE greqs'[i] # greqs[i]
    <3>1. greqs[i].status = "open" /\ greqs'[i] = [greqs[i] EXCEPT !.status = "cancelled"]
      BY <2>3 DEF CloseRequests
    <3>2. greqs[i] \in Request
      BY <2>1, <3>1 DEF NoRequest
    <3>3. greqs'[i] \in Request /\ greqs'[i].status = "cancelled"
      BY <3>1, <3>2 DEF Request
    <3> QED BY <3>1, <3>3 DEF GrantRequestFades
  <2> QED BY <2>2, <2>3
<1>6. preqs' \in [IntentIds -> Preq \cup {NoPreq}]
  BY <1>3 DEF CloseRequests
<1>7. grants' \in GrantMap
  BY <1>4 DEF CloseRequests, GrantMap
<1>8. greqs' \in RequestMap
  BY <1>5 DEF CloseRequests, RequestMap
<1> QED BY <1>2, <1>3, <1>4, <1>5, <1>6, <1>7, <1>8 DEF CloseRequests

\* Handles named by a set are invalidated.
LEMMA InvalidatedEffect ==
  ASSUME TypeOK, NEW cers
  PROVE  /\ Invalidated(cers) \in [CeremonyIds -> Auth \cup {NoAuth}]
         /\ \A c \in CeremonyIds : HandleFades(pending[c], Invalidated(cers)[c])
<1>1. ASSUME NEW c \in CeremonyIds
      PROVE  /\ Invalidated(cers)[c] \in Auth \cup {NoAuth}
             /\ HandleFades(pending[c], Invalidated(cers)[c])
  <2>1. pending[c] \in Auth \cup {NoAuth}
    BY DEF TypeOK
  <2>2. CASE c \in cers /\ pending[c] # NoAuth
    <3>1. pending[c] \in Auth /\ Invalidated(cers)[c] = [pending[c] EXCEPT !.status = "invalidated"]
      BY <2>1, <2>2 DEF Invalidated
    <3>2. /\ Invalidated(cers)[c] \in Auth /\ Invalidated(cers)[c].intent = pending[c].intent
          /\ Invalidated(cers)[c].status = "invalidated"
      BY <3>1 DEF Auth
    <3> QED BY <3>1, <3>2 DEF HandleFades
  <2>3. CASE ~(c \in cers /\ pending[c] # NoAuth)
    BY <2>1, <2>3 DEF Invalidated, HandleFades
  <2> QED BY <2>2, <2>3
<1>2. Invalidated(cers) = [c \in CeremonyIds |-> Invalidated(cers)[c]]
  BY DEF Invalidated
<1> QED BY <1>1, <1>2

\* Waiting requests named by a set are cancelled.
LEMMA CancelWaitingEffect ==
  ASSUME TypeOK, NEW ids
  PROVE  /\ CancelWaiting(ids) \in [IntentIds -> Preq \cup {NoPreq}]
         /\ \A i \in IntentIds : RequestFades(preqs[i], CancelWaiting(ids)[i])
<1>1. ASSUME NEW i \in IntentIds
      PROVE  /\ CancelWaiting(ids)[i] \in Preq \cup {NoPreq}
             /\ RequestFades(preqs[i], CancelWaiting(ids)[i])
  <2>1. preqs[i] \in Preq \cup {NoPreq}
    BY DEF TypeOK
  <2>2. CASE i \in ids /\ preqs[i].state = "Waiting"
    <3>1. preqs[i] \in Preq /\ CancelWaiting(ids)[i] = [preqs[i] EXCEPT !.state = "Cancelled"]
      BY <2>1, <2>2 DEF CancelWaiting, NoPreq
    <3>2. CancelWaiting(ids)[i] \in Preq /\ CancelWaiting(ids)[i].kind = preqs[i].kind
      BY <3>1 DEF Preq
    <3> QED BY <2>2, <3>1, <3>2 DEF RequestFades
  <2>3. CASE ~(i \in ids /\ preqs[i].state = "Waiting")
    BY <2>1, <2>3 DEF CancelWaiting, RequestFades
  <2> QED BY <2>2, <2>3
<1>2. CancelWaiting(ids) = [i \in IntentIds |-> CancelWaiting(ids)[i]]
  BY DEF CancelWaiting
<1> QED BY <1>1, <1>2

\* One request changes its state.
LEMMA SettleEffect ==
  ASSUME TypeOK, NEW i \in IntentIds, preqs[i] # NoPreq,
         NEW st \in {"Waiting", "Approved", "Denied", "Cancelled", "TimedOut"},
         preqs' = [preqs EXCEPT ![i].state = st]
  PROVE  /\ preqs' \in [IntentIds -> Preq \cup {NoPreq}]
         /\ preqs[i] \in Preq /\ preqs'[i] \in Preq /\ preqs'[i].kind = preqs[i].kind
         /\ preqs'[i].state = st
         /\ \A j \in IntentIds \ {i} : preqs'[j] = preqs[j]
<1>1. preqs \in [IntentIds -> Preq \cup {NoPreq}] /\ preqs[i] \in Preq
  BY DEF TypeOK
<1> DEFINE y == [preqs[i] EXCEPT !.state = st]
<1>2. y \in Preq /\ y.kind = preqs[i].kind /\ y.state = st
  BY <1>1 DEF Preq
<1>3. preqs' = [preqs EXCEPT ![i] = y]
  BY <1>1
<1> HIDE DEF y
<1> QED BY <1>1, <1>2, <1>3

\* A grant is revoked and its claims cancelled; check_expired; principal exit.
LEMMA GrantEffects ==
  ASSUME TypeOK, NEW g \in IntentIds, NEW t, NEW s
  PROVE  LET one == [grants EXCEPT ![g] = TryTransition(@, "Active", "Revoked")]
             old == CheckExpired(grants, t)
             left == RevokeSession(grants, s) IN
         /\ one \in GrantMap /\ \A h \in IntentIds : GrantFades(grants[h], one[h])
         /\ old \in GrantMap /\ \A h \in IntentIds : GrantFades(grants[h], old[h])
         /\ left \in GrantMap /\ \A h \in IntentIds : GrantFades(grants[h], left[h])
         /\ DropRequests(greqs, s) \in RequestMap
         /\ \A h \in IntentIds : GrantRequestFades(greqs[h], DropRequests(greqs, s)[h])
<1> DEFINE one == [grants EXCEPT ![g] = TryTransition(@, "Active", "Revoked")]
           old == CheckExpired(grants, t)
           left == RevokeSession(grants, s)
<1>1. grants \in [IntentIds -> Grant \cup {NoGrant}] /\ greqs \in [IntentIds -> Request \cup {NoRequest}]
  BY DEF TypeOK, GrantMap, RequestMap
<1>2. ASSUME NEW h \in IntentIds
      PROVE  /\ one[h] \in Grant \cup {NoGrant} /\ GrantFades(grants[h], one[h])
             /\ old[h] \in Grant \cup {NoGrant} /\ GrantFades(grants[h], old[h])
             /\ left[h] \in Grant \cup {NoGrant} /\ GrantFades(grants[h], left[h])
  <2>1. grants[h] \in Grant \cup {NoGrant}
    BY <1>1
  <2>2. one[h] = grants[h] \/ one[h] = TryTransition(grants[h], "Active", "Revoked")
    BY <1>1
  <2>3. old[h] = grants[h] \/ old[h] = TryTransition(grants[h], "Active", "Expired")
    BY DEF CheckExpired
  <2>4. left[h] = grants[h] \/ left[h] = TryTransition(grants[h], "Active", "Revoked")
    BY DEF RevokeSession
  <2> HIDE DEF one, old, left
  <2>5. \A to \in {"Revoked", "Expired"} :
          /\ GrantFades(grants[h], TryTransition(grants[h], "Active", to))
          /\ TryTransition(grants[h], "Active", to) \in Grant \cup {NoGrant}
    BY <2>1, TransitionFades
  <2>6. GrantFades(grants[h], grants[h])
    BY DEF GrantFades
  <2> QED BY <2>1, <2>2, <2>3, <2>4, <2>5, <2>6
<1>3. one = [h \in IntentIds |-> one[h]]
  BY <1>1
<1>4. old = [h \in IntentIds |-> old[h]] /\ left = [h \in IntentIds |-> left[h]]
  BY DEF CheckExpired, RevokeSession
<1> HIDE DEF one, old, left
<1>5. one \in GrantMap
  BY <1>2, <1>3 DEF GrantMap
<1>6. old \in GrantMap
  BY <1>2, <1>4 DEF GrantMap
<1>7. left \in GrantMap
  BY <1>2, <1>4 DEF GrantMap
<1>8. /\ DropRequests(greqs, s) \in RequestMap
      /\ \A h \in IntentIds : GrantRequestFades(greqs[h], DropRequests(greqs, s)[h])
  BY <1>1 DEF DropRequests, GrantRequestFades, RequestMap
<1> QED BY <1>2, <1>5, <1>6, <1>7, <1>8 DEF one, old, left

\* cancel_claims_for_grant and the claims that go with a session.
LEMMA ClaimEffects ==
  ASSUME claims \in ClaimMap, NEW g, NEW gs, NEW s
  PROVE  LET one == CancelClaimsForGrant(claims, g)
             left == CancelClaimsForSession(RetainAfterExit(claims, gs, s), gs, s) IN
         /\ one \in ClaimMap /\ left \in ClaimMap
         /\ \A c \in CeremonyIds : /\ one[c] = claims[c] \/ one[c] = NoClaim
                                   /\ left[c] = claims[c] \/ left[c] = NoClaim
                                   /\ one[c] # NoClaim => one[c].grant # g
<1>1. claims \in [CeremonyIds -> Claim \cup {NoClaim}]
  BY DEF ClaimMap
<1> DEFINE mid == RetainAfterExit(claims, gs, s)
<1>2. mid \in ClaimMap /\ \A c \in CeremonyIds : mid[c] = claims[c] \/ mid[c] = NoClaim
  BY <1>1 DEF RetainAfterExit, ClaimMap
<1> HIDE DEF mid
<1> DEFINE left == CancelClaimsForSession(mid, gs, s)
<1>3. left \in ClaimMap /\ \A c \in CeremonyIds : left[c] = mid[c] \/ left[c] = NoClaim
  BY <1>2 DEF CancelClaimsForSession, ClaimMap
<1>4. CancelClaimsForGrant(claims, g) \in ClaimMap
  BY <1>1 DEF CancelClaimsForGrant, ClaimMap
<1>5. \A c \in CeremonyIds :
         /\ CancelClaimsForGrant(claims, g)[c] = claims[c] \/ CancelClaimsForGrant(claims, g)[c] = NoClaim
         /\ CancelClaimsForGrant(claims, g)[c] # NoClaim => CancelClaimsForGrant(claims, g)[c].grant # g
  BY <1>1 DEF CancelClaimsForGrant
<1> HIDE DEF left
<1>6. \A c \in CeremonyIds : left[c] = claims[c] \/ left[c] = NoClaim
  BY <1>2, <1>3
<1> QED BY <1>3, <1>4, <1>5, <1>6 DEF left, mid

-----------------------------------------------------------------------------
(* Type correctness.                                                        *)

\* The requests that PromptRefused, a cancellation or a sweep closes wait.
LEMMA ClosedWait ==
  /\ \A s, sc : /\ Matching(s, sc) \in SUBSET IntentIds
                /\ \A i \in Matching(s, sc) : preqs[i].state = "Waiting"
  /\ OverdueRequests \in SUBSET IntentIds
  /\ \A i \in OverdueRequests : preqs[i].state = "Waiting"
BY DEF Matching, OverdueRequests

\* The actions that close requests: their intents, grants and grant requests
\* fade and nothing else changes but the worker, who may come to rest.
Closes ==
  /\ intents' \in Store /\ \A i \in IntentIds : Fades(intents[i], intents'[i])
  /\ preqs' \in [IntentIds -> Preq \cup {NoPreq}]
  /\ \A i \in IntentIds : RequestFades(preqs[i], preqs'[i])
  /\ grants' \in GrantMap /\ \A i \in IntentIds : GrantFades(grants[i], grants'[i])
  /\ greqs' \in RequestMap /\ \A i \in IntentIds : GrantRequestFades(greqs[i], greqs'[i])
  /\ UNCHANGED <<claims, regGen, pending, preqLock, current, lastGen, now, minted, history, others>>
  /\ UNCHANGED worker \/ worker' = IdleWorker

\* Cancellations, sweeps and refused prompts are such steps.
LEMMA ClosingSteps ==
  ASSUME TypeOK, \/ \E i \in IntentIds : CancelPending(i)
                 \/ \E s \in Sessions : CancelPendingForSession(s)
                 \/ CleanupExpiredPending
                 \/ PromptRefused
  PROVE  Closes
<1>0. ASSUME NEW ids \in SUBSET IntentIds, \A i \in ids : preqs[i].state = "Waiting",
             NEW st \in {"Denied", "Cancelled", "TimedOut"}, CloseRequests(ids, st),
             UNCHANGED others, UNCHANGED worker \/ worker' = IdleWorker
      PROVE  Closes
  BY <1>0, CloseEffect DEF Closes
<1>1. CASE \E i \in IntentIds : CancelPending(i)
  <2>1. PICK i \in IntentIds : CancelPending(i)
    BY <1>1
  <2>2. preqs[i].state = "Waiting" /\ CloseRequests({i}, "Cancelled") /\ UNCHANGED <<others, worker>>
    BY <2>1 DEF CancelPending, others, threads
  <2> QED BY <1>0, <2>2
<1>2. CASE \E s \in Sessions : CancelPendingForSession(s)
  <2>1. PICK s \in Sessions : CancelPendingForSession(s)
    BY <1>2
  <2>2. PICK ids : ids = {i \in IntentIds : preqs[i].state = "Waiting" /\ preqs[i].session = s}
    OBVIOUS
  <2>3. CloseRequests(ids, "Cancelled") /\ UNCHANGED <<others, worker>>
    BY <2>1, <2>2 DEF CancelPendingForSession, others, threads
  <2>4. ids \in SUBSET IntentIds /\ \A i \in ids : preqs[i].state = "Waiting"
    BY <2>2
  <2> QED BY <1>0, <2>3, <2>4
<1>3. CASE CleanupExpiredPending
  <2>1. PICK ids : ids = OverdueRequests
    OBVIOUS
  <2>2. CloseRequests(ids, "TimedOut") /\ UNCHANGED <<others, worker>>
    BY <1>3, <2>1 DEF CleanupExpiredPending, others, threads
  <2>3. ids \in SUBSET IntentIds /\ \A i \in ids : preqs[i].state = "Waiting"
    BY <2>1, ClosedWait
  <2> QED BY <1>0, <2>2, <2>3
<1>4. CASE PromptRefused
  <2>1. PICK ids : ids = Matching(worker.session, worker.scope)
    OBVIOUS
  <2>2. ids \in SUBSET IntentIds /\ \A i \in ids : preqs[i].state = "Waiting"
    BY <2>1, ClosedWait
  <2>3. UNCHANGED others /\ worker' = IdleWorker
    BY <1>4 DEF PromptRefused
  <2>4. CASE Cardinality(ids) = 1
    <3>1. CloseRequests(ids, "Denied")
      BY <1>4, <2>1, <2>4 DEF PromptRefused
    <3> QED BY <1>0, <2>2, <2>3, <3>1
  <2>5. CASE Cardinality(ids) # 1
    <3>1. UNCHANGED <<stores, pending, preqs, preqLock, current, lastGen, now, minted, history>>
      BY <1>4, <2>1, <2>5 DEF PromptRefused
    <3>2. UNCHANGED <<intents, grants, greqs, claims, regGen>>
      BY <3>1 DEF stores
    <3> QED BY <2>3, <3>1, <3>2
          DEF Closes, TypeOK, Fades, RequestFades, GrantFades, GrantRequestFades
  <2> QED BY <2>4, <2>5
<1> QED BY <1>1, <1>2, <1>3, <1>4

\* A principal that has its intent, and one that is about to create it.
LEMMA AtPrincipal ==
  ASSUME TypeOK
  PROVE  /\ principal.pc = "create" =>
              /\ principal.session \in Sessions /\ principal.scope \in Scope
              /\ principal.ttl \in Nat /\ principal.kind \in {"isolated", "delegated"}
         /\ principal.pc \in {"request", "insert"} =>
              /\ principal \in Asked /\ principal.intent \in IntentIds /\ principal.preq \in Preq
              /\ principal.preq.session \in Sessions /\ principal.preq.scope.op \in Ops
<1>1. principal \in Asking \cup Asked \cup {IdlePrincipal}
  BY DEF TypeOK
<1>2. principal.pc = "create" => principal \in Asking
  BY <1>1 DEF IdlePrincipal, Asked
<1>3. principal.pc \in {"request", "insert"} => principal \in Asked
  BY <1>1 DEF IdlePrincipal, Asking
<1>4. principal.pc \in {"request", "insert"} => principal.preq \in Preq /\ principal.intent \in IntentIds
  BY <1>3 DEF Asked
<1>5. principal.pc \in {"request", "insert"} =>
        principal.preq.session \in Sessions /\ principal.preq.scope.op \in Ops
  BY <1>4 DEF Preq, Scope
<1> QED BY <1>2, <1>3, <1>4, <1>5 DEF Asking

\* Steps of principals keep the types.
LEMMA TypePrincipal ==
  ASSUME TypeOK, \/ Tick
                 \/ \E s \in Sessions, kind \in Kinds, op \in Ops, ttl \in Ttls :
                      StartRequest(s, kind, op, ttl)
                 \/ PrincipalStep
  PROVE  TypeOK'
<1>1. CASE Tick
  BY <1>1 DEF TypeOK, Tick, stores, threads, history
<1>2. CASE \E s \in Sessions, kind \in Kinds, op \in Ops, ttl \in Ttls : StartRequest(s, kind, op, ttl)
  <2>1. PICK s \in Sessions, kind \in Kinds, op \in Ops, ttl \in Ttls : StartRequest(s, kind, op, ttl)
    BY <1>2
  <2>2. kind \in {"isolated", "delegated"} /\ ttl \in Nat /\ current \in Nat
    BY RuntimeKindsAssumption, RuntimeTtlsAssumption DEF TypeOK
  <2>3. [op |-> op, gen |-> current] \in Scope
    BY <2>2 DEF Scope
  <2>4. principal' \in Asking
    BY <2>1, <2>2, <2>3 DEF StartRequest, Asking
  <2> QED BY <2>1, <2>4 DEF TypeOK, StartRequest, stores, history
<1>3. CASE CreateIntent
  <2>1. PICK swept : swept = CleanupExpired(intents, now)
    OBVIOUS
  <2>2. swept \in Store
    BY <2>1, CleanupFades DEF TypeOK
  <2>3. principal.pc = "create"
    BY <1>3 DEF CreateIntent
  <2>4. /\ principal.session \in Sessions /\ principal.scope \in Scope /\ principal.ttl \in Nat
        /\ principal.kind \in {"isolated", "delegated"} /\ now \in Nat
    BY <2>3, AtPrincipal DEF TypeOK
  <2>5. CASE Cardinality(ActiveIds(swept)) >= MaxIntents
    <3>1. intents' = swept /\ principal' = IdlePrincipal /\ UNCHANGED <<minted, made>>
      BY <1>3, <2>1, <2>5 DEF CreateIntent
    <3> QED BY <1>3, <2>2, <3>1 DEF TypeOK, CreateIntent, grantVars
  <2>6. CASE ~(Cardinality(ActiveIds(swept)) >= MaxIntents)
    <3>1. PICK i \in IntentIds \ minted :
            /\ intents' = [swept EXCEPT ![i] = NewIntent(principal.session, principal.scope,
                                                         now + principal.ttl)]
            /\ minted' = minted \cup {i}
            /\ made' = [made EXCEPT ![i] = [session |-> principal.session, scope |-> principal.scope]]
            /\ principal' =
                 [pc |-> IF principal.kind = "delegated" THEN "request" ELSE "insert",
                  intent |-> i,
                  preq |-> [kind |-> principal.kind, session |-> principal.session,
                            scope |-> principal.scope,
                            deadline |-> Secs(now) + SecsCeil(principal.ttl),
                            state |-> "Waiting"]]
      BY <1>3, <2>1, <2>6 DEF CreateIntent
    <3>2. NewIntent(principal.session, principal.scope, now + principal.ttl) \in Intent
      BY <2>4 DEF NewIntent, Intent, IntentStates
    <3>3. intents' \in Store
      BY <2>2, <3>1, <3>2 DEF Store
    <3>4. Secs(now) + SecsCeil(principal.ttl) \in Nat
      BY <2>4 DEF Secs, SecsCeil
    <3>5. [kind |-> principal.kind, session |-> principal.session, scope |-> principal.scope,
           deadline |-> Secs(now) + SecsCeil(principal.ttl), state |-> "Waiting"] \in Preq
      BY <2>4, <3>4 DEF Preq
    <3>6. principal' \in Asked
      BY <3>1, <3>5 DEF Asked
    <3>7. made' \in [IntentIds -> [session : Sessions, scope : Scope] \cup {Unmade}]
      BY <2>4, <3>1 DEF TypeOK
    <3>8. minted' \subseteq IntentIds \cup CeremonyIds
      BY <3>1 DEF TypeOK
    <3> QED BY <1>3, <3>3, <3>6, <3>7, <3>8 DEF TypeOK, CreateIntent, grantVars
  <2> QED BY <2>5, <2>6
<1>4. ASSUME NEW ttl \in GrantTtls, RequestGrant(ttl) PROVE TypeOK'
  <2>1. /\ principal \in Asked /\ principal.intent \in IntentIds
        /\ principal.preq.session \in Sessions /\ principal.preq.scope.op \in Ops
    BY <1>4, AtPrincipal DEF RequestGrant
  <2>2. ttl \in Nat
    BY RuntimeTtlsAssumption
  <2>3. CASE ttl > 0 /\ ttl <= MaxTtl
    <3> DEFINE q == [session |-> principal.preq.session, ops |-> {principal.preq.scope.op},
                     ttl |-> ttl, status |-> "open"]
    <3>1. q \in Request
      BY <2>1, <2>2 DEF Request
    <3>2. greqs' = [greqs EXCEPT ![principal.intent] = q] /\ principal' = [principal EXCEPT !.pc = "insert"]
      BY <1>4, <2>3 DEF RequestGrant
    <3> HIDE DEF q
    <3>3. greqs' \in RequestMap
      BY <3>1, <3>2 DEF TypeOK, RequestMap
    <3>4. principal' \in Asked
      BY <2>1, <3>2 DEF Asked
    <3> QED BY <1>4, <3>3, <3>4 DEF TypeOK, RequestGrant, history
  <2>4. CASE ~(ttl > 0 /\ ttl <= MaxTtl)
    <3>1. principal' = IdlePrincipal /\ UNCHANGED greqs
      BY <1>4, <2>4 DEF RequestGrant
    <3> QED BY <1>4, <3>1 DEF TypeOK, RequestGrant, history
  <2> QED BY <2>3, <2>4
<1>5. CASE InsertRequest
  <2>1. principal.intent \in IntentIds /\ principal.preq \in Preq
    BY <1>5, AtPrincipal DEF InsertRequest
  <2>2. preqs' \in [IntentIds -> Preq \cup {NoPreq}]
    BY <1>5, <2>1 DEF TypeOK, InsertRequest
  <2> QED BY <1>5, <2>2 DEF TypeOK, InsertRequest, stores, history
<1> QED BY <1>1, <1>2, <1>3, <1>4, <1>5 DEF PrincipalStep

-----------------------------------------------------------------------------
(* The claim of a ceremony, without its case distinctions.                  *)

\* Nothing is claimed: not found, not allowed or rolled back.
ClaimFails ==
  /\ intents' \in Store /\ \A i \in IntentIds : Fades(intents[i], intents'[i])
  /\ grants' \in GrantMap /\ \A g \in IntentIds : GrantFades(grants[g], grants'[g])
  /\ worker' = IdleWorker
  /\ UNCHANGED <<claims, minted>>

\* The ceremony has claimed intent i under the fresh id c, and its grant if the
\* request was a delegated one.
ClaimTakes(i, c) ==
  /\ i \in IntentIds /\ c \in CeremonyIds \ minted
  /\ intents[i] \in Intent /\ intents[i].state = "Approved"
  /\ intents[i].session = worker.session /\ intents[i].scope = worker.scope
  /\ intents' \in Store /\ intents'[i] \in Intent /\ intents'[i].state = "Claimed"
  /\ intents'[i].session = worker.session /\ intents'[i].scope = worker.scope
  /\ \A j \in IntentIds \ {i} : Fades(intents[j], intents'[j])
  /\ grants' \in GrantMap /\ \A g \in IntentIds : GrantFades(grants[g], grants'[g])
  /\ minted' = minted \cup {c}
  /\ worker' \in Working /\ worker'.pc = "publish" /\ worker'.intent = i /\ worker'.cer = c
  /\ worker'.session = worker.session /\ worker'.scope = worker.scope
  /\ claims' \in ClaimMap /\ \A d \in CeremonyIds \ {c} : claims'[d] = claims[d]
  /\ \/ claims'[c] = claims[c]
     \/ /\ claims'[c] \in Claim /\ claims'[c].grant \in IntentIds
        /\ grants[claims'[c].grant].state = "Active"

\* authorize_bound and authorize, the section under intents and grants.
LEMMA ClaimSteps ==
  ASSUME TypeOK, ClaimBound
  PROVE  ClaimFails \/ \E i \in IntentIds, c \in CeremonyIds : ClaimTakes(i, c)
<1>1. PICK w, found, swept :
        /\ w = worker /\ found = Claimable(intents, w.session, w.scope, now)
        /\ swept = CheckExpired(grants, Secs(now))
  OBVIOUS
<1>2. PICK allowed : allowed = ClaimAllowed(swept, w.grant, w.session, w.scope.op, regGen, Ops)
  OBVIOUS
<1>3. /\ w \in Working /\ w.scope.op \in Ops /\ w.grant \in IntentIds \cup {NoId}
      /\ w.session \in Sessions /\ w.scope \in Scope /\ w.pc = "claim"
  BY <1>1, AtWork DEF ClaimBound
<1>4. /\ intents \in Store /\ grants \in GrantMap /\ claims \in ClaimMap
  BY DEF TypeOK
<1>5. ASSUME NEW i \in found
      PROVE  LET nx == ClaimApproved(intents, i, now) IN
             /\ i \in IntentIds /\ intents[i] \in Intent /\ intents[i].state = "Approved"
             /\ intents[i].session = w.session /\ intents[i].scope = w.scope
             /\ nx \in Store
             /\ nx[i] \in Intent /\ nx[i].state = "Claimed" /\ nx[i].session = w.session
             /\ nx[i].scope = w.scope
             /\ \A j \in IntentIds \ {i} : Fades(intents[j], nx[j])
  <2>1. PICK s, sc : s = w.session /\ sc = w.scope
    OBVIOUS
  <2>2. i \in Claimable(intents, s, sc, now)
    BY <1>1, <2>1
  <2> QED BY <1>4, <2>1, <2>2, ClaimEffect
<1>6. ASSUME NEW i \in found, intents' = RollbackClaim(ClaimApproved(intents, i, now), i)
      PROVE  intents' \in Store /\ \A j \in IntentIds : Fades(intents[j], intents'[j])
  <2>1. PICK nx : nx = ClaimApproved(intents, i, now)
    OBVIOUS
  <2>2. /\ i \in IntentIds /\ intents[i] \in Intent /\ intents[i].state = "Approved"
        /\ intents[i].session = w.session /\ intents[i].scope = w.scope
        /\ nx \in Store
        /\ nx[i] \in Intent /\ nx[i].state = "Claimed" /\ nx[i].session = w.session
        /\ nx[i].scope = w.scope
        /\ \A j \in IntentIds \ {i} : Fades(intents[j], nx[j])
    BY <1>5, <2>1
  <2>3. PICK ny : ny = RollbackClaim(nx, i)
    OBVIOUS
  <2>4. /\ ny \in Store /\ \A j \in IntentIds \ {i} : ny[j] = nx[j]
        /\ ny[i] \in Intent /\ ny[i].state = "Approved" /\ ny[i].session = w.session
        /\ ny[i].scope = w.scope
    BY <2>2, <2>3, RollbackEffect
  <2>5. intents' = ny
    BY <1>6, <2>1, <2>3
  <2>6. Fades(intents[i], ny[i])
    BY <2>2, <2>4 DEF Fades
  <2> QED BY <2>2, <2>4, <2>5, <2>6
<1>7. \A g \in IntentIds : grants[g] = grants[g] /\ GrantFades(grants[g], grants[g])
  BY DEF GrantFades
<1>8. swept \in GrantMap /\ \A g \in IntentIds : GrantFades(grants[g], swept[g])
  <2>1. ASSUME NEW g \in IntentIds
        PROVE  swept \in GrantMap /\ \A h \in IntentIds : GrantFades(grants[h], swept[h])
    BY <1>1, GrantEffects
  <2>2. CASE IntentIds = {}
    BY <1>1, <2>2 DEF CheckExpired, GrantMap
  <2> QED BY <2>1, <2>2
<1>9. ASSUME NEW i \in found, NEW c \in CeremonyIds \ minted,
             intents' = ClaimApproved(intents, i, now), minted' = minted \cup {c},
             worker' = [w EXCEPT !.pc = "publish", !.intent = i, !.cer = c],
             grants' \in GrantMap, \A g \in IntentIds : GrantFades(grants[g], grants'[g]),
             claims' \in ClaimMap, \A d \in CeremonyIds \ {c} : claims'[d] = claims[d],
             \/ claims'[c] = claims[c]
             \/ /\ claims'[c] \in Claim /\ claims'[c].grant \in IntentIds
                /\ grants[claims'[c].grant].state = "Active"
      PROVE  ClaimTakes(i, c)
  <2>1. PICK nx : nx = ClaimApproved(intents, i, now)
    OBVIOUS
  <2>2. /\ i \in IntentIds /\ intents[i] \in Intent /\ intents[i].state = "Approved"
        /\ intents[i].session = w.session /\ intents[i].scope = w.scope
        /\ nx \in Store
        /\ nx[i] \in Intent /\ nx[i].state = "Claimed" /\ nx[i].session = w.session
        /\ nx[i].scope = w.scope
        /\ \A j \in IntentIds \ {i} : Fades(intents[j], nx[j])
    BY <1>5, <2>1
  <2>3. intents' = nx
    BY <1>9, <2>1
  <2>4. /\ worker' \in Working /\ worker'.pc = "publish" /\ worker'.intent = i /\ worker'.cer = c
        /\ worker'.session = w.session /\ worker'.scope = w.scope
    BY <1>3, <1>9, <2>2 DEF Working, WorkerStages
  <2> QED BY <1>1, <1>9, <2>2, <2>3, <2>4 DEF ClaimTakes
<1>10. CASE found = {} /\ intents' = CleanupExpired(intents, now) /\ worker' = IdleWorker
            /\ UNCHANGED <<grants, claims, minted>>
  <2>1. intents' \in Store /\ \A j \in IntentIds : Fades(intents[j], intents'[j])
    BY <1>4, <1>10, CleanupFades
  <2> QED BY <1>4, <1>7, <1>10, <2>1 DEF ClaimFails
<1>11. CASE \E i \in found :
          /\ w.grant = NoId
          /\ UNCHANGED <<grants, claims>>
          /\ \E c \in CeremonyIds \ minted :
               /\ intents' = ClaimApproved(intents, i, now)
               /\ minted' = minted \cup {c}
               /\ worker' = [w EXCEPT !.pc = "publish", !.intent = i, !.cer = c]
  <2>1. PICK i \in found, c \in CeremonyIds \ minted :
               /\ UNCHANGED <<grants, claims>>
               /\ intents' = ClaimApproved(intents, i, now)
               /\ minted' = minted \cup {c}
               /\ worker' = [w EXCEPT !.pc = "publish", !.intent = i, !.cer = c]
    BY <1>11
  <2>2. ClaimTakes(i, c)
    BY <1>4, <1>7, <1>9, <2>1
  <2> QED BY <2>2 DEF ClaimTakes
<1>12. CASE \E i \in found :
          /\ w.request = NoId
          /\ intents' = RollbackClaim(ClaimApproved(intents, i, now), i)
          /\ worker' = IdleWorker
          /\ UNCHANGED <<grants, claims, minted>>
  BY <1>4, <1>6, <1>7, <1>12 DEF ClaimFails
<1>13. CASE \E i \in found :
          /\ w.grant # NoId /\ grants' = swept
          /\ \/ /\ allowed
                /\ \E c \in CeremonyIds \ minted :
                     /\ intents' = ClaimApproved(intents, i, now)
                     /\ claims' = [claims EXCEPT ![c] =
                          [grant |-> w.grant, op |-> w.scope.op, consumed |-> "no"]]
                     /\ minted' = minted \cup {c}
                     /\ worker' = [w EXCEPT !.pc = "publish", !.intent = i, !.cer = c]
             \/ /\ ~allowed
                /\ intents' = RollbackClaim(ClaimApproved(intents, i, now), i)
                /\ worker' = IdleWorker
                /\ UNCHANGED <<claims, minted>>
  <2>1. grants' = swept /\ w.grant \in IntentIds
    BY <1>3, <1>13
  <2>2. CASE allowed
    <3>1. PICK i \in found, c \in CeremonyIds \ minted :
                     /\ intents' = ClaimApproved(intents, i, now)
                     /\ claims' = [claims EXCEPT ![c] =
                          [grant |-> w.grant, op |-> w.scope.op, consumed |-> "no"]]
                     /\ minted' = minted \cup {c}
                     /\ worker' = [w EXCEPT !.pc = "publish", !.intent = i, !.cer = c]
      BY <1>13, <2>2
    <3>2. grants[w.grant].state = "Active"
      <4>1. swept[w.grant].state = "Active"
        BY <1>2, <2>2 DEF ClaimAllowed
      <4>2. swept[w.grant] # NoGrant
        BY <4>1 DEF NoGrant
      <4>3. GrantFades(grants[w.grant], swept[w.grant])
        BY <1>8, <2>1
      <4> QED BY <4>1, <4>2, <4>3 DEF GrantFades
    <3>3. [grant |-> w.grant, op |-> w.scope.op, consumed |-> "no"] \in Claim
      BY <1>3, <2>1 DEF Claim
    <3>4. /\ claims' \in ClaimMap /\ \A d \in CeremonyIds \ {c} : claims'[d] = claims[d]
          /\ claims'[c] = [grant |-> w.grant, op |-> w.scope.op, consumed |-> "no"]
      BY <1>4, <3>1, <3>3 DEF ClaimMap
    <3>5. claims'[c] \in Claim /\ claims'[c].grant = w.grant
      BY <3>3, <3>4
    <3>6. ClaimTakes(i, c)
      BY <1>8, <1>9, <2>1, <3>1, <3>2, <3>4, <3>5
    <3> QED BY <3>6 DEF ClaimTakes
  <2>3. CASE ~allowed
    BY <1>6, <1>8, <1>13, <2>1, <2>3 DEF ClaimFails
  <2> QED BY <2>2, <2>3
<1> QED BY <1>1, <1>2, <1>10, <1>11, <1>12, <1>13 DEF ClaimBound

-----------------------------------------------------------------------------
(* The approval of a request, without its case distinctions.                *)

\* Request i is settled or stays, its intent and its grant follow.
Approves(i) ==
  /\ i \in IntentIds /\ preqs[i] \in Preq
  /\ intents' \in Store /\ \A j \in IntentIds \ {i} : intents'[j] = intents[j]
  /\ preqs' \in [IntentIds -> Preq \cup {NoPreq}]
  /\ \A j \in IntentIds \ {i} : preqs'[j] = preqs[j]
  /\ preqs'[i] \in Preq /\ preqs'[i].kind = preqs[i].kind
  /\ preqs'[i] = preqs[i] \/ preqs'[i].state = "Approved"
  /\ \/ /\ approvals' = approvals /\ Fades(intents[i], intents'[i])
     \/ /\ approvals' = approvals \cup {i}
        /\ preqs[i].kind = "isolated" => preqs'[i].state = "Approved"
        /\ intents[i] \in Intent /\ intents[i].state = "Pending"
        /\ intents'[i] \in Intent /\ intents'[i].state = "Approved"
        /\ intents'[i].session = intents[i].session /\ intents'[i].scope = intents[i].scope
  /\ grants' \in GrantMap /\ greqs' \in RequestMap
  /\ \A j \in IntentIds \ {i} : grants'[j] = grants[j] /\ greqs'[j] = greqs[j]
  /\ \/ grants'[i] = grants[i] /\ greqs'[i] = greqs[i]
     \/ greqs[i].status = "open" /\ greqs'[i].status = "granted"
  /\ worker' \in Working \cup {IdleWorker} /\ worker'.pc \in {"bound", "idle"}
  /\ preqLock' = "free"

\* ceremony_resolve_pending, the section under requests, intents and grants.
LEMMA ApproveSteps ==
  ASSUME TypeOK, worker.intent \in IntentIds, preqs[worker.intent] # NoPreq, ResolveApprove
  PROVE  Approves(worker.intent)
<1>1. PICK i : i = worker.intent
  OBVIOUS
<1>2. i \in IntentIds /\ preqs[i] # NoPreq
  BY <1>1
<1>3. /\ intents \in Store /\ grants \in [IntentIds -> Grant \cup {NoGrant}]
      /\ greqs \in [IntentIds -> Request \cup {NoRequest}]
      /\ preqs \in [IntentIds -> Preq \cup {NoPreq}] /\ regGen \in Nat /\ now \in Nat
  BY DEF TypeOK, GrantMap, RequestMap
<1>4. worker \in Working /\ worker.pc = "approve"
  BY AtWork DEF ResolveApprove
<1>5. PICK ok, delegated, granted, grantable, done :
        /\ ok = ResolveOk(intents, i, "Approved", now)
        /\ delegated = (preqs[i].kind = "delegated")
        /\ granted = (greqs[i].status = "granted")
        /\ grantable = (greqs[i].status = "open" /\ Cardinality(ActiveGrants(grants)) < MaxConcurrent)
        /\ done = (ok /\ (delegated => granted \/ grantable))
  OBVIOUS
<1>6. /\ preqLock' = "free"
      /\ intents' = IF intents[i] = NoIntent THEN intents ELSE Resolve(intents, i, "Approved", now)
      /\ approvals' = IF ok THEN approvals \cup {i} ELSE approvals
      /\ IF ok /\ delegated /\ ~granted /\ grantable
         THEN /\ grants' = [grants EXCEPT ![i] = NewGrant(greqs[i], regGen, MaxTtl, Secs(now))]
              /\ greqs' = [greqs EXCEPT ![i].status = "granted"]
         ELSE UNCHANGED <<grants, greqs>>
      /\ preqs' = IF done THEN [preqs EXCEPT ![i].state = "Approved"] ELSE preqs
      /\ worker' = IF done
                   THEN [worker EXCEPT !.pc = "bound", !.grant = IF delegated THEN i ELSE NoId]
                   ELSE IdleWorker
  BY <1>1, <1>5 DEF ResolveApprove
<1>7. /\ preqs' \in [IntentIds -> Preq \cup {NoPreq}] /\ preqs[i] \in Preq
      /\ \A j \in IntentIds \ {i} : preqs'[j] = preqs[j]
      /\ preqs'[i] \in Preq /\ preqs'[i].kind = preqs[i].kind
      /\ IF done THEN preqs'[i].state = "Approved" ELSE preqs'[i] = preqs[i]
  <2>1. CASE done
    <3>1. preqs' = [preqs EXCEPT ![i].state = "Approved"]
      BY <1>6, <2>1
    <3> QED BY <1>2, <2>1, <3>1, SettleEffect
  <2>2. CASE ~done
    BY <1>2, <1>3, <1>6, <2>2
  <2> QED BY <2>1, <2>2
<1>8. /\ intents' \in Store /\ \A j \in IntentIds \ {i} : intents'[j] = intents[j]
      /\ IF ok THEN /\ intents[i] \in Intent /\ intents[i].state = "Pending"
                    /\ intents'[i] = [intents[i] EXCEPT !.state = "Approved"]
         ELSE Fades(intents[i], intents'[i])
  <2>1. CASE intents[i] = NoIntent
    <3>1. ~CanTransition(intents[i], "Approved")
      BY <2>1 DEF CanTransition, Transitions, NoIntent
    <3>2. ~ResolveOk(intents, i, "Approved", now)
      BY <3>1 DEF ResolveOk
    <3>3. intents' = intents
      BY <1>6, <2>1
    <3> QED BY <1>3, <1>5, <3>2, <3>3 DEF Fades
  <2>2. CASE intents[i] # NoIntent
    <3>1. intents' = Resolve(intents, i, "Approved", now)
      BY <1>6, <2>2
    <3> QED BY <1>2, <1>3, <1>5, <3>1, ApproveEffect
  <2> QED BY <2>1, <2>2
<1>9. ok => /\ intents'[i] \in Intent /\ intents'[i].state = "Approved"
            /\ intents'[i].session = intents[i].session /\ intents'[i].scope = intents[i].scope
  BY <1>8 DEF Intent, IntentStates
<1>10. ok /\ preqs[i].kind = "isolated" => done
  BY <1>5
<1>11. /\ grants' \in GrantMap /\ greqs' \in RequestMap
       /\ \A j \in IntentIds \ {i} : grants'[j] = grants[j] /\ greqs'[j] = greqs[j]
       /\ \/ grants'[i] = grants[i] /\ greqs'[i] = greqs[i]
          \/ greqs[i].status = "open" /\ greqs'[i].status = "granted"
  <2>1. CASE ok /\ delegated /\ ~granted /\ grantable
    <3>1. /\ grants' = [grants EXCEPT ![i] = NewGrant(greqs[i], regGen, MaxTtl, Secs(now))]
          /\ greqs' = [greqs EXCEPT ![i].status = "granted"] /\ greqs[i].status = "open"
      BY <1>5, <1>6, <2>1
    <3>2. greqs[i] \in Request
      BY <1>2, <1>3, <3>1 DEF NoRequest
    <3>3. [greqs[i] EXCEPT !.status = "granted"] \in Request
      BY <3>2 DEF Request
    <3>4. Secs(now) + ClampTtl(greqs[i].ttl, MaxTtl) \in Nat
      BY <1>3, <3>2, RuntimeLimitsAssumption DEF Request, Secs, ClampTtl
    <3>5. NewGrant(greqs[i], regGen, MaxTtl, Secs(now)) \in Grant
      BY <1>3, <3>2, <3>4 DEF NewGrant, Grant, GrantStates, Request
    <3>6. grants' \in GrantMap /\ \A j \in IntentIds \ {i} : grants'[j] = grants[j]
      BY <1>2, <1>3, <3>1, <3>5 DEF GrantMap
    <3>7. /\ greqs' \in RequestMap /\ \A j \in IntentIds \ {i} : greqs'[j] = greqs[j]
          /\ greqs'[i].status = "granted"
      BY <1>2, <1>3, <3>1, <3>3 DEF RequestMap
    <3> QED BY <3>1, <3>6, <3>7
  <2>2. CASE ~(ok /\ delegated /\ ~granted /\ grantable)
    BY <1>3, <1>6, <2>2 DEF GrantMap, RequestMap
  <2> QED BY <2>1, <2>2
<1>12. worker' \in Working \cup {IdleWorker} /\ worker'.pc \in {"bound", "idle"}
  BY <1>2, <1>4, <1>6 DEF Working, WorkerStages, IdleWorker
<1>13. preqs'[i] = preqs[i] \/ preqs'[i].state = "Approved"
  BY <1>7
<1>14. \/ /\ approvals' = approvals /\ Fades(intents[i], intents'[i])
       \/ /\ approvals' = approvals \cup {i}
          /\ preqs[i].kind = "isolated" => preqs'[i].state = "Approved"
          /\ intents[i] \in Intent /\ intents[i].state = "Pending"
          /\ intents'[i] \in Intent /\ intents'[i].state = "Approved"
          /\ intents'[i].session = intents[i].session /\ intents'[i].scope = intents[i].scope
  <2>1. CASE ok
    BY <1>6, <1>7, <1>8, <1>9, <1>10, <2>1
  <2>2. CASE ~ok
    BY <1>6, <1>8, <2>2
  <2> QED BY <2>1, <2>2
<1>15. preqLock' = "free"
  BY <1>6
<1> QED BY <1>1, <1>2, <1>7, <1>8, <1>11, <1>12, <1>13, <1>14, <1>15 DEF Approves

-----------------------------------------------------------------------------
(* Type correctness, the other steps.                                       *)

\* Steps that close requests keep the types.
LEMMA TypeClosing ==
  ASSUME TypeOK, Closes
  PROVE  TypeOK'
BY DEF TypeOK, Closes, others, history

\* Steps of the worker that only move it on keep the types.
LEMMA TypeWorkerMoves ==
  ASSUME TypeOK, worker' \in Working \cup {IdleWorker},
         UNCHANGED <<stores, pending, preqs, preqLock, current, lastGen, now, minted, others, history>>
  PROVE  TypeOK'
BY DEF TypeOK, stores, others, history

\* The steps of a ceremony that only move it on.
Moves ==
  \/ CheckGeneration \/ AuditRefuses \/ CheckHandle \/ ConsumeCheckGeneration \/ CheckGrant
  \/ \E i \in IntentIds : StartCeremony(i)
  \/ \E s \in Sessions, op \in Ops : StartAuthorize(s, op)

\* They lead to a stage without an intent in hand or keep what was in hand.
LEMMA MovingSteps ==
  ASSUME TypeOK, Moves
  PROVE  /\ worker' \in Working \cup {IdleWorker}
         /\ UNCHANGED <<stores, pending, preqs, preqLock, current, lastGen, now, minted, others, history>>
         /\ \/ worker'.pc \in {"idle", "prompt", "claim"}
            \/ /\ worker.pc \in {"consume", "checkGen", "checkGrant"}
               /\ worker'.pc \in {"checkGen", "checkGrant", "consumeIntent", "abort"}
               /\ worker'.intent = worker.intent /\ worker'.session = worker.session
               /\ worker'.scope = worker.scope /\ worker'.cer = worker.cer
<1>0. IdleWorker.pc = "idle"
  BY DEF IdleWorker
<1>1. CASE CheckGeneration
  <2>1. worker \in Working
    BY <1>1, AtWork DEF CheckGeneration
  <2>2. worker' = IdleWorker \/ (worker' = [worker EXCEPT !.pc = "claim"])
    BY <1>1 DEF CheckGeneration
  <2>3. worker' = IdleWorker \/ (worker' \in Working /\ worker'.pc = "claim")
    BY <2>1, <2>2 DEF Working, WorkerStages
  <2> QED BY <1>0, <1>1, <2>3 DEF CheckGeneration
<1>2. CASE AuditRefuses
  BY <1>0, <1>2 DEF AuditRefuses
<1>3. CASE CheckHandle
  <2>1. worker \in Working /\ worker.pc = "consume"
    BY <1>3, AtWork DEF CheckHandle
  <2>2. worker' = IdleWorker \/ worker' = [worker EXCEPT !.pc = "checkGen"]
    BY <1>3 DEF CheckHandle, Goto
  <2>3. CASE worker' = IdleWorker
    BY <1>0, <1>3, <2>3 DEF CheckHandle
  <2>4. CASE worker' = [worker EXCEPT !.pc = "checkGen"]
    BY <1>3, <2>1, <2>4 DEF CheckHandle, Working, WorkerStages
  <2> QED BY <2>2, <2>3, <2>4
<1>4. CASE ConsumeCheckGeneration
  <2>1. worker \in Working /\ worker.pc = "checkGen"
    BY <1>4, AtWork DEF ConsumeCheckGeneration
  <2>2. PICK pc \in {"abort", "checkGrant", "consumeIntent"} : worker' = [worker EXCEPT !.pc = pc]
    BY <1>4 DEF ConsumeCheckGeneration, Goto
  <2> QED BY <1>4, <2>1, <2>2 DEF ConsumeCheckGeneration, Working, WorkerStages
<1>5. CASE CheckGrant
  <2>1. worker \in Working /\ worker.pc = "checkGrant"
    BY <1>5, AtWork DEF CheckGrant
  <2>2. PICK pc \in {"abort", "consumeIntent"} : worker' = [worker EXCEPT !.pc = pc]
    BY <1>5 DEF CheckGrant, Goto
  <2> QED BY <1>5, <2>1, <2>2 DEF CheckGrant, Working, WorkerStages
<1>6. ASSUME NEW i \in IntentIds, StartCeremony(i)
      PROVE  /\ worker' \in Working /\ worker'.pc = "prompt"
             /\ UNCHANGED <<stores, pending, preqs, preqLock, current, lastGen, now, minted, others,
                            history>>
  <2>1. preqs[i] \in Preq /\ worker' = Ceremony("prompt", i, preqs[i].session, preqs[i].scope)
    BY <1>6 DEF StartCeremony, TypeOK
  <2>2. preqs[i].session \in Sessions /\ preqs[i].scope \in Scope
    BY <2>1 DEF Preq
  <2> QED BY <1>6, <2>1, <2>2 DEF StartCeremony, Ceremony, Working, WorkerStages
<1>7. ASSUME NEW s \in Sessions, NEW op \in Ops, StartAuthorize(s, op)
      PROVE  /\ worker' \in Working /\ worker'.pc = "claim"
             /\ UNCHANGED <<stores, pending, preqs, preqLock, current, lastGen, now, minted, others,
                            history>>
  <2>1. [op |-> op, gen |-> current] \in Scope
    BY DEF TypeOK, Scope
  <2> QED BY <1>7, <2>1 DEF StartAuthorize, Ceremony, Working, WorkerStages
<1>8. CASE \E i \in IntentIds : StartCeremony(i)
  BY <1>6, <1>8
<1>9. CASE \E s \in Sessions, op \in Ops : StartAuthorize(s, op)
  BY <1>7, <1>9
<1> QED BY <1>1, <1>2, <1>3, <1>4, <1>5, <1>8, <1>9 DEF Moves

\* ResolveMatch, without its case distinctions.
LEMMA MatchSteps ==
  ASSUME TypeOK, ResolveMatch
  PROVE  /\ worker' \in Working \cup {IdleWorker}
         /\ preqs' \in [IntentIds -> Preq \cup {NoPreq}]
         /\ \A i \in IntentIds : RequestFades(preqs[i], preqs'[i])
         /\ \/ worker'.pc = "idle" /\ preqLock' = preqLock
            \/ /\ worker'.pc = "approve" /\ preqLock' = "worker" /\ worker'.intent \in IntentIds
               /\ preqs[worker'.intent] \in Preq
         /\ UNCHANGED <<stores, pending, current, lastGen, now, minted, others, history>>
<1>0. /\ IdleWorker.pc = "idle" /\ preqs \in [IntentIds -> Preq \cup {NoPreq}] /\ worker \in Working
      /\ \A i \in IntentIds : RequestFades(preqs[i], preqs[i])
      /\ UNCHANGED <<stores, pending, current, lastGen, now, minted, others, history>>
  BY AtWork DEF IdleWorker, TypeOK, RequestFades, ResolveMatch
<1>1. ASSUME NEW i \in IntentIds, preqs[i].state = "Waiting", NEW st \in {"TimedOut", "Cancelled"},
             preqs' = [preqs EXCEPT ![i].state = st]
      PROVE  /\ preqs' \in [IntentIds -> Preq \cup {NoPreq}]
             /\ \A j \in IntentIds : RequestFades(preqs[j], preqs'[j])
  <2>1. preqs[i] # NoPreq
    BY <1>1 DEF NoPreq
  <2>2. st \in {"Waiting", "Approved", "Denied", "Cancelled", "TimedOut"}
    OBVIOUS
  <2>3. /\ preqs' \in [IntentIds -> Preq \cup {NoPreq}]
        /\ preqs[i] \in Preq /\ preqs'[i] \in Preq /\ preqs'[i].kind = preqs[i].kind
        /\ \A j \in IntentIds \ {i} : preqs'[j] = preqs[j]
    BY <1>1, <2>1, <2>2, SettleEffect
  <2> QED BY <1>1, <2>3 DEF RequestFades
<1>2. PICK found : found = Matching(worker.session, worker.scope)
  OBVIOUS
<1>3. \A i \in found : i \in IntentIds /\ preqs[i].state = "Waiting"
  BY <1>2 DEF Matching
<1>4. CASE worker' = IdleWorker /\ UNCHANGED <<preqs, preqLock>>
  BY <1>0, <1>4
<1>5. CASE \E i \in found : \E st \in {"TimedOut", "Cancelled"} :
             preqs' = [preqs EXCEPT ![i].state = st] /\ worker' = IdleWorker /\ UNCHANGED preqLock
  <2>1. PICK i \in found, st \in {"TimedOut", "Cancelled"} :
             preqs' = [preqs EXCEPT ![i].state = st] /\ worker' = IdleWorker /\ UNCHANGED preqLock
    BY <1>5
  <2>2. /\ preqs' \in [IntentIds -> Preq \cup {NoPreq}]
        /\ \A j \in IntentIds : RequestFades(preqs[j], preqs'[j])
    BY <1>1, <1>3, <2>1
  <2> QED BY <1>0, <2>1, <2>2
<1>6. CASE \E i \in found : /\ preqLock' = "worker"
                            /\ worker' = [worker EXCEPT !.pc = "approve", !.intent = i]
                            /\ UNCHANGED preqs
  <2>1. PICK i \in found : /\ preqLock' = "worker"
                           /\ worker' = [worker EXCEPT !.pc = "approve", !.intent = i]
                           /\ UNCHANGED preqs
    BY <1>6
  <2>2. i \in IntentIds /\ preqs[i] \in Preq
    BY <1>0, <1>3 DEF NoPreq
  <2>3. worker' \in Working /\ worker'.pc = "approve" /\ worker'.intent = i
    BY <1>0, <2>1, <2>2 DEF Working, WorkerStages
  <2> QED BY <1>0, <2>1, <2>2, <2>3
<1> QED BY <1>2, <1>4, <1>5, <1>6 DEF ResolveMatch

\* The worker has the same ceremony in hand, at another stage.
SameCeremony ==
  /\ worker' \in Working /\ worker'.intent = worker.intent /\ worker'.session = worker.session
  /\ worker'.scope = worker.scope /\ worker'.cer = worker.cer

\* What a worker beyond its claim has in hand.
LEMMA InHand ==
  ASSUME TypeOK, WorkerHolds, worker.pc \in Holding
  PROVE  /\ worker \in Working /\ worker.intent \in IntentIds /\ worker.cer \in CeremonyIds
         /\ worker.session \in Sessions /\ worker.scope \in Scope
         /\ worker.grant \in IntentIds \cup {NoId}
         /\ worker.intent \in minted /\ worker.cer \in minted
BY AtWork DEF WorkerHolds, Holding

\* A move to another stage keeps the ceremony.
LEMMA GotoSame ==
  ASSUME worker \in Working, NEW pc \in WorkerStages, Goto(pc)
  PROVE  SameCeremony /\ worker'.pc = pc
BY DEF Goto, SameCeremony, Working

\* consume_authorization marks the intent, or fails.
LEMMA ConsumeSteps ==
  ASSUME TypeOK, WorkerHolds, ConsumeIntent
  PROVE  /\ intents' \in Store
         /\ \A j \in IntentIds \ {worker.intent} : intents'[j] = intents[j]
         /\ \/ worker' = IdleWorker /\ intents' = intents
            \/ /\ SameCeremony /\ worker'.pc \in {"consumeGrant", "finish"}
               /\ intents[worker.intent] \in Intent /\ intents[worker.intent].state = "Claimed"
               /\ intents'[worker.intent] \in Intent /\ intents'[worker.intent].state = "Consumed"
               /\ intents'[worker.intent].session = intents[worker.intent].session
               /\ intents'[worker.intent].scope = intents[worker.intent].scope
         /\ UNCHANGED <<grantVars, pending, preqs, preqLock, current, lastGen, now, minted, others,
                        history>>
<1>1. worker.pc = "consumeIntent" /\ worker \in Working /\ worker.intent \in IntentIds /\ intents \in Store
  BY InHand DEF ConsumeIntent, Holding, TypeOK
<1>2. UNCHANGED <<grantVars, pending, preqs, preqLock, current, lastGen, now, minted, others, history>>
  BY DEF ConsumeIntent
<1>3. CASE ConsumeOk(intents, worker.intent)
  <2>1. PICK i : i = worker.intent
    OBVIOUS
  <2>2. i \in IntentIds /\ ConsumeOk(intents, i) /\ intents' = ConsumeClaimed(intents, i)
    BY <1>1, <1>3, <2>1 DEF ConsumeIntent
  <2>3. /\ intents' \in Store /\ intents[i] \in Intent
        /\ \A j \in IntentIds \ {i} : intents'[j] = intents[j]
        /\ intents'[i] \in Intent /\ intents'[i].state = "Consumed"
        /\ intents'[i].session = intents[i].session /\ intents'[i].scope = intents[i].scope
    BY <1>1, <2>2, ConsumeEffect
  <2>4. intents[i].state = "Claimed"
    BY <2>2 DEF ConsumeOk
  <2>5. PICK pc \in {"consumeGrant", "finish"} : Goto(pc)
    BY <1>3 DEF ConsumeIntent
  <2>6. SameCeremony /\ worker'.pc \in {"consumeGrant", "finish"}
    BY <1>1, <2>5, GotoSame DEF WorkerStages
  <2> QED BY <1>2, <2>1, <2>3, <2>4, <2>6
<1>4. CASE ~ConsumeOk(intents, worker.intent)
  BY <1>1, <1>2, <1>4 DEF ConsumeIntent
<1> QED BY <1>3, <1>4

\* invalidate_ceremony: the handle is spent, what was claimed and not consumed
\* is undone.
LEMMA UndoSteps ==
  ASSUME TypeOK, WorkerHolds, InvalidateCeremony, pending[worker.cer] # NoAuth
  PROVE  /\ intents' \in Store
         /\ \A j \in IntentIds \ {worker.intent} : intents'[j] = intents[j]
         /\ IF intents[worker.intent].state = "Claimed"
            THEN /\ intents'[worker.intent] \in Intent /\ intents'[worker.intent].state = "Approved"
                 /\ intents'[worker.intent].session = intents[worker.intent].session
                 /\ intents'[worker.intent].scope = intents[worker.intent].scope
            ELSE intents'[worker.intent] = intents[worker.intent]
         /\ pending' \in [CeremonyIds -> Auth \cup {NoAuth}]
         /\ \A c \in CeremonyIds : HandleFades(pending[c], pending'[c])
         /\ pending'[worker.cer].status = "invalidated"
         /\ claims' \in ClaimMap /\ \A c \in CeremonyIds : ClaimFades(claims[c], claims'[c])
         /\ \/ worker' = IdleWorker
            \/ SameCeremony /\ worker.pc = "finish" /\ worker'.pc = "use"
         /\ UNCHANGED <<grants, greqs, regGen, preqs, preqLock, current, lastGen, now, minted, others,
                        history>>
<1>1. /\ worker.pc \in {"finish", "abort"} /\ worker \in Working /\ worker.intent \in IntentIds
      /\ worker.cer \in CeremonyIds /\ intents \in Store
      /\ pending \in [CeremonyIds -> Auth \cup {NoAuth}] /\ claims \in [CeremonyIds -> Claim \cup {NoClaim}]
  BY InHand DEF InvalidateCeremony, Holding, TypeOK, ClaimMap
<1>2. PICK i, c : i = worker.intent /\ c = worker.cer
  OBVIOUS
<1>3. /\ intents' = RollbackClaim(intents, i)
      /\ pending' = [pending EXCEPT ![c].status = "invalidated"]
      /\ claims' = claims \/ claims' = [claims EXCEPT ![c] = NoClaim]
  BY <1>2 DEF InvalidateCeremony
<1>4. /\ intents' \in Store
      /\ \A j \in IntentIds \ {i} : intents'[j] = intents[j]
      /\ IF intents[i].state = "Claimed"
         THEN intents'[i] \in Intent /\ intents'[i].state = "Approved"
              /\ intents'[i].session = intents[i].session /\ intents'[i].scope = intents[i].scope
         ELSE intents'[i] = intents[i]
  BY <1>1, <1>2, <1>3, RollbackEffect
<1>5. claims' \in ClaimMap /\ \A d \in CeremonyIds : ClaimFades(claims[d], claims'[d])
  BY <1>1, <1>2, <1>3 DEF ClaimMap, ClaimFades
<1> DEFINE y == [pending[c] EXCEPT !.status = "invalidated"]
<1>6. pending[c] \in Auth
  BY <1>1, <1>2
<1>7. y \in Auth /\ y.intent = pending[c].intent /\ y.status = "invalidated"
  BY <1>6 DEF Auth
<1>8. pending' = [pending EXCEPT ![c] = y]
  BY <1>1, <1>2, <1>3
<1> HIDE DEF y
<1>9. /\ pending' \in [CeremonyIds -> Auth \cup {NoAuth}] /\ pending'[c].status = "invalidated"
      /\ \A d \in CeremonyIds : HandleFades(pending[d], pending'[d])
  BY <1>1, <1>2, <1>6, <1>7, <1>8 DEF HandleFades
<1>10. worker' = IdleWorker \/ (SameCeremony /\ worker.pc = "finish" /\ worker'.pc = "use")
  BY <1>1, GotoSame DEF InvalidateCeremony, WorkerStages
<1>11. UNCHANGED <<grants, greqs, regGen, preqs, preqLock, current, lastGen, now, minted, others, history>>
  BY DEF InvalidateCeremony
<1> QED BY <1>2, <1>4, <1>5, <1>9, <1>10, <1>11

\* consume_claim_by_ceremony
LEMMA ConsumeClaimSteps ==
  ASSUME TypeOK, WorkerHolds, ConsumeGrantClaim
  PROVE  /\ worker.pc = "consumeGrant"
         /\ claims' \in ClaimMap /\ \A c \in CeremonyIds : ClaimFades(claims[c], claims'[c])
         /\ \A c \in CeremonyIds : claims'[c] # claims[c] => c = worker.cer /\ claims[c].consumed = "no"
         /\ SameCeremony /\ worker'.pc \in {"finish", "abort"}
         /\ UNCHANGED <<intents, grants, greqs, regGen, pending, preqs, preqLock, current, lastGen, now,
                        minted, others, history>>
<1>1. /\ worker.pc = "consumeGrant" /\ worker \in Working /\ worker.cer \in CeremonyIds
      /\ claims \in [CeremonyIds -> Claim \cup {NoClaim}]
  BY InHand DEF ConsumeGrantClaim, Holding, TypeOK, ClaimMap
<1>2. PICK c : c = worker.cer
  OBVIOUS
<1>3. CASE claims[c].consumed = "no"
  <2>1. claims[c] \in Claim
    BY <1>1, <1>2, <1>3 DEF NoClaim
  <2> DEFINE y == [claims[c] EXCEPT !.consumed = "yes"]
  <2>2. y \in Claim /\ y.consumed = "yes"
    BY <2>1 DEF Claim
  <2>3. claims' = [claims EXCEPT ![c] = y]
    BY <1>1, <1>2, <1>3 DEF ConsumeGrantClaim
  <2> HIDE DEF y
  <2>4. /\ claims' \in ClaimMap /\ \A d \in CeremonyIds : ClaimFades(claims[d], claims'[d])
        /\ \A d \in CeremonyIds : claims'[d] # claims[d] => d = c /\ claims[d].consumed = "no"
    BY <1>1, <1>2, <1>3, <2>2, <2>3 DEF ClaimMap, ClaimFades
  <2>5. SameCeremony /\ worker'.pc = "finish"
    BY <1>1, <1>2, <1>3, GotoSame DEF ConsumeGrantClaim, WorkerStages
  <2> QED BY <1>1, <1>2, <2>4, <2>5 DEF ConsumeGrantClaim
<1>4. CASE claims[c].consumed # "no"
  <2>1. claims' = claims /\ Goto("abort")
    BY <1>2, <1>4 DEF ConsumeGrantClaim
  <2>2. SameCeremony /\ worker'.pc = "abort"
    BY <1>1, <2>1, GotoSame DEF WorkerStages
  <2> QED BY <1>1, <2>1, <2>2 DEF ConsumeGrantClaim, ClaimFades, ClaimMap
<1> QED BY <1>3, <1>4

\* Publishing the handle of the ceremony at work.
LEMMA PublishSteps ==
  ASSUME TypeOK, WorkerHolds, PublishHandle
  PROVE  /\ worker.pc = "publish" /\ SameCeremony /\ worker'.pc = "consume"
         /\ pending' \in [CeremonyIds -> Auth \cup {NoAuth}]
         /\ \A c \in CeremonyIds \ {worker.cer} : pending'[c] = pending[c]
         /\ pending'[worker.cer] \in Auth /\ pending'[worker.cer].intent = worker.intent
         /\ pending'[worker.cer].status = "valid"
         /\ UNCHANGED <<stores, preqs, preqLock, current, lastGen, now, minted, others, history>>
<1>1. /\ worker.pc = "publish" /\ worker \in Working /\ worker.intent \in IntentIds
      /\ worker.cer \in CeremonyIds /\ worker.session \in Sessions
      /\ worker.grant \in IntentIds \cup {NoId} /\ pending \in [CeremonyIds -> Auth \cup {NoAuth}]
  BY InHand DEF PublishHandle, Holding, TypeOK
<1> DEFINE y == [intent |-> worker.intent, grant |-> worker.grant, session |-> worker.session,
                 status |-> "valid"]
<1>2. y \in Auth /\ y.intent = worker.intent /\ y.status = "valid"
  BY <1>1 DEF Auth
<1>3. pending' = [pending EXCEPT ![worker.cer] = y] /\ Goto("consume")
  BY DEF PublishHandle, Goto
<1> HIDE DEF y
<1>4. SameCeremony /\ worker'.pc = "consume"
  BY <1>1, <1>3, GotoSame DEF WorkerStages
<1> QED BY <1>1, <1>2, <1>3, <1>4 DEF PublishHandle

\* Steps of the worker keep the types.
LEMMA TypeWorker ==
  ASSUME TypeOK, WorkerHolds, RequestsSettled, HandlesHeld, WorkerStep
  PROVE  TypeOK'
<1>1. CASE PromptRefused
  BY <1>1, ClosingSteps, TypeClosing
<1>2. CASE CheckGeneration \/ AuditRefuses \/ CheckHandle \/ ConsumeCheckGeneration \/ CheckGrant
  BY <1>2, MovingSteps, TypeWorkerMoves DEF Moves
<1>3. CASE ResolveMatch
  <2>1. preqLock \in {"free", "worker"}
    BY DEF TypeOK
  <2>2. preqLock' \in {"free", "worker"}
    BY <1>3, <2>1, MatchSteps
  <2> QED BY <1>3, <2>2, MatchSteps DEF TypeOK, stores, others, history
<1>4. CASE ResolveApprove
  <2>1. worker.intent \in IntentIds /\ preqs[worker.intent] # NoPreq
    BY <1>4 DEF ResolveApprove, RequestsSettled
  <2>2. Approves(worker.intent)
    BY <1>4, <2>1, ApproveSteps
  <2>3. approvals' \subseteq IntentIds
    BY <2>2 DEF Approves, TypeOK
  <2>4. /\ intents' \in Store /\ grants' \in GrantMap /\ greqs' \in RequestMap
        /\ preqs' \in [IntentIds -> Preq \cup {NoPreq}] /\ preqLock' \in {"free", "worker"}
        /\ worker' \in Working \cup {IdleWorker}
    BY <2>2 DEF Approves
  <2> QED BY <1>4, <2>3, <2>4 DEF TypeOK, ResolveApprove, others
<1>5. CASE ClaimBound
  <2>1. /\ intents' \in Store /\ grants' \in GrantMap /\ claims' \in ClaimMap
        /\ minted' \subseteq IntentIds \cup CeremonyIds /\ worker' \in Working \cup {IdleWorker}
    <3>1. CASE ClaimFails
      BY <3>1 DEF ClaimFails, TypeOK
    <3>2. CASE \E i \in IntentIds, c \in CeremonyIds : ClaimTakes(i, c)
      BY <3>2 DEF ClaimTakes, TypeOK
    <3> QED BY <1>5, <3>1, <3>2, ClaimSteps
  <2> QED BY <1>5, <2>1 DEF TypeOK, ClaimBound, others, history
<1>6. CASE PublishHandle
  BY <1>6, PublishSteps DEF TypeOK, SameCeremony, stores, others, history
<1>7. CASE ConsumeIntent
  <2>1. intents' \in Store /\ worker' \in Working \cup {IdleWorker}
    BY <1>7, ConsumeSteps DEF SameCeremony
  <2> QED BY <1>7, <2>1, ConsumeSteps DEF TypeOK, grantVars, others, history
<1>8. CASE ConsumeGrantClaim
  BY <1>8, ConsumeClaimSteps DEF TypeOK, SameCeremony, others, history
<1>9. CASE InvalidateCeremony
  <2>1. pending[worker.cer] # NoAuth
    BY <1>9 DEF InvalidateCeremony, HandlesHeld, Holding
  <2>2. /\ intents' \in Store /\ worker' \in Working \cup {IdleWorker} /\ claims' \in ClaimMap
        /\ pending' \in [CeremonyIds -> Auth \cup {NoAuth}]
    BY <1>9, <2>1, UndoSteps DEF SameCeremony
  <2> QED BY <1>9, <2>2 DEF TypeOK, InvalidateCeremony, others, history
<1>10. CASE UseKey
  <2>1. /\ worker.intent \in IntentIds /\ worker.cer \in CeremonyIds /\ worker.session \in Sessions
        /\ worker.scope \in Scope
    BY <1>10, InHand DEF UseKey, Holding
  <2>2. keyUses' \subseteq [cer : CeremonyIds, intent : IntentIds, session : Sessions, scope : Scope]
    BY <1>10, <2>1 DEF UseKey, TypeOK
  <2> QED BY <1>10, <2>2 DEF TypeOK, UseKey, stores, others
<1> QED BY <1>1, <1>2, <1>3, <1>4, <1>5, <1>6, <1>7, <1>8, <1>9, <1>10 DEF WorkerStep

\* The administrator's steps.
AdminStep ==
  \/ \E s \in Sessions, op \in Ops, ttl \in Ttls : AdminCreate(s, op, ttl)
  \/ \E i \in IntentIds : AdminResolve(i, "Approved") \/ AdminResolve(i, "Denied")
  \/ \E r \in Reloaders : StartReload(r) \/ ReloadStep(r)
  \/ \E g \in IntentIds : AdminRevokeGrant(g) \/ RevokeGrantById(g)
  \/ RevokePending
  \/ \E s \in Sessions : ExitIntents(s)
  \/ ExitStep

\* admin_create_intent
LEMMA AdminCreateSteps ==
  ASSUME TypeOK, NEW s \in Sessions, NEW op \in Ops, NEW ttl \in Ttls, AdminCreate(s, op, ttl)
  PROVE  \E i \in IntentIds \ minted, sc \in Scope :
           /\ intents' \in Store /\ intents'[i] \in Intent /\ intents'[i].state = "Pending"
           /\ intents'[i].session = s /\ intents'[i].scope = sc
           /\ \A j \in IntentIds \ {i} : Fades(intents[j], intents'[j])
           /\ minted' = minted \cup {i}
           /\ made' = [made EXCEPT ![i] = [session |-> s, scope |-> sc]]
           /\ "admin" \in Actors
           /\ UNCHANGED <<grantVars, pending, preqs, preqLock, current, lastGen, now, threads,
                          approvals, keyUses, wiped, revoked>>
<1>1. PICK swept, sc : swept = CleanupExpired(intents, now) /\ sc = [op |-> op, gen |-> current]
  OBVIOUS
<1>2. swept \in Store /\ (\A j \in IntentIds : Fades(intents[j], swept[j])) /\ now \in Nat /\ ttl \in Nat
  BY <1>1, CleanupFades, RuntimeTtlsAssumption DEF TypeOK
<1>3. sc \in Scope
  BY <1>1 DEF Scope, TypeOK
<1>4. PICK i \in IntentIds \ minted :
        /\ intents' = [swept EXCEPT ![i] = NewIntent(s, sc, now + ttl)]
        /\ minted' = minted \cup {i}
        /\ made' = [made EXCEPT ![i] = [session |-> s, scope |-> sc]]
  BY <1>1 DEF AdminCreate
<1>5. PICK y : y = NewIntent(s, sc, now + ttl)
  OBVIOUS
<1>6. y \in Intent /\ y.state = "Pending" /\ y.session = s /\ y.scope = sc
  BY <1>2, <1>3, <1>5 DEF NewIntent, Intent, IntentStates
<1>7. intents' = [swept EXCEPT ![i] = y]
  BY <1>4, <1>5
<1>8. intents' \in Store /\ intents'[i] = y /\ \A j \in IntentIds \ {i} : Fades(intents[j], intents'[j])
  BY <1>2, <1>6, <1>7 DEF Store
<1> QED BY <1>3, <1>4, <1>6, <1>8, ZenonT(60) DEF AdminCreate

\* admin_approve_intent and admin_deny_intent
LEMMA AdminResolveSteps ==
  ASSUME TypeOK, NEW i \in IntentIds, NEW to \in {"Approved", "Denied"}, AdminResolve(i, to)
  PROVE  /\ intents' \in Store /\ \A j \in IntentIds \ {i} : intents'[j] = intents[j]
         /\ intents[i] \in Intent /\ intents[i].state = "Pending" /\ "admin" \in Actors
         /\ \/ approvals' = approvals /\ Fades(intents[i], intents'[i])
            \/ /\ approvals' = approvals \cup {i}
               /\ intents'[i] \in Intent /\ intents'[i].state = "Approved"
               /\ intents'[i].session = intents[i].session /\ intents'[i].scope = intents[i].scope
         /\ UNCHANGED <<grantVars, pending, preqs, preqLock, current, lastGen, now, minted, threads,
                        made, keyUses, wiped, revoked>>
<1>1. intents \in Store /\ intents[i] \in Intent /\ intents[i].state = "Pending" /\ "admin" \in Actors
  BY DEF AdminResolve, TypeOK, Store, NoIntent
<1>2. UNCHANGED <<grantVars, pending, preqs, preqLock, current, lastGen, now, minted, threads,
                  made, keyUses, wiped, revoked>>
  BY DEF AdminResolve
<1>3. CASE to = "Approved"
  <2>1. /\ intents' = Resolve(intents, i, "Approved", now)
        /\ approvals' = IF ResolveOk(intents, i, "Approved", now) THEN approvals \cup {i} ELSE approvals
    BY <1>3 DEF AdminResolve
  <2>2. /\ intents' \in Store /\ \A j \in IntentIds \ {i} : intents'[j] = intents[j]
        /\ IF ResolveOk(intents, i, "Approved", now)
           THEN intents'[i] = [intents[i] EXCEPT !.state = "Approved"]
           ELSE Fades(intents[i], intents'[i])
    BY <1>1, <2>1, ApproveEffect
  <2>3. CASE ResolveOk(intents, i, "Approved", now)
    <3>1. /\ intents'[i] \in Intent /\ intents'[i].state = "Approved"
          /\ intents'[i].session = intents[i].session /\ intents'[i].scope = intents[i].scope
      BY <1>1, <2>2, <2>3 DEF Intent, IntentStates
    <3> QED BY <1>1, <1>2, <2>1, <2>2, <2>3, <3>1
  <2>4. CASE ~ResolveOk(intents, i, "Approved", now)
    BY <1>1, <1>2, <2>1, <2>2, <2>4
  <2> QED BY <2>3, <2>4
<1>4. CASE to = "Denied"
  <2>1. intents' = Resolve(intents, i, "Denied", now) /\ approvals' = approvals
    BY <1>4 DEF AdminResolve
  <2>2. /\ \A j \in IntentIds \ {i} : intents'[j] = intents[j]
        /\ intents'[i] = IF Overdue(intents[i], now) THEN Expire(intents[i], now)
                         ELSE TransitionTo(intents[i], "Denied")
        /\ intents' = [intents EXCEPT ![i] = intents'[i]]
    BY <1>1, <2>1 DEF Resolve, Store
  <2>3. Fades(intents[i], intents'[i])
    BY <1>1, <2>2, DenyFades
  <2>4. intents'[i] \in Intent \cup {NoIntent}
    BY <1>1, <2>3, FadesType
  <2>5. intents' \in Store
    BY <1>1, <2>2, <2>4 DEF Store
  <2> QED BY <1>1, <1>2, <2>1, <2>2, <2>3, <2>5
<1> QED BY <1>3, <1>4

\* A reload that has begun, at a stage.
LEMMA Reloads ==
  ASSUME TypeOK, NEW r \in Reloaders, reload[r].pc # "idle"
  PROVE  /\ reload[r].gen \in Nat
         /\ \A pc \in {"intents", "pending", "preqs", "grants", "current"} :
              [reload EXCEPT ![r].pc = pc] \in [Reloaders -> Reloading \cup {IdleThread}]
<1>1. reload \in [Reloaders -> Reloading \cup {IdleThread}] /\ reload[r] \in Reloading
  BY DEF TypeOK, IdleThread
<1>2. ASSUME NEW pc \in {"intents", "pending", "preqs", "grants", "current"}
      PROVE  [reload EXCEPT ![r].pc = pc] \in [Reloaders -> Reloading \cup {IdleThread}]
  <2>1. [reload[r] EXCEPT !.pc = pc] \in Reloading
    BY <1>1 DEF Reloading
  <2> QED BY <1>1, <2>1
<1> QED BY <1>1, <1>2 DEF Reloading

\* Steps of the administrator keep the types.
LEMMA TypeAdmin ==
  ASSUME TypeOK, AdminStep
  PROVE  TypeOK'
<1>1. ASSUME NEW s \in Sessions, NEW op \in Ops, NEW ttl \in Ttls, AdminCreate(s, op, ttl)
      PROVE  TypeOK'
  <2>1. PICK i \in IntentIds \ minted, sc \in Scope :
           /\ intents' \in Store /\ minted' = minted \cup {i}
           /\ made' = [made EXCEPT ![i] = [session |-> s, scope |-> sc]]
           /\ UNCHANGED <<grantVars, pending, preqs, preqLock, current, lastGen, now, threads,
                          approvals, keyUses, wiped, revoked>>
    BY <1>1, AdminCreateSteps
  <2>2. made' \in [IntentIds -> [session : Sessions, scope : Scope] \cup {Unmade}]
    BY <2>1 DEF TypeOK
  <2> QED BY <2>1, <2>2 DEF TypeOK, grantVars, threads
<1>2. ASSUME NEW i \in IntentIds, NEW to \in {"Approved", "Denied"}, AdminResolve(i, to)
      PROVE  TypeOK'
  <2>1. intents' \in Store /\ approvals' \subseteq IntentIds
    BY <1>2, AdminResolveSteps DEF TypeOK
  <2> QED BY <1>2, <2>1 DEF TypeOK, AdminResolve, grantVars, threads
<1>3. ASSUME NEW r \in Reloaders, StartReload(r) PROVE TypeOK'
  <2>1. lastGen' \in Nat /\ [pc |-> "intents", gen |-> lastGen + 1] \in Reloading
    BY <1>3 DEF StartReload, TypeOK, Reloading
  <2>2. reload' \in [Reloaders -> Reloading \cup {IdleThread}]
    BY <1>3, <2>1 DEF StartReload, TypeOK
  <2> QED BY <1>3, <2>1, <2>2 DEF TypeOK, StartReload, stores, history
<1>4. ASSUME NEW r \in Reloaders, ReloadStep(r) PROVE TypeOK'
  <2>1. reload[r].gen \in Nat /\ reload' \in [Reloaders -> Reloading \cup {IdleThread}]
    <3>1. reload[r].pc # "idle"
      BY <1>4 DEF ReloadStep, ReloadIntents, ReloadPending, ReloadRequests, ReloadGrants, ReloadCurrent
    <3>2. \/ \E pc \in {"intents", "pending", "preqs", "grants", "current"} :
                reload' = [reload EXCEPT ![r].pc = pc]
          \/ reload' = [reload EXCEPT ![r] = IdleThread]
      BY <1>4 DEF ReloadStep, ReloadIntents, ReloadPending, ReloadRequests, ReloadGrants,
                  ReloadCurrent, ReloadGoto
    <3>3. [reload EXCEPT ![r] = IdleThread] \in [Reloaders -> Reloading \cup {IdleThread}]
      BY DEF TypeOK
    <3>4. /\ reload[r].gen \in Nat
          /\ \A pc \in {"intents", "pending", "preqs", "grants", "current"} :
               [reload EXCEPT ![r].pc = pc] \in [Reloaders -> Reloading \cup {IdleThread}]
      BY <3>1, Reloads
    <3>5. CASE reload' = [reload EXCEPT ![r] = IdleThread]
      BY <3>3, <3>4, <3>5
    <3>6. CASE reload' # [reload EXCEPT ![r] = IdleThread]
      BY <3>2, <3>4, <3>6
    <3> QED BY <3>5, <3>6
  <2>2. CASE ReloadIntents(r)
    <3>1. intents' \in Store /\ wiped' \subseteq IntentIds
      BY <2>2 DEF ReloadIntents, TypeOK, EmptyStore, Store
    <3> QED BY <2>1, <2>2, <3>1 DEF TypeOK, ReloadIntents, grantVars
  <2>3. CASE ReloadPending(r)
    <3>1. pending' \in [CeremonyIds -> Auth \cup {NoAuth}]
      BY <2>3, InvalidatedEffect DEF ReloadPending
    <3> QED BY <2>1, <2>3, <3>1 DEF TypeOK, ReloadPending, stores, history
  <2>4. CASE ReloadRequests(r)
    <3>1. preqs' \in [IntentIds -> Preq \cup {NoPreq}]
      BY <2>4, CancelWaitingEffect DEF ReloadRequests
    <3> QED BY <2>1, <2>4, <3>1 DEF TypeOK, ReloadRequests, stores, history
  <2>5. CASE ReloadGrants(r)
    <3>1. grants' \in GrantMap /\ greqs' \in RequestMap /\ claims' \in ClaimMap
      BY <2>5 DEF ReloadGrants, GrantMap, RequestMap, ClaimMap
    <3> QED BY <2>1, <2>5, <3>1 DEF TypeOK, ReloadGrants, history
  <2>6. CASE ReloadCurrent(r)
    BY <2>1, <2>6 DEF TypeOK, ReloadCurrent, stores, history
  <2> QED BY <1>4, <2>2, <2>3, <2>4, <2>5, <2>6 DEF ReloadStep
<1>5. ASSUME NEW g \in IntentIds, AdminRevokeGrant(g) PROVE TypeOK'
  <2>1. grants' \in GrantMap
    BY <1>5, GrantEffects DEF AdminRevokeGrant
  <2>2. claims' \in ClaimMap
    BY <1>5, ClaimEffects DEF AdminRevokeGrant, TypeOK
  <2>3. revoke' \in Revoking /\ revoked' \subseteq IntentIds
    BY <1>5 DEF AdminRevokeGrant, Revoking, TypeOK
  <2> QED BY <1>5, <2>1, <2>2, <2>3 DEF TypeOK, AdminRevokeGrant
<1>6. ASSUME NEW g \in IntentIds, RevokeGrantById(g) PROVE TypeOK'
  <2>1. grants' \in GrantMap
    BY <1>6, GrantEffects DEF RevokeGrantById
  <2> QED BY <1>6, <2>1 DEF TypeOK, RevokeGrantById, threads, history
<1>7. CASE RevokePending
  <2>1. pending' \in [CeremonyIds -> Auth \cup {NoAuth}]
    BY <1>7, InvalidatedEffect DEF RevokePending
  <2> QED BY <1>7, <2>1 DEF TypeOK, RevokePending, stores, history
<1>8. ASSUME NEW s \in Sessions, ExitIntents(s) PROVE TypeOK'
  <2>1. intents' \in Store
    BY <1>8, CancelFades DEF ExitIntents, TypeOK
  <2>2. exit' \in Exiting
    BY <1>8 DEF ExitIntents, Exiting
  <2> QED BY <1>8, <2>1, <2>2 DEF TypeOK, ExitIntents, grantVars, history
<1>9. CASE ExitStep
  <2>1. exit \in Exiting /\ exit' \in Exiting
    <3>1. exit.pc # "idle" /\ \E pc \in {"pending", "preqs", "done"} : exit' = [exit EXCEPT !.pc = pc]
      BY <1>9 DEF ExitStep, ExitGrants, ExitPending, ExitRequests
    <3>2. exit \in Exiting
      BY <3>1 DEF TypeOK, IdleThread
    <3> QED BY <3>1, <3>2 DEF Exiting
  <2>2. CASE ExitGrants
    <3>1. PICK s, left : s = exit.session /\ left = RevokeSession(grants, s)
      OBVIOUS
    <3>2. /\ grants' = left /\ greqs' = DropRequests(greqs, s)
          /\ claims' = CancelClaimsForSession(RetainAfterExit(claims, left, s), left, s)
      BY <2>2, <3>1 DEF ExitGrants
    <3>3. grants' \in GrantMap /\ greqs' \in RequestMap
      <4>1. CASE IntentIds = {}
        BY <3>1, <3>2, <4>1 DEF RevokeSession, DropRequests, GrantMap, RequestMap
      <4>2. ASSUME NEW g \in IntentIds PROVE grants' \in GrantMap /\ greqs' \in RequestMap
        BY <3>1, <3>2, GrantEffects
      <4> QED BY <4>1, <4>2
    <3>4. claims' \in ClaimMap
      BY <3>2, ClaimEffects DEF TypeOK
    <3>5. UNCHANGED <<intents, regGen, pending, preqs, preqLock, current, lastGen, now, minted,
                      principal, worker, reload, revoke, history>>
      BY <2>2 DEF ExitGrants
    <3> QED BY <2>1, <3>3, <3>4, <3>5 DEF TypeOK, history
  <2>3. CASE ExitPending
    <3>1. pending' \in [CeremonyIds -> Auth \cup {NoAuth}]
      BY <2>3, InvalidatedEffect DEF ExitPending
    <3> QED BY <2>1, <2>3, <3>1 DEF TypeOK, ExitPending, stores, history
  <2>4. CASE ExitRequests
    <3>1. preqs' \in [IntentIds -> Preq \cup {NoPreq}]
      BY <2>4, CancelWaitingEffect DEF ExitRequests
    <3> QED BY <2>1, <2>4, <3>1 DEF TypeOK, ExitRequests, stores, history
  <2> QED BY <1>9, <2>2, <2>3, <2>4 DEF ExitStep
<1> QED BY <1>1, <1>2, <1>3, <1>4, <1>5, <1>6, <1>7, <1>8, <1>9 DEF AdminStep

-----------------------------------------------------------------------------
(* Intents, approvals and uses of the key.                                  *)

Inv1 == IntentsKnown /\ UsesSpent /\ WorkerHolds /\ OneUsePerApproval /\ UsedAsAsked

\* What an intent that fades keeps.
LEMMA FadesKeeps ==
  ASSUME NEW x \in Intent \cup {NoIntent}, NEW y, Fades(x, y)
  PROVE  /\ y # NoIntent => x # NoIntent /\ y.session = x.session /\ y.scope = x.scope
         /\ y.state \in {"Approved", "Claimed", "Consumed"} => x.state = y.state
         /\ x.state \in {"Claimed", "Consumed", "None"} => y.state = x.state
<1>1. CASE y = x
  BY <1>1
<1>2. CASE y # x
  BY <1>2 DEF Fades, Intent, NoIntent
<1> QED BY <1>1, <1>2

\* The worker comes to rest, goes on with what it had, or has nothing yet.
WorkerQuiet ==
  \/ UNCHANGED worker
  \/ worker'.pc \notin Holding
  \/ /\ worker.pc \in Holding /\ SameCeremony
     /\ worker'.pc \in {"consumeGrant", "finish", "use"} => worker.pc \in {"consumeGrant", "finish", "use"}

\* A step that uses no key, takes back no approval and revives no spent intent
\* preserves what is known of the uses.
LEMMA UsesKept ==
  ASSUME TypeOK, Inv1, WorkerQuiet, keyUses' = keyUses, minted \subseteq minted',
         approvals \subseteq approvals', \A i \in IntentIds \cap minted : made'[i] = made[i],
         \A i \in IntentIds : Spent(i) => Spent(i)'
  PROVE  UsesSpent' /\ WorkerHolds' /\ OneUsePerApproval' /\ UsedAsAsked'
<1>1. \A u \in keyUses : u.intent \in IntentIds
  BY DEF TypeOK
<1>2. UsesSpent'
  BY <1>1 DEF Inv1, UsesSpent
<1>3. OneUsePerApproval'
  BY DEF Inv1, OneUsePerApproval
<1>4. UsedAsAsked'
  <2>1. \A u \in keyUses : u.intent \in IntentIds \cap minted
    BY <1>1 DEF Inv1, OneUsePerApproval, IntentsKnown
  <2> QED BY <2>1 DEF Inv1, UsedAsAsked
<1>5. WorkerHolds'
  <2>1. CASE worker'.pc \notin Holding
    BY <2>1 DEF WorkerHolds, Holding
  <2>2. CASE worker'.pc \in Holding
    <3>1. /\ worker.pc \in Holding /\ worker'.intent = worker.intent /\ worker'.session = worker.session
          /\ worker'.scope = worker.scope /\ worker'.cer = worker.cer
          /\ worker'.pc \in {"consumeGrant", "finish", "use"} =>
               worker.pc \in {"consumeGrant", "finish", "use"}
      BY <2>2 DEF WorkerQuiet, SameCeremony
    <3>2. /\ worker.intent \in IntentIds \cap minted /\ worker.cer \in CeremonyIds \cap minted
          /\ made[worker.intent] = [session |-> worker.session, scope |-> worker.scope]
      BY <3>1 DEF Inv1, WorkerHolds
    <3>3. /\ worker'.intent \in IntentIds \cap minted' /\ worker'.cer \in CeremonyIds \cap minted'
          /\ made'[worker'.intent] = [session |-> worker'.session, scope |-> worker'.scope]
      BY <3>1, <3>2
    <3>4. ASSUME worker'.pc \in {"consumeGrant", "finish", "use"}
          PROVE  Spent(worker.intent)' /\ \A u \in keyUses : u.intent # worker.intent
      <4>1. Spent(worker.intent) /\ \A u \in keyUses : u.intent # worker.intent
        BY <3>1, <3>4 DEF Inv1, WorkerHolds
      <4>2. PICK i : i = worker.intent
        OBVIOUS
      <4>3. Spent(i)'
        BY <3>2, <4>1, <4>2
      <4> QED BY <3>1, <4>1, <4>2, <4>3 DEF Spent
    <3> QED BY <3>1, <3>3, <3>4 DEF WorkerHolds, Spent
  <2> QED BY <2>1, <2>2
<1> QED BY <1>2, <1>3, <1>4, <1>5

\* A step in which intents at most fade preserves what is known of them.
LEMMA IntentsFade ==
  ASSUME TypeOK, Inv1, WorkerQuiet, \A i \in IntentIds : Fades(intents[i], intents'[i]),
         minted \subseteq minted', UNCHANGED <<made, approvals, keyUses, wiped>>
  PROVE  Inv1'
<1>1. \A i \in IntentIds : intents[i] \in Intent \cup {NoIntent}
  BY DEF TypeOK, Store
<1>2. \A i \in IntentIds :
        /\ intents'[i] # NoIntent => /\ intents[i] # NoIntent /\ intents'[i].session = intents[i].session
                                     /\ intents'[i].scope = intents[i].scope
        /\ intents'[i].state \in {"Approved", "Claimed", "Consumed"} => intents[i].state = intents'[i].state
        /\ intents[i].state \in {"Claimed", "Consumed", "None"} => intents'[i].state = intents[i].state
  BY <1>1, FadesKeeps
<1>3. IntentsKnown'
  BY <1>2 DEF Inv1, IntentsKnown
<1>4. \A i \in IntentIds : Spent(i) => Spent(i)'
  BY <1>2 DEF Spent
<1> QED BY <1>3, <1>4, UsesKept DEF Inv1

\* A new intent does not disturb what is known.
LEMMA IntentCreated ==
  ASSUME TypeOK, Inv1, UNCHANGED worker, NEW i \in IntentIds \ minted, NEW s, NEW sc,
         intents'[i] \in Intent, intents'[i].state = "Pending",
         intents'[i].session = s, intents'[i].scope = sc,
         \A j \in IntentIds \ {i} : Fades(intents[j], intents'[j]),
         minted' = minted \cup {i}, made' = [made EXCEPT ![i] = [session |-> s, scope |-> sc]],
         UNCHANGED <<approvals, keyUses, wiped>>
  PROVE  Inv1'
<1>1. \A j \in IntentIds : intents[j] \in Intent \cup {NoIntent}
  BY DEF TypeOK, Store
<1>2. \A j \in IntentIds \ {i} :
        /\ intents'[j] # NoIntent => /\ intents[j] # NoIntent /\ intents'[j].session = intents[j].session
                                     /\ intents'[j].scope = intents[j].scope
        /\ intents'[j].state \in {"Approved", "Claimed", "Consumed"} => intents[j].state = intents'[j].state
        /\ intents[j].state \in {"Claimed", "Consumed", "None"} => intents'[j].state = intents[j].state
  BY <1>1, FadesKeeps
<1>3. made'[i] = [session |-> s, scope |-> sc] /\ \A j \in IntentIds \ {i} : made'[j] = made[j]
  BY DEF TypeOK
<1>4. i \notin wiped /\ i \notin approvals
  BY DEF Inv1, IntentsKnown
<1>5. ASSUME NEW j \in IntentIds, intents'[j] # NoIntent
      PROVE  /\ j \in minted' \ wiped
             /\ made'[j] = [session |-> intents'[j].session, scope |-> intents'[j].scope]
             /\ intents'[j].state \in {"Approved", "Claimed", "Consumed"} => j \in approvals
  <2>1. CASE j = i
    BY <1>3, <1>4, <2>1
  <2>2. CASE j # i
    BY <1>2, <1>3, <1>5, <2>2 DEF Inv1, IntentsKnown
  <2> QED BY <2>1, <2>2
<1>6. IntentsKnown'
  BY <1>5 DEF Inv1, IntentsKnown
<1>7. \A j \in IntentIds : Spent(j) => Spent(j)'
  BY <1>2, <1>4 DEF Spent
<1>8. \A j \in IntentIds \cap minted : made'[j] = made[j]
  BY <1>3
<1> QED BY <1>6, <1>7, <1>8, UsesKept DEF Inv1, WorkerQuiet

\* An approval, by the worker or by an administrator.
LEMMA IntentApproved ==
  ASSUME TypeOK, Inv1, WorkerQuiet, NEW i \in IntentIds,
         \A j \in IntentIds \ {i} : intents'[j] = intents[j],
         \/ approvals' = approvals /\ Fades(intents[i], intents'[i])
         \/ /\ approvals' = approvals \cup {i}
            /\ intents[i] \in Intent /\ intents[i].state = "Pending"
            /\ intents'[i] \in Intent /\ intents'[i].state = "Approved"
            /\ intents'[i].session = intents[i].session /\ intents'[i].scope = intents[i].scope,
         UNCHANGED <<minted, made, keyUses, wiped>>
  PROVE  Inv1'
<1>1. CASE approvals' = approvals /\ Fades(intents[i], intents'[i])
  <2>1. \A j \in IntentIds : Fades(intents[j], intents'[j])
    BY <1>1 DEF Fades
  <2> QED BY <1>1, <2>1, IntentsFade
<1>2. CASE /\ approvals' = approvals \cup {i}
           /\ intents[i] \in Intent /\ intents[i].state = "Pending"
           /\ intents'[i] \in Intent /\ intents'[i].state = "Approved"
           /\ intents'[i].session = intents[i].session /\ intents'[i].scope = intents[i].scope
  <2>1. intents[i] # NoIntent
    BY <1>2 DEF NoIntent
  <2>2. IntentsKnown'
    BY <1>2, <2>1 DEF Inv1, IntentsKnown
  <2>3. \A j \in IntentIds : Spent(j) => Spent(j)'
    BY <1>2 DEF Spent
  <2> QED BY <1>2, <2>2, <2>3, UsesKept DEF Inv1
<1> QED BY <1>1, <1>2

\* The claim of an approved intent.
LEMMA IntentClaimed ==
  ASSUME TypeOK, Inv1, NEW i \in IntentIds, NEW c \in CeremonyIds, ClaimTakes(i, c),
         UNCHANGED <<made, approvals, keyUses, wiped>>
  PROVE  Inv1'
<1>1. \A j \in IntentIds : intents[j] \in Intent \cup {NoIntent}
  BY DEF TypeOK, Store
<1>2. \A j \in IntentIds \ {i} :
        /\ intents'[j] # NoIntent => /\ intents[j] # NoIntent /\ intents'[j].session = intents[j].session
                                     /\ intents'[j].scope = intents[j].scope
        /\ intents'[j].state \in {"Approved", "Claimed", "Consumed"} => intents[j].state = intents'[j].state
        /\ intents[j].state \in {"Claimed", "Consumed", "None"} => intents'[j].state = intents[j].state
  BY <1>1, FadesKeeps DEF ClaimTakes
<1>3. /\ intents[i] # NoIntent /\ intents[i].state = "Approved" /\ minted \subseteq minted' /\ c \in minted'
      /\ intents'[i].session = intents[i].session /\ intents'[i].scope = intents[i].scope
  BY DEF ClaimTakes, NoIntent
<1>4. i \in minted /\ i \notin wiped /\ i \in approvals
      /\ made[i] = [session |-> intents[i].session, scope |-> intents[i].scope]
  BY <1>3 DEF Inv1, IntentsKnown
<1>5. IntentsKnown'
  BY <1>2, <1>3, <1>4 DEF Inv1, IntentsKnown
<1>6. \A j \in IntentIds : Spent(j) => Spent(j)'
  BY <1>2, <1>3 DEF Spent
<1>7. UsesSpent' /\ OneUsePerApproval' /\ UsedAsAsked'
  <2>1. \A u \in keyUses : u.intent \in IntentIds
    BY DEF TypeOK
  <2>2. UsesSpent'
    BY <1>6, <2>1 DEF Inv1, UsesSpent
  <2> QED BY <2>2 DEF Inv1, OneUsePerApproval, UsedAsAsked
<1>8. /\ worker'.pc = "publish" /\ worker'.intent = i /\ worker'.cer = c
      /\ worker'.session = intents[i].session /\ worker'.scope = intents[i].scope
  BY DEF ClaimTakes
<1>9. WorkerHolds'
  BY <1>3, <1>4, <1>8 DEF WorkerHolds
<1> QED BY <1>5, <1>7, <1>9 DEF Inv1

\* The consumption of a claimed intent.
LEMMA IntentConsumed ==
  ASSUME TypeOK, Inv1, ConsumeIntent
  PROVE  Inv1'
<1>1. /\ WorkerHolds /\ worker.pc = "consumeIntent" /\ worker.pc \in Holding
      /\ UNCHANGED <<made, approvals, keyUses, wiped, minted>>
  BY DEF Inv1, ConsumeIntent, Holding, history
<1>2. CASE worker' = IdleWorker /\ intents' = intents
  <2>1. \A i \in IntentIds : Fades(intents[i], intents'[i])
    BY <1>2 DEF Fades
  <2>2. WorkerQuiet
    BY <1>2 DEF WorkerQuiet, IdleWorker, Holding
  <2> QED BY <1>1, <2>1, <2>2, IntentsFade
<1>3. CASE ~(worker' = IdleWorker /\ intents' = intents)
  <2>1. PICK i : i = worker.intent
    OBVIOUS
  <2>2. /\ i \in IntentIds \cap minted /\ worker.cer \in CeremonyIds \cap minted
        /\ made[i] = [session |-> worker.session, scope |-> worker.scope]
    BY <1>1, <2>1 DEF WorkerHolds
  <2>3. /\ \A j \in IntentIds \ {i} : intents'[j] = intents[j]
        /\ SameCeremony /\ worker'.pc \in {"consumeGrant", "finish"}
        /\ intents[i] \in Intent /\ intents[i].state = "Claimed"
        /\ intents'[i] \in Intent /\ intents'[i].state = "Consumed"
        /\ intents'[i].session = intents[i].session /\ intents'[i].scope = intents[i].scope
    BY <1>1, <1>3, <2>1, ConsumeSteps
  <2>4. intents[i] # NoIntent
    BY <2>3 DEF NoIntent
  <2>5. i \in approvals /\ i \notin wiped
    BY <2>2, <2>3, <2>4 DEF Inv1, IntentsKnown
  <2>6. IntentsKnown'
    BY <1>1, <2>3, <2>4 DEF Inv1, IntentsKnown
  <2>7. \A j \in IntentIds : Spent(j) => Spent(j)'
    BY <1>1, <2>3 DEF Spent
  <2>8. UsesSpent' /\ OneUsePerApproval' /\ UsedAsAsked'
    <3>1. \A u \in keyUses : u.intent \in IntentIds
      BY DEF TypeOK
    <3>2. UsesSpent'
      BY <1>1, <2>7, <3>1 DEF Inv1, UsesSpent
    <3> QED BY <1>1, <3>2 DEF Inv1, OneUsePerApproval, UsedAsAsked
  <2>9. \A u \in keyUses : u.intent # i
    BY <2>3 DEF Inv1, UsesSpent, Spent
  <2>10. Spent(i)'
    BY <1>1, <2>3, <2>5 DEF Spent
  <2>11. WorkerHolds'
    <3>1. /\ worker'.intent = i /\ worker'.cer = worker.cer /\ worker'.session = worker.session
          /\ worker'.scope = worker.scope
      BY <2>1, <2>3 DEF SameCeremony
    <3> QED BY <1>1, <2>2, <2>9, <2>10, <3>1 DEF WorkerHolds, Spent
  <2> QED BY <2>6, <2>8, <2>11 DEF Inv1
<1> QED BY <1>2, <1>3

\* invalidate_ceremony on the way out.
LEMMA IntentUndone ==
  ASSUME TypeOK, Inv1, InvalidateCeremony, pending[worker.cer] # NoAuth
  PROVE  Inv1'
<1>1. /\ WorkerHolds /\ worker.pc \in {"finish", "abort"} /\ worker.pc \in Holding
      /\ UNCHANGED <<made, approvals, keyUses, wiped, minted>>
  BY DEF Inv1, InvalidateCeremony, Holding, history
<1>2. PICK i : i = worker.intent
  OBVIOUS
<1>3. /\ i \in IntentIds \cap minted
  BY <1>1, <1>2 DEF WorkerHolds
<1>4. /\ \A j \in IntentIds \ {i} : intents'[j] = intents[j]
      /\ IF intents[i].state = "Claimed"
         THEN /\ intents'[i] \in Intent /\ intents'[i].state = "Approved"
              /\ intents'[i].session = intents[i].session /\ intents'[i].scope = intents[i].scope
         ELSE intents'[i] = intents[i]
      /\ \/ worker' = IdleWorker
         \/ SameCeremony /\ worker.pc = "finish" /\ worker'.pc = "use"
  BY <1>1, <1>2, UndoSteps
<1>5. intents[i].state = "Claimed" => intents[i] # NoIntent
  BY DEF NoIntent
<1>6. IntentsKnown'
  <2>1. CASE intents[i].state = "Claimed"
    BY <1>1, <1>4, <1>5, <2>1 DEF Inv1, IntentsKnown
  <2>2. CASE intents[i].state # "Claimed"
    <3>1. \A j \in IntentIds : intents'[j] = intents[j]
      BY <1>4, <2>2
    <3> QED BY <1>1, <3>1 DEF Inv1, IntentsKnown
  <2> QED BY <2>1, <2>2
<1>7. \A j \in IntentIds : Spent(j) => Spent(j)'
  BY <1>1, <1>4 DEF Spent
<1>8. WorkerQuiet
  BY <1>1, <1>4 DEF WorkerQuiet, IdleWorker, Holding
<1> QED BY <1>1, <1>6, <1>7, <1>8, UsesKept DEF Inv1

\* A reload removes the intents.
LEMMA IntentsWiped ==
  ASSUME TypeOK, Inv1, NEW r \in Reloaders, ReloadIntents(r)
  PROVE  Inv1'
<1>1. /\ \A i \in IntentIds : intents'[i] = NoIntent
      /\ wiped' = wiped \cup {i \in IntentIds : intents[i].state \notin {"None", "Consumed"}}
      /\ UNCHANGED <<made, approvals, keyUses, minted, worker>>
  BY DEF ReloadIntents, EmptyStore
<1>2. IntentsKnown'
  <2>1. \A i \in IntentIds : intents[i].state \notin {"None", "Consumed"} => i \in minted
    <3>1. \A i \in IntentIds : intents[i].state # "None" => intents[i] # NoIntent
      BY DEF NoIntent
    <3>2. \A i \in IntentIds : intents[i] # NoIntent => i \in minted
      BY DEF Inv1, IntentsKnown
    <3> QED BY <3>1, <3>2
  <2> QED BY <1>1, <2>1 DEF Inv1, IntentsKnown
<1>3. \A j \in IntentIds : Spent(j) => Spent(j)'
  BY <1>1 DEF Spent, NoIntent
<1> QED BY <1>1, <1>2, <1>3, UsesKept DEF Inv1, WorkerQuiet

\* The use of the key.
LEMMA KeyUsed ==
  ASSUME TypeOK, Inv1, UseKey
  PROVE  Inv1'
<1>1. /\ worker.pc = "use" /\ worker' = IdleWorker /\ worker.intent \in IntentIds
      /\ UNCHANGED <<intents, made, approvals, wiped, minted>>
  BY DEF UseKey, stores, Inv1, WorkerHolds, Holding
<1>2. PICK v : v = [cer |-> worker.cer, intent |-> worker.intent,
                    session |-> worker.session, scope |-> worker.scope]
  OBVIOUS
<1>3. keyUses' = keyUses \cup {v}
  BY <1>2 DEF UseKey
<1>4. /\ Spent(worker.intent) /\ \A u \in keyUses : u.intent # worker.intent
      /\ made[worker.intent] = [session |-> worker.session, scope |-> worker.scope]
  BY <1>1 DEF Inv1, WorkerHolds, Holding
<1>5. /\ v.intent = worker.intent /\ v.session = worker.session /\ v.scope = worker.scope
  BY <1>2
<1>6. /\ v.intent \in approvals \ wiped /\ intents[v.intent].state \in {"Consumed", "None"}
      /\ \A u \in keyUses : u.intent # v.intent
      /\ made[v.intent] = [session |-> v.session, scope |-> v.scope]
  BY <1>4, <1>5 DEF Spent
<1>7. IntentsKnown'
  BY <1>1 DEF Inv1, IntentsKnown
<1>8. UsesSpent'
  BY <1>1, <1>3, <1>6 DEF Inv1, UsesSpent, Spent
<1>9. WorkerHolds'
  BY <1>1 DEF WorkerHolds, IdleWorker, Holding
<1>10. OneUsePerApproval'
  BY <1>1, <1>3, <1>6 DEF Inv1, OneUsePerApproval
<1>11. UsedAsAsked'
  BY <1>1, <1>3, <1>6 DEF Inv1, UsedAsAsked
<1> QED BY <1>7, <1>8, <1>9, <1>10, <1>11 DEF Inv1

\* The intents section of a request.
LEMMA CreateSteps ==
  ASSUME TypeOK, CreateIntent
  PROVE  /\ UNCHANGED <<grantVars, pending, preqs, preqLock, current, lastGen, now,
                        worker, reload, revoke, exit, approvals, keyUses, wiped, revoked>>
         /\ \/ /\ principal' = IdlePrincipal /\ UNCHANGED <<minted, made>>
               /\ \A j \in IntentIds : Fades(intents[j], intents'[j])
            \/ \E i \in IntentIds \ minted, s \in Sessions, sc \in Scope :
                 /\ intents'[i] \in Intent /\ intents'[i].state = "Pending"
                 /\ intents'[i].session = s /\ intents'[i].scope = sc
                 /\ \A j \in IntentIds \ {i} : Fades(intents[j], intents'[j])
                 /\ minted' = minted \cup {i}
                 /\ made' = [made EXCEPT ![i] = [session |-> s, scope |-> sc]]
                 /\ principal'.pc \in {"request", "insert"} /\ principal'.intent = i
<1>1. PICK swept : swept = CleanupExpired(intents, now)
  OBVIOUS
<1>2. swept \in Store /\ \A j \in IntentIds : Fades(intents[j], swept[j])
  BY <1>1, CleanupFades DEF TypeOK
<1>3. UNCHANGED <<grantVars, pending, preqs, preqLock, current, lastGen, now,
                  worker, reload, revoke, exit, approvals, keyUses, wiped, revoked>>
  BY DEF CreateIntent
<1>4. CASE Cardinality(ActiveIds(swept)) >= MaxIntents
  <2>1. intents' = swept /\ principal' = IdlePrincipal /\ UNCHANGED <<minted, made>>
    BY <1>1, <1>4 DEF CreateIntent
  <2> QED BY <1>2, <1>3, <2>1
<1>5. CASE ~(Cardinality(ActiveIds(swept)) >= MaxIntents)
  <2>1. PICK s, sc, t : s = principal.session /\ sc = principal.scope /\ t = now + principal.ttl
    OBVIOUS
  <2>2. principal.pc = "create"
    BY DEF CreateIntent
  <2>3. s \in Sessions /\ sc \in Scope /\ t \in Nat
    BY <2>1, <2>2, AtPrincipal DEF TypeOK
  <2>4. PICK i \in IntentIds \ minted :
          /\ intents' = [swept EXCEPT ![i] = NewIntent(s, sc, t)]
          /\ minted' = minted \cup {i}
          /\ made' = [made EXCEPT ![i] = [session |-> s, scope |-> sc]]
          /\ principal'.pc \in {"request", "insert"} /\ principal'.intent = i
    BY <1>1, <1>5, <2>1 DEF CreateIntent
  <2>5. PICK y : y = NewIntent(s, sc, t)
    OBVIOUS
  <2>6. y \in Intent /\ y.state = "Pending" /\ y.session = s /\ y.scope = sc
    BY <2>3, <2>5 DEF NewIntent, Intent, IntentStates
  <2>7. intents' = [swept EXCEPT ![i] = y]
    BY <2>4, <2>5
  <2>8. intents'[i] = y /\ \A j \in IntentIds \ {i} : Fades(intents[j], intents'[j])
    BY <1>2, <2>7 DEF Store
  <2> QED BY <1>3, <2>3, <2>4, <2>6, <2>8
<1> QED BY <1>4, <1>5

\* The steps that concern neither an intent nor the worker.
Aside ==
  \/ Tick
  \/ \E s \in Sessions, kind \in Kinds, op \in Ops, ttl \in Ttls : StartRequest(s, kind, op, ttl)
  \/ (\E ttl \in GrantTtls : RequestGrant(ttl)) \/ InsertRequest
  \/ \E r \in Reloaders : \/ StartReload(r) \/ ReloadPending(r) \/ ReloadRequests(r)
                          \/ ReloadGrants(r) \/ ReloadCurrent(r)
  \/ \E g \in IntentIds : AdminRevokeGrant(g) \/ RevokeGrantById(g)
  \/ RevokePending \/ ExitStep

\* They leave both alone.
LEMMA AsideSteps ==
  ASSUME Aside
  PROVE  UNCHANGED <<intents, minted, worker, preqLock, made, approvals, keyUses, wiped>>
<1>1. CASE Tick
  BY <1>1 DEF Tick, stores, threads, history
<1>2. ASSUME NEW s \in Sessions, NEW kind \in Kinds, NEW op \in Ops, NEW ttl \in Ttls,
             StartRequest(s, kind, op, ttl)
      PROVE  UNCHANGED <<intents, minted, worker, preqLock, made, approvals, keyUses, wiped>>
  BY <1>2 DEF StartRequest, stores, history
<1>3. ASSUME NEW ttl \in GrantTtls, RequestGrant(ttl)
      PROVE  UNCHANGED <<intents, minted, worker, preqLock, made, approvals, keyUses, wiped>>
  BY <1>3 DEF RequestGrant, history
<1>4. CASE InsertRequest
  BY <1>4 DEF InsertRequest, stores, history
<1>5. ASSUME NEW r \in Reloaders,
             StartReload(r) \/ ReloadPending(r) \/ ReloadRequests(r) \/ ReloadGrants(r) \/ ReloadCurrent(r)
      PROVE  UNCHANGED <<intents, minted, worker, preqLock, made, approvals, keyUses, wiped>>
  BY <1>5 DEF StartReload, ReloadPending, ReloadRequests, ReloadGrants, ReloadCurrent, stores, history
<1>6. ASSUME NEW g \in IntentIds, AdminRevokeGrant(g) \/ RevokeGrantById(g)
      PROVE  UNCHANGED <<intents, minted, worker, preqLock, made, approvals, keyUses, wiped>>
  BY <1>6 DEF AdminRevokeGrant, RevokeGrantById, threads, history
<1>7. CASE RevokePending
  BY <1>7 DEF RevokePending, stores, history
<1>8. CASE ExitStep
  BY <1>8 DEF ExitStep, ExitGrants, ExitPending, ExitRequests, stores, history
<1> QED BY <1>1, <1>2, <1>3, <1>4, <1>5, <1>6, <1>7, <1>8 DEF Aside

\* The steps that close requests.
Closing ==
  \/ \E i \in IntentIds : CancelPending(i)
  \/ \E s \in Sessions : CancelPendingForSession(s)
  \/ CleanupExpiredPending
  \/ PromptRefused

\* A step of the runtime is one of these.
LEMMA NextCases ==
  ASSUME Next
  PROVE  \/ Aside \/ Closing \/ Moves
         \/ CreateIntent \/ ResolveMatch \/ ResolveApprove \/ ClaimBound \/ PublishHandle
         \/ ConsumeIntent \/ ConsumeGrantClaim \/ InvalidateCeremony \/ UseKey
         \/ \E s \in Sessions, op \in Ops, ttl \in Ttls : AdminCreate(s, op, ttl)
         \/ \E i \in IntentIds, to \in {"Approved", "Denied"} : AdminResolve(i, to)
         \/ \E r \in Reloaders : ReloadIntents(r)
         \/ \E s \in Sessions : ExitIntents(s)
<1>1. CASE \E r \in Reloaders : StartReload(r) \/ ReloadStep(r)
  BY <1>1 DEF ReloadStep, Aside
<1>2. CASE WorkerStep
  BY <1>2 DEF WorkerStep, Closing, Moves
<1>3. CASE PrincipalStep
  BY <1>3 DEF PrincipalStep, Aside
<1>4. CASE ~(\/ \E r \in Reloaders : StartReload(r) \/ ReloadStep(r)
             \/ WorkerStep \/ PrincipalStep)
  <2>1. CASE \E i \in IntentIds : AdminResolve(i, "Approved") \/ AdminResolve(i, "Denied")
    BY <2>1
  <2>2. CASE \E i \in IntentIds : CancelPending(i) \/ StartCeremony(i)
    BY <2>2 DEF Closing, Moves
  <2>3. CASE \E s \in Sessions : CancelPendingForSession(s) \/ ExitIntents(s)
    BY <2>3 DEF Closing
  <2>4. CASE \E s \in Sessions, op \in Ops : StartAuthorize(s, op)
    BY <2>4 DEF Moves
  <2>5. CASE CleanupExpiredPending
    BY <2>5 DEF Closing
  <2>6. CASE \/ Tick
             \/ \E s \in Sessions, kind \in Kinds, op \in Ops, ttl \in Ttls :
                  StartRequest(s, kind, op, ttl)
             \/ \E g \in IntentIds : AdminRevokeGrant(g) \/ RevokeGrantById(g)
             \/ RevokePending \/ ExitStep
    BY <2>6 DEF Aside
  <2> QED BY <1>4, <2>1, <2>2, <2>3, <2>4, <2>5, <2>6 DEF Next
<1> QED BY <1>1, <1>2, <1>3, <1>4

\* Every step keeps the types.
LEMMA TypeNext ==
  ASSUME IInv, Next
  PROVE  TypeOK'
<1>1. TypeOK /\ WorkerHolds /\ RequestsSettled /\ HandlesHeld
  BY DEF IInv
<1>2. CASE \/ Tick
           \/ \E s \in Sessions, kind \in Kinds, op \in Ops, ttl \in Ttls : StartRequest(s, kind, op, ttl)
           \/ PrincipalStep
  BY <1>1, <1>2, TypePrincipal
<1>3. CASE \/ \E i \in IntentIds : CancelPending(i)
           \/ \E s \in Sessions : CancelPendingForSession(s)
           \/ CleanupExpiredPending
  BY <1>1, <1>3, ClosingSteps, TypeClosing
<1>4. CASE \/ \E i \in IntentIds : StartCeremony(i)
           \/ \E s \in Sessions, op \in Ops : StartAuthorize(s, op)
  <2>1. Moves
    BY <1>4 DEF Moves
  <2> QED BY <1>1, <2>1, MovingSteps, TypeWorkerMoves
<1>5. CASE WorkerStep
  BY <1>1, <1>5, TypeWorker
<1>6. CASE AdminStep
  BY <1>1, <1>6, TypeAdmin
<1> QED BY <1>2, <1>3, <1>4, <1>5, <1>6 DEF Next, AdminStep

\* Every step preserves what is known of intents, approvals and key uses.
LEMMA Inv1Next ==
  ASSUME IInv, Next
  PROVE  Inv1'
<1>1. TypeOK /\ Inv1 /\ WorkerHolds /\ RequestsSettled /\ HandlesHeld
  BY DEF IInv, Inv1
<1>2. CASE Aside
  <2>1. UNCHANGED <<intents, minted, worker, made, approvals, keyUses, wiped>>
    BY <1>2, AsideSteps
  <2>2. \A i \in IntentIds : Fades(intents[i], intents'[i])
    BY <2>1 DEF Fades
  <2> QED BY <1>1, <2>1, <2>2, IntentsFade DEF WorkerQuiet
<1>3. CASE Closing
  <2>1. Closes
    BY <1>1, <1>3, ClosingSteps DEF Closing
  <2>2. WorkerQuiet
    BY <2>1 DEF Closes, WorkerQuiet, IdleWorker, Holding
  <2> QED BY <1>1, <2>1, <2>2, IntentsFade DEF Closes, history
<1>4. CASE Moves
  <2>1. WorkerQuiet
    <3>1. CASE worker'.pc \in {"idle", "prompt", "claim"}
      BY <3>1 DEF WorkerQuiet, Holding
    <3>2. CASE worker'.pc \notin {"idle", "prompt", "claim"}
      <4>1. /\ worker' \in Working \cup {IdleWorker} /\ IdleWorker.pc = "idle"
            /\ worker.pc \in {"consume", "checkGen", "checkGrant"}
            /\ worker'.pc \in {"checkGen", "checkGrant", "consumeIntent", "abort"}
            /\ worker'.intent = worker.intent /\ worker'.session = worker.session
            /\ worker'.scope = worker.scope /\ worker'.cer = worker.cer
        BY <1>1, <1>4, <3>2, MovingSteps DEF IdleWorker
      <4> QED BY <4>1 DEF WorkerQuiet, SameCeremony, Holding
    <3> QED BY <3>1, <3>2
  <2>2. UNCHANGED <<intents, minted, made, approvals, keyUses, wiped>>
    BY <1>1, <1>4, MovingSteps DEF stores, history
  <2>3. \A i \in IntentIds : Fades(intents[i], intents'[i])
    BY <2>2 DEF Fades
  <2> QED BY <1>1, <2>1, <2>2, <2>3, IntentsFade
<1>5. CASE CreateIntent
  <2>1. UNCHANGED <<worker, approvals, keyUses, wiped>>
    BY <1>1, <1>5, CreateSteps
  <2>2. CASE UNCHANGED <<minted, made>> /\ \A j \in IntentIds : Fades(intents[j], intents'[j])
    BY <1>1, <2>1, <2>2, IntentsFade DEF WorkerQuiet
  <2>3. CASE ~(UNCHANGED <<minted, made>> /\ \A j \in IntentIds : Fades(intents[j], intents'[j]))
    <3>1. PICK i \in IntentIds \ minted, s \in Sessions, sc \in Scope :
                 /\ intents'[i] \in Intent /\ intents'[i].state = "Pending"
                 /\ intents'[i].session = s /\ intents'[i].scope = sc
                 /\ \A j \in IntentIds \ {i} : Fades(intents[j], intents'[j])
                 /\ minted' = minted \cup {i}
                 /\ made' = [made EXCEPT ![i] = [session |-> s, scope |-> sc]]
      BY <1>1, <1>5, <2>3, CreateSteps
    <3> QED BY <1>1, <2>1, <3>1, IntentCreated
  <2> QED BY <2>2, <2>3
<1>6. CASE \E s \in Sessions, op \in Ops, ttl \in Ttls : AdminCreate(s, op, ttl)
  <2>1. PICK s \in Sessions, op \in Ops, ttl \in Ttls : AdminCreate(s, op, ttl)
    BY <1>6
  <2>2. PICK i \in IntentIds \ minted, sc \in Scope :
           /\ intents'[i] \in Intent /\ intents'[i].state = "Pending"
           /\ intents'[i].session = s /\ intents'[i].scope = sc
           /\ \A j \in IntentIds \ {i} : Fades(intents[j], intents'[j])
           /\ minted' = minted \cup {i}
           /\ made' = [made EXCEPT ![i] = [session |-> s, scope |-> sc]]
           /\ UNCHANGED <<threads, approvals, keyUses, wiped>>
    BY <1>1, <2>1, AdminCreateSteps
  <2>3. UNCHANGED worker
    BY <2>2 DEF threads
  <2> QED BY <1>1, <2>2, <2>3, IntentCreated
<1>7. CASE ResolveMatch
  <2>1. UNCHANGED <<intents, minted, made, approvals, keyUses, wiped>>
    BY <1>1, <1>7, MatchSteps DEF stores, history
  <2>2. WorkerQuiet
    BY <1>1, <1>7, MatchSteps DEF WorkerQuiet, Holding
  <2>3. \A i \in IntentIds : Fades(intents[i], intents'[i])
    BY <2>1 DEF Fades
  <2> QED BY <1>1, <2>1, <2>2, <2>3, IntentsFade
<1>8. CASE ResolveApprove
  <2>1. PICK i : i = worker.intent
    OBVIOUS
  <2>2. i \in IntentIds /\ preqs[i] # NoPreq
    BY <1>1, <1>8, <2>1 DEF ResolveApprove, RequestsSettled
  <2>3. Approves(i)
    BY <1>1, <1>8, <2>1, <2>2, ApproveSteps
  <2>4. WorkerQuiet
    BY <2>3 DEF Approves, WorkerQuiet, Holding
  <2>5. UNCHANGED <<minted, made, keyUses, wiped>>
    BY <1>8 DEF ResolveApprove
  <2>6. /\ \A j \in IntentIds \ {i} : intents'[j] = intents[j]
        /\ \/ approvals' = approvals /\ Fades(intents[i], intents'[i])
           \/ /\ approvals' = approvals \cup {i}
              /\ intents[i] \in Intent /\ intents[i].state = "Pending"
              /\ intents'[i] \in Intent /\ intents'[i].state = "Approved"
              /\ intents'[i].session = intents[i].session /\ intents'[i].scope = intents[i].scope
    BY <2>3 DEF Approves
  <2> QED BY <1>1, <2>2, <2>4, <2>5, <2>6, IntentApproved
<1>9. CASE \E i \in IntentIds, to \in {"Approved", "Denied"} : AdminResolve(i, to)
  <2>1. PICK i \in IntentIds, to \in {"Approved", "Denied"} : AdminResolve(i, to)
    BY <1>9
  <2>2. /\ \A j \in IntentIds \ {i} : intents'[j] = intents[j]
        /\ intents[i] \in Intent /\ intents[i].state = "Pending"
        /\ \/ approvals' = approvals /\ Fades(intents[i], intents'[i])
           \/ /\ approvals' = approvals \cup {i}
              /\ intents'[i] \in Intent /\ intents'[i].state = "Approved"
              /\ intents'[i].session = intents[i].session /\ intents'[i].scope = intents[i].scope
        /\ UNCHANGED <<minted, threads, made, keyUses, wiped>>
    BY <1>1, <2>1, AdminResolveSteps
  <2>3. WorkerQuiet
    BY <2>2 DEF threads, WorkerQuiet
  <2> QED BY <1>1, <2>2, <2>3, IntentApproved
<1>10. CASE ClaimBound
  <2>1. UNCHANGED <<made, approvals, keyUses, wiped>>
    BY <1>10 DEF ClaimBound, history
  <2>2. CASE ClaimFails
    <3>1. WorkerQuiet
      BY <2>2 DEF ClaimFails, WorkerQuiet, IdleWorker, Holding
    <3> QED BY <1>1, <2>1, <2>2, <3>1, IntentsFade DEF ClaimFails
  <2>3. CASE \E i \in IntentIds, c \in CeremonyIds : ClaimTakes(i, c)
    BY <1>1, <2>1, <2>3, IntentClaimed
  <2> QED BY <1>1, <1>10, <2>2, <2>3, ClaimSteps
<1>11. CASE PublishHandle
  <2>1. UNCHANGED <<intents, minted, made, approvals, keyUses, wiped>>
    BY <1>11 DEF PublishHandle, stores, history
  <2>2. WorkerQuiet
    BY <1>1, <1>11, PublishSteps DEF WorkerQuiet, Holding
  <2>3. \A i \in IntentIds : Fades(intents[i], intents'[i])
    BY <2>1 DEF Fades
  <2> QED BY <1>1, <2>1, <2>2, <2>3, IntentsFade
<1>12. CASE ConsumeIntent
  BY <1>1, <1>12, IntentConsumed
<1>13. CASE ConsumeGrantClaim
  <2>1. UNCHANGED <<intents, minted, made, approvals, keyUses, wiped>>
    BY <1>13 DEF ConsumeGrantClaim, history
  <2>2. WorkerQuiet
    BY <1>1, <1>13, ConsumeClaimSteps DEF WorkerQuiet, Holding
  <2>3. \A i \in IntentIds : Fades(intents[i], intents'[i])
    BY <2>1 DEF Fades
  <2> QED BY <1>1, <2>1, <2>2, <2>3, IntentsFade
<1>14. CASE InvalidateCeremony
  <2>1. pending[worker.cer] # NoAuth
    BY <1>1, <1>14 DEF InvalidateCeremony, HandlesHeld, Holding
  <2> QED BY <1>1, <1>14, <2>1, IntentUndone
<1>15. CASE UseKey
  BY <1>1, <1>15, KeyUsed
<1>16. CASE \E r \in Reloaders : ReloadIntents(r)
  BY <1>1, <1>16, IntentsWiped
<1>17. CASE \E s \in Sessions : ExitIntents(s)
  <2>1. PICK s \in Sessions : ExitIntents(s)
    BY <1>17
  <2>2. UNCHANGED <<worker, minted, made, approvals, keyUses, wiped>>
    BY <2>1 DEF ExitIntents, history
  <2>3. \A i \in IntentIds : Fades(intents[i], intents'[i])
    BY <1>1, <2>1, CancelFades DEF ExitIntents, TypeOK
  <2> QED BY <1>1, <2>2, <2>3, IntentsFade DEF WorkerQuiet
<1> QED BY <1>2, <1>3, <1>4, <1>5, <1>6, <1>7, <1>8, <1>9, <1>10, <1>11, <1>12, <1>13, <1>14,
          <1>15, <1>16, <1>17, NextCases

-----------------------------------------------------------------------------
(* Pending requests.                                                        *)

\* The principal rests, goes on with the intent it has, or has none yet.
PrincipalQuiet ==
  \/ UNCHANGED principal
  \/ principal'.pc \notin {"request", "insert"}
  \/ principal.pc = "request" /\ principal'.pc = "insert" /\ principal'.intent = principal.intent

\* A request that fades is one before and after.
LEMMA RequestFadesKeeps ==
  ASSUME NEW x \in Preq \cup {NoPreq}, NEW y, RequestFades(x, y)
  PROVE  /\ x # NoPreq <=> y # NoPreq
         /\ x # NoPreq => y.kind = x.kind
         /\ x.state # "Waiting" => y = x
<1>1. CASE y = x
  BY <1>1
<1>2. CASE y # x
  BY <1>2, NotNoPreq DEF RequestFades
<1> QED BY <1>1, <1>2

\* A step in which requests at most fade, without an approval.
LEMMA RequestsFade ==
  ASSUME TypeOK, RequestsSettled, PrincipalQuiet,
         \A i \in IntentIds : RequestFades(preqs[i], preqs'[i]),
         minted \subseteq minted', approvals' = approvals,
         worker'.pc # "approve" \/ UNCHANGED <<worker, preqLock>>
  PROVE  RequestsSettled'
<1>1. \A i \in IntentIds : /\ preqs[i] # NoPreq <=> preqs'[i] # NoPreq
                           /\ preqs[i] # NoPreq => preqs'[i].kind = preqs[i].kind
                           /\ preqs[i].state # "Waiting" => preqs'[i] = preqs[i]
  BY RequestFadesKeeps DEF TypeOK
<1>2. worker'.pc = "approve" => /\ preqLock' = "worker" /\ worker'.intent \in IntentIds
                                /\ preqs'[worker'.intent] # NoPreq
  BY <1>1 DEF RequestsSettled
<1>3. \A i \in IntentIds : preqs'[i] # NoPreq => i \in minted'
  BY <1>1 DEF RequestsSettled
<1>4. ASSUME principal'.pc \in {"request", "insert"}
      PROVE  principal'.intent \in minted' /\ preqs'[principal'.intent] = NoPreq
  <2>1. principal.pc \in {"request", "insert"} /\ principal'.intent = principal.intent
    BY <1>4 DEF PrincipalQuiet
  <2>2. principal.intent \in IntentIds
    BY <2>1, AtPrincipal
  <2> QED BY <1>1, <2>1, <2>2 DEF RequestsSettled
<1>5. ASSUME "admin" \notin Actors, NEW i \in approvals'
      PROVE  preqs'[i] # NoPreq /\ (preqs'[i].kind = "isolated" => preqs'[i].state = "Approved")
  <2>1. i \in IntentIds /\ preqs[i] # NoPreq /\ (preqs[i].kind = "isolated" => preqs[i].state = "Approved")
    BY <1>5 DEF RequestsSettled, TypeOK
  <2> QED BY <1>1, <2>1
<1> QED BY <1>2, <1>3, <1>4, <1>5 DEF RequestsSettled

\* Every step preserves what is known of pending requests.
LEMMA Inv2Next ==
  ASSUME IInv, Next
  PROVE  RequestsSettled'
<1>1. TypeOK /\ Inv1 /\ WorkerHolds /\ RequestsSettled /\ HandlesHeld
  BY DEF IInv, Inv1
<1>2. \A i \in IntentIds : RequestFades(preqs[i], preqs[i])
  BY DEF RequestFades
<1>3. CASE Aside
  <2>1. UNCHANGED <<minted, worker, preqLock, approvals>>
    BY <1>3, AsideSteps
  <2>2. CASE InsertRequest
    <3>1. PICK i : i = principal.intent
      OBVIOUS
    <3>2. /\ i \in IntentIds /\ principal.preq \in Preq /\ preqs \in [IntentIds -> Preq \cup {NoPreq}]
          /\ preqs[i] = NoPreq /\ i \in minted
      BY <1>1, <2>2, <3>1, AtPrincipal DEF InsertRequest, TypeOK, RequestsSettled
    <3>3. PICK q : q = principal.preq
      OBVIOUS
    <3>4. preqs' = [preqs EXCEPT ![i] = q] /\ principal' = IdlePrincipal
      BY <2>2, <3>1, <3>3 DEF InsertRequest
    <3>5. preqs'[i] = q /\ q # NoPreq /\ \A j \in IntentIds \ {i} : preqs'[j] = preqs[j]
      BY <3>2, <3>3, <3>4, NotNoPreq
    <3>6. worker'.pc = "approve" => /\ preqLock' = "worker" /\ worker'.intent \in IntentIds
                                    /\ preqs'[worker'.intent] # NoPreq
      BY <1>1, <2>1, <3>5 DEF RequestsSettled
    <3>7. \A j \in IntentIds : preqs'[j] # NoPreq => j \in minted'
      BY <1>1, <2>1, <3>2, <3>5 DEF RequestsSettled
    <3>8. principal'.pc \notin {"request", "insert"}
      BY <3>4 DEF IdlePrincipal
    <3>9. ASSUME "admin" \notin Actors, NEW j \in approvals'
          PROVE  preqs'[j] # NoPreq /\ (preqs'[j].kind = "isolated" => preqs'[j].state = "Approved")
      <4>1. j \in IntentIds /\ preqs[j] # NoPreq /\ (preqs[j].kind = "isolated" => preqs[j].state = "Approved")
        BY <1>1, <2>1, <3>9 DEF RequestsSettled, TypeOK
      <4> QED BY <3>2, <3>5, <4>1
    <3> QED BY <3>6, <3>7, <3>8, <3>9 DEF RequestsSettled
  <2>3. CASE ~InsertRequest
    <3>1. PrincipalQuiet
      <4>1. CASE \E ttl \in GrantTtls : RequestGrant(ttl)
        <5>1. principal \in Asked /\ principal.pc = "request"
          BY <1>1, <4>1, AtPrincipal DEF RequestGrant
        <5>2. principal' = IdlePrincipal \/ principal' = [principal EXCEPT !.pc = "insert"]
          BY <4>1 DEF RequestGrant
        <5> QED BY <5>1, <5>2 DEF PrincipalQuiet, IdlePrincipal, Asked
      <4>2. CASE \E s \in Sessions, kind \in Kinds, op \in Ops, ttl \in Ttls :
                   StartRequest(s, kind, op, ttl)
        BY <4>2 DEF StartRequest, PrincipalQuiet
      <4>3. CASE ~\/ \E ttl \in GrantTtls : RequestGrant(ttl)
                  \/ \E s \in Sessions, kind \in Kinds, op \in Ops, ttl \in Ttls :
                       StartRequest(s, kind, op, ttl)
        <5>1. UNCHANGED principal
          BY <1>3, <2>3, <4>3 DEF Aside, Tick, StartReload, ReloadPending, ReloadRequests, ReloadGrants,
               ReloadCurrent, AdminRevokeGrant, RevokeGrantById, RevokePending, ExitStep, ExitGrants,
               ExitPending, ExitRequests, threads
        <5> QED BY <5>1 DEF PrincipalQuiet
      <4> QED BY <4>1, <4>2, <4>3
    <3>2. \A i \in IntentIds : RequestFades(preqs[i], preqs'[i])
      <4>1. CASE \E r \in Reloaders : ReloadRequests(r)
        BY <1>1, <4>1, CancelWaitingEffect DEF ReloadRequests
      <4>2. CASE ExitRequests
        BY <1>1, <4>2, CancelWaitingEffect DEF ExitRequests
      <4>3. CASE ~(ExitRequests \/ \E r \in Reloaders : ReloadRequests(r))
        <5>1. UNCHANGED preqs
          BY <1>3, <2>3, <4>3 DEF Aside, Tick, StartRequest, RequestGrant, StartReload, ReloadPending,
               ReloadGrants, ReloadCurrent, AdminRevokeGrant, RevokeGrantById, RevokePending, ExitStep,
               ExitGrants, ExitPending
        <5> QED BY <1>2, <5>1
      <4> QED BY <4>1, <4>2, <4>3
    <3> QED BY <1>1, <2>1, <3>1, <3>2, RequestsFade
  <2> QED BY <2>2, <2>3
<1>4. CASE Closing
  <2>1. Closes
    BY <1>1, <1>4, ClosingSteps DEF Closing
  <2>2. /\ \A i \in IntentIds : RequestFades(preqs[i], preqs'[i])
        /\ UNCHANGED <<minted, approvals, principal, preqLock>>
        /\ UNCHANGED worker \/ worker' = IdleWorker
    BY <2>1 DEF Closes, others, history
  <2>3. worker'.pc # "approve" \/ UNCHANGED <<worker, preqLock>>
    BY <2>2 DEF IdleWorker
  <2> QED BY <1>1, <2>2, <2>3, RequestsFade DEF PrincipalQuiet
<1>5. CASE Moves
  <2>1. UNCHANGED <<preqs, minted, approvals, principal>> /\ worker'.pc # "approve"
    BY <1>1, <1>5, MovingSteps DEF others, history
  <2> QED BY <1>1, <1>2, <2>1, RequestsFade DEF PrincipalQuiet
<1>6. CASE CreateIntent
  <2>1. UNCHANGED <<preqs, preqLock, worker, approvals>>
    BY <1>1, <1>6, CreateSteps
  <2>2. CASE principal' = IdlePrincipal /\ UNCHANGED minted
    BY <1>1, <1>2, <2>1, <2>2, RequestsFade DEF PrincipalQuiet, IdlePrincipal
  <2>3. CASE ~(principal' = IdlePrincipal /\ UNCHANGED minted)
    <3>1. PICK i \in IntentIds \ minted : /\ minted' = minted \cup {i}
                                          /\ principal'.pc \in {"request", "insert"} /\ principal'.intent = i
      BY <1>1, <1>6, <2>3, CreateSteps
    <3>2. preqs[i] = NoPreq
      BY <1>1 DEF RequestsSettled
    <3> QED BY <1>1, <2>1, <3>1, <3>2 DEF RequestsSettled
  <2> QED BY <2>2, <2>3
<1>7. CASE ResolveMatch
  <2>1. /\ \A i \in IntentIds : RequestFades(preqs[i], preqs'[i])
        /\ UNCHANGED <<minted, approvals, principal>>
    BY <1>1, <1>7, MatchSteps DEF others, history
  <2>2. CASE worker'.pc # "approve"
    BY <1>1, <2>1, <2>2, RequestsFade DEF PrincipalQuiet
  <2>3. CASE worker'.pc = "approve"
    <3>1. preqLock' = "worker" /\ worker'.intent \in IntentIds /\ preqs[worker'.intent] \in Preq
      BY <1>1, <1>7, <2>3, MatchSteps
    <3>2. \A i \in IntentIds : /\ preqs[i] # NoPreq <=> preqs'[i] # NoPreq
                               /\ preqs[i] # NoPreq => preqs'[i].kind = preqs[i].kind
                               /\ preqs[i].state # "Waiting" => preqs'[i] = preqs[i]
      BY <1>1, <2>1, RequestFadesKeeps DEF TypeOK
    <3>3. preqs'[worker'.intent] # NoPreq
      BY <3>1, <3>2, NotNoPreq DEF Preq, NoPreq
    <3>4. \A i \in IntentIds : preqs'[i] # NoPreq => i \in minted'
      BY <1>1, <2>1, <3>2 DEF RequestsSettled
    <3>5. principal'.pc \in {"request", "insert"} =>
            principal'.intent \in minted' /\ preqs'[principal'.intent] = NoPreq
      BY <1>1, <2>1, <3>2, AtPrincipal DEF RequestsSettled
    <3>6. ASSUME "admin" \notin Actors, NEW i \in approvals'
          PROVE  preqs'[i] # NoPreq /\ (preqs'[i].kind = "isolated" => preqs'[i].state = "Approved")
      <4>1. i \in IntentIds /\ preqs[i] # NoPreq /\ (preqs[i].kind = "isolated" => preqs[i].state = "Approved")
        BY <1>1, <2>1, <3>6 DEF RequestsSettled, TypeOK
      <4> QED BY <3>2, <4>1
    <3> QED BY <3>1, <3>3, <3>4, <3>5, <3>6 DEF RequestsSettled
  <2> QED BY <2>2, <2>3
<1>8. CASE ResolveApprove
  <2>1. PICK i : i = worker.intent
    OBVIOUS
  <2>2. i \in IntentIds /\ preqs[i] # NoPreq
    BY <1>1, <1>8, <2>1 DEF ResolveApprove, RequestsSettled
  <2>3. Approves(i)
    BY <1>1, <1>8, <2>1, <2>2, ApproveSteps
  <2>4. /\ \A j \in IntentIds \ {i} : preqs'[j] = preqs[j]
        /\ preqs'[i] \in Preq /\ preqs'[i].kind = preqs[i].kind
        /\ preqs'[i] = preqs[i] \/ preqs'[i].state = "Approved"
        /\ \/ approvals' = approvals
           \/ /\ approvals' = approvals \cup {i}
              /\ preqs[i].kind = "isolated" => preqs'[i].state = "Approved"
        /\ worker'.pc # "approve"
    BY <2>3 DEF Approves
  <2>5. preqs'[i] # NoPreq
    BY <2>4, NotNoPreq DEF Preq, NoPreq
  <2>6. UNCHANGED <<minted, principal>>
    BY <1>8 DEF ResolveApprove, others
  <2>7. \A j \in IntentIds : preqs'[j] # NoPreq => j \in minted'
    BY <1>1, <2>2, <2>4, <2>6 DEF RequestsSettled
  <2>8. principal'.pc \in {"request", "insert"} =>
          principal'.intent \in minted' /\ preqs'[principal'.intent] = NoPreq
    BY <1>1, <2>2, <2>4, <2>6, AtPrincipal DEF RequestsSettled
  <2>9. ASSUME "admin" \notin Actors, NEW j \in approvals'
        PROVE  preqs'[j] # NoPreq /\ (preqs'[j].kind = "isolated" => preqs'[j].state = "Approved")
    <3>1. CASE j \in approvals
      <4>1. j \in IntentIds /\ preqs[j] # NoPreq /\ (preqs[j].kind = "isolated" => preqs[j].state = "Approved")
        BY <1>1, <2>9, <3>1 DEF RequestsSettled, TypeOK
      <4> QED BY <2>4, <2>5, <4>1
    <3>2. CASE j \notin approvals
      BY <2>4, <2>5, <2>9, <3>2
    <3> QED BY <3>1, <3>2
  <2> QED BY <2>4, <2>7, <2>8, <2>9 DEF RequestsSettled
<1>9. CASE \E i \in IntentIds, to \in {"Approved", "Denied"} : AdminResolve(i, to)
  <2>1. "admin" \in Actors /\ UNCHANGED <<preqs, preqLock, minted, principal, worker>>
    BY <1>9 DEF AdminResolve, threads
  <2> QED BY <1>1, <2>1 DEF RequestsSettled
<1>10. CASE \/ ClaimBound \/ PublishHandle \/ ConsumeIntent \/ ConsumeGrantClaim \/ InvalidateCeremony
            \/ UseKey
  <2>1. UNCHANGED <<preqs, principal, approvals>>
    BY <1>10 DEF ClaimBound, PublishHandle, ConsumeIntent, ConsumeGrantClaim, InvalidateCeremony, UseKey,
                 others, history
  <2>2. minted \subseteq minted' /\ worker'.pc # "approve"
    <3>1. CASE ClaimBound
      BY <1>1, <3>1, ClaimSteps DEF ClaimFails, ClaimTakes, IdleWorker
    <3>2. CASE PublishHandle
      BY <1>1, <3>2, PublishSteps
    <3>3. CASE ConsumeIntent
      BY <1>1, <3>3, ConsumeSteps DEF IdleWorker
    <3>4. CASE ConsumeGrantClaim
      BY <1>1, <3>4, ConsumeClaimSteps
    <3>5. CASE InvalidateCeremony
      <4>1. pending[worker.cer] # NoAuth
        BY <1>1, <3>5 DEF InvalidateCeremony, HandlesHeld, Holding
      <4> QED BY <1>1, <3>5, <4>1, UndoSteps DEF IdleWorker
    <3>6. CASE UseKey
      BY <3>6 DEF UseKey, IdleWorker
    <3> QED BY <1>10, <3>1, <3>2, <3>3, <3>4, <3>5, <3>6
  <2> QED BY <1>1, <1>2, <2>1, <2>2, RequestsFade DEF PrincipalQuiet
<1>11. CASE \/ \E s \in Sessions, op \in Ops, ttl \in Ttls : AdminCreate(s, op, ttl)
            \/ \E r \in Reloaders : ReloadIntents(r)
            \/ \E s \in Sessions : ExitIntents(s)
  <2>1. UNCHANGED <<preqs, preqLock, principal, worker, approvals>> /\ minted \subseteq minted'
    BY <1>11 DEF AdminCreate, ReloadIntents, ExitIntents, threads, history
  <2> QED BY <1>1, <1>2, <2>1, RequestsFade DEF PrincipalQuiet
<1> QED BY <1>3, <1>4, <1>5, <1>6, <1>7, <1>8, <1>9, <1>10, <1>11, NextCases

-----------------------------------------------------------------------------
(* Grants and claims.                                                       *)

\* What fading grants, grant requests and claims keep.
LEMMA GrantFadesKeeps ==
  ASSUME NEW x, NEW y, NEW q, NEW r, NEW k, NEW l,
         GrantFades(x, y), GrantRequestFades(q, r), ClaimFades(k, l)
  PROVE  /\ x = NoGrant => y = NoGrant
         /\ x.state # "Active" => y.state # "Active"
         /\ q = NoRequest => r = NoRequest
         /\ r.status = "open" => r = q
         /\ l.consumed = "no" => l = k
<1>1. NoGrant.state = "None" /\ NoRequest.status = "None" /\ NoClaim.consumed = "None"
  BY DEF NoGrant, NoRequest, NoClaim
<1>2. (x = NoGrant => y = NoGrant) /\ (x.state # "Active" => y.state # "Active")
  BY <1>1 DEF GrantFades
<1>3. (q = NoRequest => r = NoRequest) /\ (r.status = "open" => r = q)
  BY <1>1 DEF GrantRequestFades
<1>4. l.consumed = "no" => l = k
  BY <1>1 DEF ClaimFades
<1> QED BY <1>2, <1>3, <1>4

\* A step in which grants, requests for them and claims at most fade.
LEMMA GrantsFade ==
  ASSUME GrantsOnce,
         \A i \in IntentIds : GrantFades(grants[i], grants'[i]) /\ GrantRequestFades(greqs[i], greqs'[i]),
         \A c \in CeremonyIds : ClaimFades(claims[c], claims'[c]),
         revoked' = revoked, minted \subseteq minted',
         principal'.pc = "request" =>
           /\ principal'.intent \in IntentIds /\ grants[principal'.intent] = NoGrant
           /\ principal'.intent \notin revoked
  PROVE  GrantsOnce'
<1>1. \A i \in IntentIds : /\ grants[i] = NoGrant => grants'[i] = NoGrant
                           /\ grants[i].state # "Active" => grants'[i].state # "Active"
                           /\ greqs[i] = NoRequest => greqs'[i] = NoRequest
                           /\ greqs'[i].status = "open" => greqs'[i] = greqs[i]
  <2>1. ClaimFades(NoClaim, NoClaim)
    BY DEF ClaimFades
  <2> QED BY <2>1, GrantFadesKeeps
<1>2. \A c \in CeremonyIds : claims'[c].consumed = "no" => claims'[c] = claims[c]
  <2>1. GrantFades(NoGrant, NoGrant) /\ GrantRequestFades(NoRequest, NoRequest)
    BY DEF GrantFades, GrantRequestFades
  <2> QED BY <2>1, GrantFadesKeeps
<1>3. ASSUME NEW i \in IntentIds
      PROVE  /\ greqs'[i].status = "open" => grants'[i] = NoGrant /\ i \notin revoked
             /\ i \in revoked => grants'[i].state # "Active"
             /\ i \notin minted' => grants'[i] = NoGrant /\ greqs'[i] = NoRequest
  <2>1. /\ greqs[i].status = "open" => grants[i] = NoGrant /\ i \notin revoked
        /\ i \in revoked => grants[i].state # "Active"
        /\ i \notin minted => grants[i] = NoGrant /\ greqs[i] = NoRequest
    BY DEF GrantsOnce
  <2> QED BY <1>1, <2>1
<1>4. \A c \in CeremonyIds : claims'[c].consumed = "no" => claims'[c].grant \notin revoked
  BY <1>2 DEF GrantsOnce
<1>5. revoked' \subseteq minted'
  BY DEF GrantsOnce
<1> QED BY <1>1, <1>3, <1>4, <1>5 DEF GrantsOnce

\* Every step preserves what is known of grants and claims.
LEMMA Inv3Next ==
  ASSUME IInv, Next
  PROVE  GrantsOnce'
<1>1. TypeOK /\ Inv1 /\ WorkerHolds /\ RequestsSettled /\ HandlesHeld /\ GrantsOnce
  BY DEF IInv, Inv1
<1>2. /\ \A i \in IntentIds : GrantFades(grants[i], grants[i]) /\ GrantRequestFades(greqs[i], greqs[i])
      /\ \A c \in CeremonyIds : ClaimFades(claims[c], claims[c])
  BY DEF GrantFades, GrantRequestFades, ClaimFades
<1>3. principal.pc = "request" =>
           /\ principal.intent \in IntentIds /\ grants[principal.intent] = NoGrant
           /\ principal.intent \notin revoked
  BY <1>1, AtPrincipal DEF GrantsOnce
<1>4. ASSUME NEW ttl \in GrantTtls, RequestGrant(ttl) PROVE GrantsOnce'
  <2>1. /\ principal.pc = "request" /\ principal \in Asked /\ principal.intent \in minted
        /\ UNCHANGED <<grants, claims, minted, revoked>>
    BY <1>1, <1>4, AtPrincipal DEF RequestGrant, RequestsSettled, history
  <2>2. PICK i : i = principal.intent
    OBVIOUS
  <2>3. i \in IntentIds /\ i \in minted /\ grants[i] = NoGrant /\ i \notin revoked
    BY <1>3, <2>1, <2>2
  <2>4. principal'.pc # "request"
    <3>1. principal' = IdlePrincipal \/ principal' = [principal EXCEPT !.pc = "insert"]
      BY <1>4 DEF RequestGrant
    <3> QED BY <2>1, <3>1 DEF IdlePrincipal, Asked
  <2>5. \A j \in IntentIds \ {i} : greqs'[j] = greqs[j]
    BY <1>1, <1>4, <2>2 DEF RequestGrant, TypeOK, RequestMap
  <2> QED BY <1>1, <2>1, <2>3, <2>4, <2>5 DEF GrantsOnce
<1>5. ASSUME NEW g \in IntentIds, AdminRevokeGrant(g) PROVE GrantsOnce'
  <2>1. /\ grants[g].state = "Active" /\ grants \in [IntentIds -> Grant \cup {NoGrant}] /\ claims \in ClaimMap
        /\ grants' = [grants EXCEPT ![g] = TryTransition(@, "Active", "Revoked")]
        /\ claims' = CancelClaimsForGrant(claims, g)
        /\ revoked' = revoked \cup {g} /\ UNCHANGED <<greqs, minted, principal>>
    BY <1>1, <1>5 DEF AdminRevokeGrant, TypeOK, GrantMap
  <2>2. grants[g] # NoGrant /\ grants[g] \in Grant
    BY <2>1 DEF NoGrant
  <2>3. grants'[g].state = "Revoked" /\ \A h \in IntentIds \ {g} : grants'[h] = grants[h]
    BY <2>1, <2>2 DEF TryTransition, Grant
  <2>4. g \in minted /\ greqs[g].status # "open"
    BY <1>1, <2>2 DEF GrantsOnce
  <2>5. \A c \in CeremonyIds : /\ claims'[c] = claims[c] \/ claims'[c] = NoClaim
                               /\ claims'[c] # NoClaim => claims'[c].grant # g
    BY <2>1, ClaimEffects
  <2>6. \A c \in CeremonyIds : claims'[c].consumed = "no" => claims'[c].grant \notin revoked'
    <3>1. NoClaim.consumed = "None"
      BY DEF NoClaim
    <3> QED BY <1>1, <2>1, <2>5, <3>1 DEF GrantsOnce
  <2>7. \A i \in IntentIds :
          /\ greqs'[i].status = "open" => grants'[i] = NoGrant /\ i \notin revoked'
          /\ i \in revoked' => grants'[i].state # "Active"
          /\ i \notin minted' => grants'[i] = NoGrant /\ greqs'[i] = NoRequest
    BY <1>1, <2>1, <2>3, <2>4 DEF GrantsOnce
  <2>8. principal'.pc = "request" =>
          grants'[principal'.intent] = NoGrant /\ principal'.intent \notin revoked'
    BY <1>3, <2>1, <2>2, <2>3
  <2>9. revoked' \subseteq minted'
    BY <1>1, <2>1, <2>4 DEF GrantsOnce
  <2> QED BY <2>6, <2>7, <2>8, <2>9 DEF GrantsOnce
<1>6. ASSUME NEW r \in Reloaders, ReloadGrants(r) PROVE GrantsOnce'
  <2>1. /\ \A i \in IntentIds : GrantFades(grants[i], grants'[i]) /\ GrantRequestFades(greqs[i], greqs'[i])
        /\ \A c \in CeremonyIds : ClaimFades(claims[c], claims'[c])
        /\ UNCHANGED <<revoked, minted, principal>>
    BY <1>6 DEF ReloadGrants, GrantFades, GrantRequestFades, ClaimFades, history
  <2> QED BY <1>1, <1>3, <2>1, GrantsFade
<1>7. ASSUME NEW g \in IntentIds, RevokeGrantById(g) PROVE GrantsOnce'
  <2>1. \A i \in IntentIds : GrantFades(grants[i], grants'[i])
    BY <1>1, <1>7, GrantEffects DEF RevokeGrantById
  <2>2. UNCHANGED <<greqs, claims, minted, revoked, principal>>
    BY <1>7 DEF RevokeGrantById, threads, history
  <2> QED BY <1>1, <1>2, <1>3, <2>1, <2>2, GrantsFade
<1>8. CASE ExitGrants
  <2>1. PICK s, left : s = exit.session /\ left = RevokeSession(grants, s)
    OBVIOUS
  <2>2. /\ grants' = left /\ greqs' = DropRequests(greqs, s)
        /\ claims' = CancelClaimsForSession(RetainAfterExit(claims, left, s), left, s)
        /\ UNCHANGED <<minted, revoked, principal>>
    BY <1>8, <2>1 DEF ExitGrants, history
  <2>3. \A i \in IntentIds : GrantFades(grants[i], grants'[i]) /\ GrantRequestFades(greqs[i], greqs'[i])
    BY <1>1, <2>1, <2>2, GrantEffects
  <2>4. \A c \in CeremonyIds : ClaimFades(claims[c], claims'[c])
    BY <1>1, <2>2, ClaimEffects DEF ClaimFades, TypeOK
  <2> QED BY <1>1, <1>3, <2>2, <2>3, <2>4, GrantsFade
<1>9. CASE Closing
  <2>1. Closes
    BY <1>1, <1>9, ClosingSteps DEF Closing
  <2> QED BY <1>1, <1>2, <1>3, <2>1, GrantsFade DEF Closes, others, history
<1>10. CASE CreateIntent
  <2>1. UNCHANGED <<grants, greqs, claims, revoked>>
    BY <1>1, <1>10, CreateSteps DEF grantVars
  <2>2. CASE principal' = IdlePrincipal /\ UNCHANGED minted
    BY <1>1, <1>2, <2>1, <2>2, GrantsFade DEF IdlePrincipal
  <2>3. CASE ~(principal' = IdlePrincipal /\ UNCHANGED minted)
    <3>1. PICK i \in IntentIds \ minted : minted' = minted \cup {i} /\ principal'.intent = i
      BY <1>1, <1>10, <2>3, CreateSteps
    <3>2. grants[i] = NoGrant /\ i \notin revoked
      BY <1>1 DEF GrantsOnce
    <3> QED BY <1>1, <1>2, <2>1, <3>1, <3>2, GrantsFade
  <2> QED BY <2>2, <2>3
<1>11. CASE ResolveApprove
  <2>1. PICK i : i = worker.intent
    OBVIOUS
  <2>2. i \in IntentIds /\ preqs[i] # NoPreq /\ i \in minted
    BY <1>1, <1>11, <2>1 DEF ResolveApprove, RequestsSettled
  <2>3. Approves(i)
    BY <1>1, <1>11, <2>1, <2>2, ApproveSteps
  <2>4. UNCHANGED <<minted, principal, claims, revoked>>
    BY <1>11 DEF ResolveApprove, others
  <2>5. /\ \A j \in IntentIds \ {i} : grants'[j] = grants[j] /\ greqs'[j] = greqs[j]
        /\ \/ grants'[i] = grants[i] /\ greqs'[i] = greqs[i]
           \/ greqs[i].status = "open" /\ greqs'[i].status = "granted"
    BY <2>3 DEF Approves
  <2>6. principal'.pc = "request" =>
          grants'[principal'.intent] = NoGrant /\ principal'.intent \notin revoked'
    <3>1. principal.pc = "request" => preqs[principal.intent] = NoPreq
      BY <1>1 DEF RequestsSettled
    <3> QED BY <1>3, <2>2, <2>4, <2>5, <3>1
  <2>7. \A j \in IntentIds :
          /\ greqs'[j].status = "open" => grants'[j] = NoGrant /\ j \notin revoked'
          /\ j \in revoked' => grants'[j].state # "Active"
          /\ j \notin minted' => grants'[j] = NoGrant /\ greqs'[j] = NoRequest
    BY <1>1, <2>2, <2>4, <2>5 DEF GrantsOnce
  <2> QED BY <1>1, <2>4, <2>6, <2>7 DEF GrantsOnce
<1>12. CASE ClaimBound
  <2>1. UNCHANGED <<greqs, principal, revoked>>
    BY <1>12 DEF ClaimBound, others, history
  <2>2. CASE ClaimFails
    BY <1>1, <1>2, <1>3, <2>1, <2>2, GrantsFade DEF ClaimFails
  <2>3. CASE \E i \in IntentIds, c \in CeremonyIds : ClaimTakes(i, c)
    <3>1. PICK i \in IntentIds, c \in CeremonyIds : ClaimTakes(i, c)
      BY <2>3
    <3>2. \A g \in IntentIds : /\ grants[g] = NoGrant => grants'[g] = NoGrant
                               /\ grants[g].state # "Active" => grants'[g].state # "Active"
      <4>1. GrantRequestFades(NoRequest, NoRequest) /\ ClaimFades(NoClaim, NoClaim)
        BY DEF GrantRequestFades, ClaimFades
      <4>2. \A g \in IntentIds : GrantFades(grants[g], grants'[g])
        BY <3>1 DEF ClaimTakes
      <4> QED BY <4>1, <4>2, GrantFadesKeeps
    <3>3. \A d \in CeremonyIds : claims'[d].consumed = "no" => claims'[d].grant \notin revoked
      <4>1. /\ \A d \in CeremonyIds \ {c} : claims'[d] = claims[d]
            /\ \/ claims'[c] = claims[c]
               \/ claims'[c].grant \in IntentIds /\ grants[claims'[c].grant].state = "Active"
        BY <3>1 DEF ClaimTakes
      <4>2. \A g \in IntentIds : grants[g].state = "Active" => g \notin revoked
        BY <1>1 DEF GrantsOnce
      <4>3. \A d \in CeremonyIds : claims[d].consumed = "no" => claims[d].grant \notin revoked
        BY <1>1 DEF GrantsOnce
      <4> QED BY <4>1, <4>2, <4>3
    <3>4. minted \subseteq minted'
      BY <3>1 DEF ClaimTakes
    <3>5. ASSUME NEW j \in IntentIds
          PROVE  /\ greqs'[j].status = "open" => grants'[j] = NoGrant /\ j \notin revoked'
                 /\ j \in revoked' => grants'[j].state # "Active"
                 /\ j \notin minted' => grants'[j] = NoGrant /\ greqs'[j] = NoRequest
      BY <1>1, <2>1, <3>2, <3>4 DEF GrantsOnce
    <3>6. principal'.pc = "request" =>
            grants'[principal'.intent] = NoGrant /\ principal'.intent \notin revoked'
      BY <1>3, <2>1, <3>2
    <3>7. revoked' \subseteq minted'
      BY <1>1, <2>1, <3>4 DEF GrantsOnce
    <3> QED BY <2>1, <3>3, <3>5, <3>6, <3>7 DEF GrantsOnce
  <2> QED BY <1>1, <1>12, <2>2, <2>3, ClaimSteps
<1>13. CASE ConsumeGrantClaim
  <2>1. /\ \A c \in CeremonyIds : ClaimFades(claims[c], claims'[c])
        /\ UNCHANGED <<grants, greqs, minted, principal, revoked>>
    BY <1>1, <1>13, ConsumeClaimSteps DEF others, history
  <2> QED BY <1>1, <1>2, <1>3, <2>1, GrantsFade
<1>14. CASE InvalidateCeremony
  <2>1. pending[worker.cer] # NoAuth
    BY <1>1, <1>14 DEF InvalidateCeremony, HandlesHeld, Holding
  <2>2. /\ \A c \in CeremonyIds : ClaimFades(claims[c], claims'[c])
        /\ UNCHANGED <<grants, greqs, minted, principal, revoked>>
    BY <1>1, <1>14, <2>1, UndoSteps DEF others, history
  <2> QED BY <1>1, <1>2, <1>3, <2>2, GrantsFade
<1>15. CASE Tick \/ InsertRequest \/ RevokePending \/ ExitPending \/ ExitRequests
            \/ (\E s \in Sessions, kind \in Kinds, op \in Ops, ttl \in Ttls : StartRequest(s, kind, op, ttl))
            \/ (\E r \in Reloaders : StartReload(r) \/ ReloadPending(r) \/ ReloadRequests(r) \/ ReloadCurrent(r))
  <2>1. UNCHANGED <<grants, greqs, claims, minted, revoked>> /\ (UNCHANGED principal \/ principal'.pc # "request")
    BY <1>15 DEF Tick, InsertRequest, RevokePending, ExitPending, ExitRequests, StartRequest, StartReload,
         ReloadPending, ReloadRequests, ReloadCurrent, stores, threads, history, IdlePrincipal
  <2> QED BY <1>1, <1>2, <1>3, <2>1, GrantsFade
<1>16. CASE Aside
  BY <1>4, <1>5, <1>6, <1>7, <1>8, <1>15, <1>16 DEF Aside, ExitStep
<1>17. CASE \/ Moves \/ ResolveMatch \/ PublishHandle \/ ConsumeIntent \/ UseKey
            \/ \E s \in Sessions, op \in Ops, ttl \in Ttls : AdminCreate(s, op, ttl)
            \/ \E i \in IntentIds, to \in {"Approved", "Denied"} : AdminResolve(i, to)
            \/ \E r \in Reloaders : ReloadIntents(r)
            \/ \E s \in Sessions : ExitIntents(s)
  <2>1. UNCHANGED <<grants, greqs, claims, principal, revoked>> /\ minted \subseteq minted'
    <3>1. CASE Moves \/ ResolveMatch
      BY <1>1, <3>1, MovingSteps, MatchSteps DEF stores, others, history
    <3>2. CASE PublishHandle \/ ConsumeIntent \/ UseKey
      BY <3>2 DEF PublishHandle, ConsumeIntent, UseKey, stores, grantVars, others, history
    <3>3. CASE \/ \E s \in Sessions, op \in Ops, ttl \in Ttls : AdminCreate(s, op, ttl)
               \/ \E i \in IntentIds, to \in {"Approved", "Denied"} : AdminResolve(i, to)
      BY <3>3 DEF AdminCreate, AdminResolve, grantVars, threads
    <3>4. CASE (\E r \in Reloaders : ReloadIntents(r)) \/ \E s \in Sessions : ExitIntents(s)
      BY <3>4 DEF ReloadIntents, ExitIntents, grantVars, history
    <3> QED BY <1>17, <3>1, <3>2, <3>3, <3>4
  <2> QED BY <1>1, <1>2, <1>3, <2>1, GrantsFade
<1> QED BY <1>9, <1>10, <1>11, <1>12, <1>13, <1>14, <1>16, <1>17, NextCases

-----------------------------------------------------------------------------
(* Authorization handles.                                                   *)

Inv4 == HandlesHeld /\ OneLiveHandle

\* The worker comes to rest or goes on with a handle that is published.
WorkerKeepsHandle ==
  \/ UNCHANGED worker
  \/ worker'.pc \notin Holding
  \/ /\ worker.pc \in Holding \ {"publish"} /\ worker'.pc \in Holding \ {"publish"}
     /\ worker'.intent = worker.intent /\ worker'.cer = worker.cer

\* What a handle that fades keeps.
LEMMA HandleFadesKeeps ==
  ASSUME NEW x \in Auth \cup {NoAuth}, NEW y, HandleFades(x, y)
  PROVE  /\ x # NoAuth <=> y # NoAuth
         /\ x # NoAuth => y.intent = x.intent
         /\ y.status = "valid" => y = x
<1>1. CASE y = x
  BY <1>1
<1>2. CASE y # x
  <2>1. x \in Auth /\ y \in Auth /\ y.intent = x.intent /\ y.status = "invalidated"
    BY <1>2 DEF HandleFades
  <2>2. NoAuth \notin Auth
    BY DEF NoAuth, Auth
  <2> QED BY <2>1, <2>2
<1> QED BY <1>1, <1>2

\* A live handle names an intent.
LEMMA LiveHandle ==
  ASSUME TypeOK, NEW c \in CeremonyIds, pending[c].status = "valid"
  PROVE  pending[c] # NoAuth /\ pending[c] \in Auth /\ pending[c].intent \in IntentIds
<1>1. pending[c] \in Auth \cup {NoAuth} /\ pending[c] # NoAuth
  BY DEF TypeOK, NoAuth
<1> QED BY <1>1 DEF Auth

\* A step in which handles at most fade and claimed intents stay claimed.
LEMMA HandlesFade ==
  ASSUME TypeOK, WorkerHolds, Inv4, WorkerKeepsHandle,
         \A c \in CeremonyIds : HandleFades(pending[c], pending'[c]), minted \subseteq minted',
         \A i \in IntentIds \cap minted :
           /\ intents[i].state \in {"Claimed", "Consumed", "None"} =>
                intents'[i].state \in {"Claimed", "Consumed", "None"}
           /\ worker'.pc = "publish" /\ intents[i].state \in {"Claimed", "None"} =>
                intents'[i].state \in {"Claimed", "None"}
  PROVE  Inv4'
<1>1. ASSUME NEW c \in CeremonyIds
      PROVE  /\ pending[c] # NoAuth <=> pending'[c] # NoAuth
             /\ pending[c] # NoAuth => pending'[c].intent = pending[c].intent
             /\ pending'[c].status = "valid" => pending'[c] = pending[c]
  BY HandleFadesKeeps DEF TypeOK
<1>2. OneLiveHandle'
  BY <1>1 DEF Inv4, OneLiveHandle
<1>3. \A c \in CeremonyIds : pending'[c] # NoAuth => c \in minted'
  BY <1>1 DEF Inv4, HandlesHeld
<1>4. ASSUME NEW c \in CeremonyIds, pending'[c].status = "valid"
      PROVE  /\ pending'[c].intent \in minted'
             /\ intents'[pending'[c].intent].state \in {"Claimed", "Consumed", "None"}
  <2>1. pending'[c] = pending[c] /\ pending[c].status = "valid"
    BY <1>1, <1>4
  <2>2. /\ pending[c].intent \in IntentIds \cap minted
        /\ intents[pending[c].intent].state \in {"Claimed", "Consumed", "None"}
    BY <2>1, LiveHandle DEF Inv4, HandlesHeld
  <2> QED BY <2>1, <2>2
<1>5. ASSUME worker'.pc = "publish"
      PROVE  /\ pending'[worker'.cer] = NoAuth
             /\ intents'[worker'.intent].state \in {"Claimed", "None"}
             /\ \A c \in CeremonyIds : pending'[c].status = "valid" => pending'[c].intent # worker'.intent
  <2>1. worker' = worker
    BY <1>5 DEF WorkerKeepsHandle, Holding
  <2>2. worker.pc = "publish" /\ worker.cer \in CeremonyIds /\ worker.intent \in IntentIds \cap minted
    BY <1>5, <2>1 DEF WorkerHolds, Holding
  <2>3. /\ pending[worker.cer] = NoAuth
        /\ intents[worker.intent].state \in {"Claimed", "None"}
        /\ \A c \in CeremonyIds : pending[c].status = "valid" => pending[c].intent # worker.intent
    BY <2>2 DEF Inv4, HandlesHeld
  <2>4. pending'[worker.cer] = NoAuth
    BY <1>1, <2>2, <2>3
  <2>5. intents'[worker.intent].state \in {"Claimed", "None"}
    BY <1>5, <2>2, <2>3
  <2>6. \A c \in CeremonyIds : pending'[c].status = "valid" => pending'[c].intent # worker.intent
    BY <1>1, <2>3
  <2> QED BY <2>1, <2>4, <2>5, <2>6
<1>6. ASSUME worker'.pc \in Holding \ {"publish"}
      PROVE  /\ pending'[worker'.cer] # NoAuth /\ pending'[worker'.cer].intent = worker'.intent
             /\ \A c \in CeremonyIds :
                  pending'[c].status = "valid" /\ pending'[c].intent = worker'.intent => c = worker'.cer
  <2>1. /\ worker.pc \in Holding \ {"publish"} /\ worker'.intent = worker.intent /\ worker'.cer = worker.cer
    BY <1>6 DEF WorkerKeepsHandle
  <2>2. worker.cer \in CeremonyIds
    BY <2>1 DEF WorkerHolds
  <2>3. /\ pending[worker.cer] # NoAuth /\ pending[worker.cer].intent = worker.intent
        /\ \A c \in CeremonyIds :
             pending[c].status = "valid" /\ pending[c].intent = worker.intent => c = worker.cer
    BY <2>1 DEF Inv4, HandlesHeld
  <2> QED BY <1>1, <2>1, <2>2, <2>3
<1>7. HandlesHeld'
  BY <1>3, <1>4, <1>5, <1>6 DEF HandlesHeld
<1> QED BY <1>2, <1>7 DEF Inv4

\* Intents that fade stay claimed, consumed or gone.
LEMMA FadeKeepsClaims ==
  ASSUME TypeOK, NEW S \in SUBSET IntentIds, \A i \in S : Fades(intents[i], intents'[i])
  PROVE  \A i \in S : /\ intents[i].state \in {"Claimed", "Consumed", "None"} =>
                           intents'[i].state = intents[i].state
                      /\ intents'[i].state \in {"Approved", "Claimed", "Consumed"} =>
                           intents'[i].state = intents[i].state
BY FadesKeeps DEF TypeOK, Store

\* A claim is made for a ceremony that has no handle, on an intent that has none.
LEMMA HandleClaimed ==
  ASSUME TypeOK, Inv4, NEW i \in IntentIds, NEW c \in CeremonyIds, ClaimTakes(i, c), UNCHANGED pending
  PROVE  Inv4'
<1>1. /\ i \in IntentIds /\ c \in CeremonyIds \ minted /\ intents[i].state = "Approved"
      /\ intents'[i].state = "Claimed" /\ minted' = minted \cup {c}
      /\ worker'.pc = "publish" /\ worker'.intent = i /\ worker'.cer = c
      /\ \A j \in IntentIds \ {i} : Fades(intents[j], intents'[j])
  BY DEF ClaimTakes
<1>2. \A j \in IntentIds \ {i} :
        intents[j].state \in {"Claimed", "Consumed", "None"} => intents'[j].state = intents[j].state
  <2>1. IntentIds \ {i} \in SUBSET IntentIds
    OBVIOUS
  <2> QED BY <1>1, <2>1, FadeKeepsClaims
<1>3. pending[c] = NoAuth
  BY <1>1 DEF Inv4, HandlesHeld
<1>4. ASSUME NEW d \in CeremonyIds, pending[d].status = "valid"
      PROVE  /\ pending[d].intent # i /\ pending[d].intent \in minted'
             /\ intents'[pending[d].intent].state \in {"Claimed", "Consumed", "None"}
  <2>1. /\ pending[d].intent \in IntentIds /\ pending[d].intent \in minted
        /\ intents[pending[d].intent].state \in {"Claimed", "Consumed", "None"}
    BY <1>4, LiveHandle DEF Inv4, HandlesHeld
  <2> QED BY <1>1, <1>2, <2>1
<1>5. \A d \in CeremonyIds : pending[d] # NoAuth => d \in minted'
  BY <1>1 DEF Inv4, HandlesHeld
<1>6. HandlesHeld'
  BY <1>1, <1>3, <1>4, <1>5 DEF HandlesHeld
<1> QED BY <1>6 DEF Inv4, OneLiveHandle

\* The handle is published.
LEMMA HandlePublished ==
  ASSUME TypeOK, WorkerHolds, Inv4, PublishHandle
  PROVE  Inv4'
<1>1. PICK i, c : i = worker.intent /\ c = worker.cer
  OBVIOUS
<1>2. /\ worker.pc = "publish" /\ c \in CeremonyIds /\ i \in IntentIds /\ i \in minted /\ c \in minted
  BY <1>1 DEF PublishHandle, WorkerHolds, Holding
<1>3. /\ worker'.intent = i /\ worker'.cer = c /\ worker'.pc = "consume"
      /\ \A d \in CeremonyIds \ {c} : pending'[d] = pending[d]
      /\ pending'[c] \in Auth /\ pending'[c].intent = i /\ pending'[c].status = "valid"
      /\ UNCHANGED <<intents, minted>>
  BY <1>1, PublishSteps DEF SameCeremony, stores
<1>4. pending'[c] # NoAuth
  BY <1>3 DEF NoAuth, Auth
<1>5. /\ intents[i].state \in {"Claimed", "None"}
      /\ \A d \in CeremonyIds : pending[d].status = "valid" => pending[d].intent # i
  BY <1>1, <1>2 DEF Inv4, HandlesHeld
<1>6. OneLiveHandle'
  <2>1. ASSUME NEW d \in CeremonyIds, NEW e \in CeremonyIds, pending'[d].status = "valid",
               pending'[e].status = "valid", pending'[d].intent = pending'[e].intent
        PROVE  d = e
    <3>1. CASE d = c
      BY <1>3, <1>5, <2>1, <3>1
    <3>2. CASE e = c
      BY <1>3, <1>5, <2>1, <3>2
    <3>3. CASE d # c /\ e # c
      <4>1. pending'[d] = pending[d] /\ pending'[e] = pending[e]
        BY <1>3, <3>3
      <4> QED BY <2>1, <4>1 DEF Inv4, OneLiveHandle
    <3> QED BY <3>1, <3>2, <3>3
  <2> QED BY <2>1 DEF OneLiveHandle
<1>7. \A d \in CeremonyIds : pending'[d] # NoAuth => d \in minted'
  BY <1>2, <1>3 DEF Inv4, HandlesHeld
<1>8. \A d \in CeremonyIds : pending'[d].status = "valid" =>
        /\ pending'[d].intent \in minted'
        /\ intents'[pending'[d].intent].state \in {"Claimed", "Consumed", "None"}
  <2>1. ASSUME NEW d \in CeremonyIds, pending'[d].status = "valid"
        PROVE  /\ pending'[d].intent \in minted
               /\ intents[pending'[d].intent].state \in {"Claimed", "Consumed", "None"}
    <3>1. CASE d = c
      BY <1>2, <1>3, <1>5, <3>1
    <3>2. CASE d # c
      <4>1. pending'[d] = pending[d]
        BY <1>3, <3>2
      <4> QED BY <2>1, <4>1 DEF Inv4, HandlesHeld
    <3> QED BY <3>1, <3>2
  <2> QED BY <1>3, <2>1
<1>9. \A d \in CeremonyIds : pending'[d].status = "valid" /\ pending'[d].intent = i => d = c
  BY <1>3, <1>5
<1>10. HandlesHeld'
  BY <1>3, <1>4, <1>7, <1>8, <1>9 DEF HandlesHeld, Holding
<1> QED BY <1>6, <1>10 DEF Inv4

\* The handle is spent, and the intent is free again if it was not consumed.
LEMMA HandleSpent ==
  ASSUME TypeOK, WorkerHolds, Inv4, InvalidateCeremony
  PROVE  Inv4'
<1>1. PICK i, c : i = worker.intent /\ c = worker.cer
  OBVIOUS
<1>2. worker.pc \in {"finish", "abort"} /\ c \in CeremonyIds /\ i \in IntentIds
  BY <1>1 DEF InvalidateCeremony, WorkerHolds, Holding
<1>3. /\ pending[c] # NoAuth /\ pending[c].intent = i
      /\ \A d \in CeremonyIds : pending[d].status = "valid" /\ pending[d].intent = i => d = c
  BY <1>1, <1>2 DEF Inv4, HandlesHeld, Holding
<1>4. /\ \A j \in IntentIds \ {i} : intents'[j] = intents[j]
      /\ \A d \in CeremonyIds : HandleFades(pending[d], pending'[d])
      /\ pending'[c].status = "invalidated" /\ UNCHANGED minted
      /\ \/ worker' = IdleWorker
         \/ SameCeremony /\ worker'.pc = "use"
  BY <1>1, <1>3, UndoSteps
<1>5. ASSUME NEW d \in CeremonyIds
      PROVE  /\ pending[d] # NoAuth <=> pending'[d] # NoAuth
             /\ pending[d] # NoAuth => pending'[d].intent = pending[d].intent
             /\ pending'[d].status = "valid" => pending'[d] = pending[d]
  BY <1>4, HandleFadesKeeps DEF TypeOK
<1>6. OneLiveHandle'
  BY <1>5 DEF Inv4, OneLiveHandle
<1>7. \A d \in CeremonyIds : pending'[d] # NoAuth => d \in minted'
  BY <1>4, <1>5 DEF Inv4, HandlesHeld
<1>8. ASSUME NEW d \in CeremonyIds, pending'[d].status = "valid"
      PROVE  /\ pending'[d].intent \in minted' /\ pending'[d].intent # i
             /\ intents'[pending'[d].intent].state \in {"Claimed", "Consumed", "None"}
  <2>1. pending'[d] = pending[d] /\ pending[d].status = "valid" /\ d # c
    BY <1>4, <1>5, <1>8
  <2>2. /\ pending[d].intent \in IntentIds /\ pending[d].intent \in minted
        /\ intents[pending[d].intent].state \in {"Claimed", "Consumed", "None"}
    BY <2>1, LiveHandle DEF Inv4, HandlesHeld
  <2>3. pending[d].intent # i
    BY <1>3, <2>1
  <2> QED BY <1>4, <2>1, <2>2, <2>3
<1>9. /\ worker'.pc # "publish"
      /\ worker'.pc \in Holding => worker'.intent = i /\ worker'.cer = c
  BY <1>1, <1>4 DEF IdleWorker, SameCeremony, Holding
<1>10. pending'[c] # NoAuth /\ pending'[c].intent = i
  BY <1>2, <1>3, <1>5
<1>11. HandlesHeld'
  BY <1>7, <1>8, <1>9, <1>10 DEF HandlesHeld
<1> QED BY <1>6, <1>11 DEF Inv4

\* Every step preserves what is known of handles.
LEMMA Inv4Next ==
  ASSUME IInv, Next
  PROVE  Inv4'
<1>1. TypeOK /\ Inv1 /\ WorkerHolds /\ RequestsSettled /\ HandlesHeld /\ Inv4
  BY DEF IInv, Inv1, Inv4
<1>2. \A c \in CeremonyIds : HandleFades(pending[c], pending[c])
  BY DEF HandleFades
<1>3. ASSUME WorkerKeepsHandle, minted \subseteq minted',
             \A c \in CeremonyIds : HandleFades(pending[c], pending'[c]),
             \A i \in IntentIds \cap minted : Fades(intents[i], intents'[i])
      PROVE  Inv4'
  <2>1. PICK S : S = IntentIds \cap minted
    OBVIOUS
  <2>2. S \in SUBSET IntentIds /\ \A i \in S : Fades(intents[i], intents'[i])
    BY <1>3, <2>1
  <2>3. \A i \in S : intents[i].state \in {"Claimed", "Consumed", "None"} =>
                       intents'[i].state = intents[i].state
    BY <1>1, <2>2, FadeKeepsClaims
  <2> QED BY <1>1, <1>3, <2>1, <2>3, HandlesFade
<1>4. CASE Aside
  <2>1. UNCHANGED <<intents, minted, worker>>
    BY <1>4, AsideSteps
  <2>2. \A c \in CeremonyIds : HandleFades(pending[c], pending'[c])
    <3>1. CASE \E r \in Reloaders : ReloadPending(r)
      BY <1>1, <3>1, InvalidatedEffect DEF ReloadPending
    <3>2. CASE RevokePending
      BY <1>1, <3>2, InvalidatedEffect DEF RevokePending
    <3>3. CASE ExitPending
      BY <1>1, <3>3, InvalidatedEffect DEF ExitPending
    <3>4. CASE ~(RevokePending \/ ExitPending \/ \E r \in Reloaders : ReloadPending(r))
      <4>1. UNCHANGED pending
        BY <1>4, <3>4 DEF Aside, Tick, StartRequest, RequestGrant, InsertRequest, StartReload,
             ReloadRequests, ReloadGrants, ReloadCurrent, AdminRevokeGrant, RevokeGrantById, ExitStep,
             ExitGrants, ExitRequests
      <4> QED BY <1>2, <4>1
    <3> QED BY <3>1, <3>2, <3>3, <3>4
  <2> QED BY <1>3, <2>1, <2>2 DEF WorkerKeepsHandle, Fades
<1>5. CASE Closing
  <2>1. Closes
    BY <1>1, <1>5, ClosingSteps DEF Closing
  <2>2. WorkerKeepsHandle
    BY <2>1 DEF Closes, WorkerKeepsHandle, IdleWorker, Holding
  <2> QED BY <1>2, <1>3, <2>1, <2>2 DEF Closes
<1>6. CASE Moves
  <2>1. UNCHANGED <<intents, pending, minted>>
    BY <1>1, <1>6, MovingSteps DEF stores
  <2>2. WorkerKeepsHandle
    <3>1. CASE worker'.pc \in {"idle", "prompt", "claim"}
      BY <3>1 DEF WorkerKeepsHandle, Holding
    <3>2. CASE worker'.pc \notin {"idle", "prompt", "claim"}
      <4>1. /\ worker.pc \in {"consume", "checkGen", "checkGrant"}
            /\ worker'.pc \in {"checkGen", "checkGrant", "consumeIntent", "abort"}
            /\ worker'.intent = worker.intent /\ worker'.cer = worker.cer
        BY <1>1, <1>6, <3>2, MovingSteps
      <4> QED BY <4>1 DEF WorkerKeepsHandle, Holding
    <3> QED BY <3>1, <3>2
  <2> QED BY <1>2, <1>3, <2>1, <2>2 DEF Fades
<1>7. CASE CreateIntent
  <2>1. UNCHANGED <<worker, pending>>
    BY <1>1, <1>7, CreateSteps
  <2>2. minted \subseteq minted' /\ \A j \in IntentIds \cap minted : Fades(intents[j], intents'[j])
    <3>1. CASE UNCHANGED minted /\ \A j \in IntentIds : Fades(intents[j], intents'[j])
      BY <3>1
    <3>2. CASE ~(UNCHANGED minted /\ \A j \in IntentIds : Fades(intents[j], intents'[j]))
      <4>1. PICK i \in IntentIds \ minted : /\ minted' = minted \cup {i}
                                            /\ \A j \in IntentIds \ {i} : Fades(intents[j], intents'[j])
        BY <1>1, <1>7, <3>2, CreateSteps
      <4> QED BY <4>1
    <3> QED BY <3>1, <3>2
  <2> QED BY <1>2, <1>3, <2>1, <2>2 DEF WorkerKeepsHandle
<1>8. CASE \E s \in Sessions, op \in Ops, ttl \in Ttls : AdminCreate(s, op, ttl)
  <2>1. PICK s \in Sessions, op \in Ops, ttl \in Ttls : AdminCreate(s, op, ttl)
    BY <1>8
  <2>2. PICK i \in IntentIds \ minted : /\ minted' = minted \cup {i}
                                        /\ \A j \in IntentIds \ {i} : Fades(intents[j], intents'[j])
                                        /\ UNCHANGED <<pending, threads>>
    BY <1>1, <2>1, AdminCreateSteps
  <2> QED BY <1>2, <1>3, <2>2 DEF WorkerKeepsHandle, threads
<1>9. CASE ResolveMatch
  <2>1. UNCHANGED <<intents, pending, minted>> /\ worker'.pc \notin Holding
    BY <1>1, <1>9, MatchSteps DEF stores, Holding
  <2> QED BY <1>2, <1>3, <2>1 DEF WorkerKeepsHandle, Fades
<1>10. CASE ResolveApprove
  <2>1. PICK i : i = worker.intent
    OBVIOUS
  <2>2. i \in IntentIds /\ preqs[i] # NoPreq
    BY <1>1, <1>10, <2>1 DEF ResolveApprove, RequestsSettled
  <2>3. Approves(i)
    BY <1>1, <1>10, <2>1, <2>2, ApproveSteps
  <2>4. UNCHANGED <<pending, minted>>
    BY <1>10 DEF ResolveApprove
  <2>5. worker'.pc \notin Holding
    BY <2>3 DEF Approves, Holding
  <2>6. CASE Fades(intents[i], intents'[i])
    <3>1. \A j \in IntentIds : Fades(intents[j], intents'[j])
      BY <2>3, <2>6 DEF Approves, Fades
    <3> QED BY <1>2, <1>3, <2>4, <2>5, <3>1 DEF WorkerKeepsHandle
  <2>7. CASE ~Fades(intents[i], intents'[i])
    <3>1. intents[i].state = "Pending" /\ \A j \in IntentIds \ {i} : intents'[j] = intents[j]
      BY <2>3, <2>7 DEF Approves
    <3>2. worker'.pc # "publish"
      BY <2>5 DEF Holding
    <3> QED BY <1>1, <1>2, <2>4, <2>5, <3>1, <3>2, HandlesFade DEF WorkerKeepsHandle
  <2> QED BY <2>6, <2>7
<1>11. CASE \E i \in IntentIds, to \in {"Approved", "Denied"} : AdminResolve(i, to)
  <2>1. PICK i \in IntentIds, to \in {"Approved", "Denied"} : AdminResolve(i, to)
    BY <1>11
  <2>2. /\ \A j \in IntentIds \ {i} : intents'[j] = intents[j]
        /\ intents[i].state = "Pending" /\ UNCHANGED <<pending, minted, worker>>
    BY <1>1, <2>1, AdminResolveSteps DEF threads
  <2> QED BY <1>1, <1>2, <2>2, HandlesFade DEF WorkerKeepsHandle
<1>12. CASE ClaimBound
  <2>1. UNCHANGED pending
    BY <1>12 DEF ClaimBound
  <2>2. CASE ClaimFails
    <3>1. WorkerKeepsHandle
      BY <2>2 DEF ClaimFails, WorkerKeepsHandle, IdleWorker, Holding
    <3> QED BY <1>2, <1>3, <2>1, <2>2, <3>1 DEF ClaimFails
  <2>3. CASE \E i \in IntentIds, c \in CeremonyIds : ClaimTakes(i, c)
    BY <1>1, <2>1, <2>3, HandleClaimed
  <2> QED BY <1>1, <1>12, <2>2, <2>3, ClaimSteps
<1>13. CASE PublishHandle
  BY <1>1, <1>13, HandlePublished
<1>14. CASE ConsumeIntent
  <2>1. worker.pc = "consumeIntent" /\ UNCHANGED <<pending, minted>>
    BY <1>14 DEF ConsumeIntent
  <2>2. PICK i : i = worker.intent
    OBVIOUS
  <2>3. /\ \A j \in IntentIds \ {i} : intents'[j] = intents[j]
        /\ intents'[i] = intents[i] \/ intents'[i].state = "Consumed"
        /\ worker' = IdleWorker \/ (SameCeremony /\ worker'.pc \in {"consumeGrant", "finish"})
    BY <1>1, <1>14, <2>2, ConsumeSteps
  <2>4. WorkerKeepsHandle /\ worker'.pc # "publish"
    BY <2>1, <2>3 DEF WorkerKeepsHandle, SameCeremony, IdleWorker, Holding
  <2> QED BY <1>1, <1>2, <2>1, <2>3, <2>4, HandlesFade
<1>15. CASE ConsumeGrantClaim
  <2>1. /\ worker.pc = "consumeGrant" /\ UNCHANGED <<intents, pending, minted>>
        /\ SameCeremony /\ worker'.pc \in {"finish", "abort"}
    BY <1>1, <1>15, ConsumeClaimSteps
  <2> QED BY <1>2, <1>3, <2>1 DEF WorkerKeepsHandle, SameCeremony, Holding, Fades
<1>16. CASE InvalidateCeremony
  BY <1>1, <1>16, HandleSpent
<1>17. CASE UseKey
  <2>1. UNCHANGED <<intents, pending, minted>> /\ worker' = IdleWorker
    BY <1>17 DEF UseKey, stores
  <2> QED BY <1>2, <1>3, <2>1 DEF WorkerKeepsHandle, IdleWorker, Holding, Fades
<1>18. CASE \E r \in Reloaders : ReloadIntents(r)
  <2>1. UNCHANGED <<pending, minted, worker>> /\ \A i \in IntentIds : intents'[i].state = "None"
    BY <1>18 DEF ReloadIntents, EmptyStore, NoIntent
  <2> QED BY <1>1, <1>2, <2>1, HandlesFade DEF WorkerKeepsHandle
<1>19. CASE \E s \in Sessions : ExitIntents(s)
  <2>1. PICK s \in Sessions : ExitIntents(s)
    BY <1>19
  <2>2. UNCHANGED <<worker, minted, pending>>
    BY <2>1 DEF ExitIntents
  <2>3. \A i \in IntentIds : Fades(intents[i], intents'[i])
    BY <1>1, <2>1, CancelFades DEF ExitIntents, TypeOK
  <2> QED BY <1>2, <1>3, <2>2, <2>3 DEF WorkerKeepsHandle
<1> QED BY <1>4, <1>5, <1>6, <1>7, <1>8, <1>9, <1>10, <1>11, <1>12, <1>13, <1>14, <1>15, <1>16,
          <1>17, <1>18, <1>19, NextCases

-----------------------------------------------------------------------------
(* The theorems.                                                            *)

\* The runtime starts empty.
LEMMA InitInv == Init => IInv
<1> SUFFICES ASSUME Init PROVE IInv
  OBVIOUS
<1>1. TypeOK
  <2>1. intents \in Store
    BY DEF Init, EmptyStore, Store
  <2>2. grants \in GrantMap /\ greqs \in RequestMap /\ claims \in ClaimMap
    BY DEF Init, GrantMap, RequestMap, ClaimMap
  <2> QED BY <2>1, <2>2 DEF Init, TypeOK
<1>2. /\ worker.pc = "idle" /\ principal.pc = "idle"
      /\ \A i \in IntentIds : /\ intents[i] = NoIntent /\ preqs[i] = NoPreq
                              /\ grants[i] = NoGrant /\ greqs[i] = NoRequest
      /\ \A c \in CeremonyIds : pending[c] = NoAuth /\ claims[c] = NoClaim
      /\ minted = {} /\ wiped = {} /\ approvals = {} /\ keyUses = {} /\ revoked = {}
  BY DEF Init, EmptyStore, IdleWorker, IdlePrincipal
<1>3. /\ NoRequest.status = "None" /\ NoClaim.consumed = "None" /\ NoAuth.status = "None"
  BY DEF NoRequest, NoClaim, NoAuth
<1>4. IntentsKnown /\ UsesSpent /\ OneUsePerApproval /\ UsedAsAsked
  BY <1>2 DEF IntentsKnown, UsesSpent, OneUsePerApproval, UsedAsAsked
<1>5. WorkerHolds /\ RequestsSettled
  BY <1>2 DEF WorkerHolds, RequestsSettled, Holding
<1>6. GrantsOnce
  BY <1>2, <1>3 DEF GrantsOnce
<1>7. HandlesHeld /\ OneLiveHandle
  BY <1>2, <1>3 DEF HandlesHeld, OneLiveHandle, Holding
<1> QED BY <1>1, <1>4, <1>5, <1>6, <1>7 DEF IInv

\* A stuttering step changes nothing the invariant speaks of.
LEMMA StutterInv ==
  ASSUME IInv, UNCHANGED vars
  PROVE  IInv'
<1>1. UNCHANGED <<intents, grants, greqs, claims, regGen, pending, preqs, preqLock, current, lastGen,
                  now, minted, principal, worker, reload, revoke, exit, made, approvals, keyUses,
                  wiped, revoked>>
  BY DEF vars, stores, threads, history
<1>2. TypeOK'
  BY <1>1 DEF IInv, TypeOK
<1>3. IntentsKnown' /\ UsesSpent' /\ WorkerHolds' /\ OneUsePerApproval' /\ UsedAsAsked'
  BY <1>1 DEF IInv, IntentsKnown, UsesSpent, WorkerHolds, OneUsePerApproval, UsedAsAsked, Spent
<1>4. RequestsSettled' /\ GrantsOnce'
  BY <1>1 DEF IInv, RequestsSettled, GrantsOnce
<1>5. HandlesHeld' /\ OneLiveHandle'
  BY <1>1 DEF IInv, HandlesHeld, OneLiveHandle
<1> QED BY <1>2, <1>3, <1>4, <1>5 DEF IInv

\* The inductive invariant of the runtime holds in every behaviour.
THEOREM InvHolds == Spec => []IInv
<1>1. IInv /\ [Next]_vars => IInv'
  <2> SUFFICES ASSUME IInv, [Next]_vars PROVE IInv'
    OBVIOUS
  <2>1. CASE Next
    <3>1. TypeOK' /\ Inv1' /\ RequestsSettled' /\ GrantsOnce' /\ Inv4'
      BY <2>1, TypeNext, Inv1Next, Inv2Next, Inv3Next, Inv4Next
    <3> QED BY <3>1 DEF IInv, Inv1, Inv4
  <2>2. CASE UNCHANGED vars
    BY <2>2, StutterInv
  <2> QED BY <2>1, <2>2
<1> QED BY InitInv, <1>1, PTL DEF Spec

\* UsesApproved for every instance in which no administrator approves intents by
\* hand: a use of the key goes back to one approval, of that operation for that
\* session, and the request of it was not closed before.
THEOREM UsesApprovedHolds == "admin" \notin Actors => (Spec => []UsesApproved)
<1> SUFFICES ASSUME "admin" \notin Actors PROVE Spec => []UsesApproved
  OBVIOUS
<1>1. IInv => UsesApproved
  <2> SUFFICES ASSUME IInv PROVE UsesApproved
    OBVIOUS
  <2>1. ClosedNeverUsed
    BY DEF IInv, ClosedNeverUsed, OneUsePerApproval, RequestsSettled
  <2> QED BY <2>1 DEF IInv, UsesApproved
<1> QED BY InvHolds, <1>1, PTL

\* With administrators who approve intents by hand as well, what is left of it:
\* one approval is one use of the key, for what was asked.
THEOREM OneUsePerApprovalHolds == Spec => [](OneUsePerApproval /\ UsedAsAsked)
<1>1. IInv => OneUsePerApproval /\ UsedAsAsked
  BY DEF IInv
<1> QED BY InvHolds, <1>1, PTL

\* ReloadStopsInFlight: an intent that a reload found unconsumed is never used,
\* whatever the ceremony that had claimed it had checked before.
THEOREM ReloadStopsInFlightHolds == Spec => []ReloadStopsInFlight
<1>1. IInv => ReloadStopsInFlight
  BY DEF IInv, UsesSpent, Spent, ReloadStopsInFlight
<1> QED BY InvHolds, <1>1, PTL

\* An intent backs at most one live authorization handle (pending).
THEOREM OneLiveHandleHolds == Spec => []OneLiveHandle
<1>1. IInv => OneLiveHandle
  BY DEF IInv
<1> QED BY InvHolds, <1>1, PTL

\* RevokedNeverConsumed: once admin_revoke_grant has revoked a grant, no step
\* consumes a claim on it.
THEOREM RevokedNeverConsumedHolds == Spec => RevokedNeverConsumed
<1>1. IInv => ConsumesLiveGrant
  BY DEF IInv, GrantsOnce, ConsumesLiveGrant
<1> QED BY InvHolds, <1>1, PTL DEF Spec, RevokedNeverConsumed
=============================================================================
