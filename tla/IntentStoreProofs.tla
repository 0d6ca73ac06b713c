------------------------- MODULE IntentStoreProofs -------------------------
(***************************************************************************)
(* Proofs about the one-shot intent store, for every set of intents,       *)
(* sessions and scopes, every limit and every TTL.                         *)
(***************************************************************************)
EXTENDS IntentStore, FiniteSetTheorems, TLAPS

\* transition_to returns a record of the same shape with its token untouched,
\* and a change of state is one of the listed transitions.
LEMMA TransitionToFacts ==
  ASSUME NEW i \in Intent \cup {NoIntent}, NEW to \in IntentStates
  PROVE  /\ TransitionTo(i, to) \in Intent \cup {NoIntent}
         /\ (TransitionTo(i, to) = NoIntent) <=> (i = NoIntent)
         /\ i # NoIntent => TransitionTo(i, to).token = i.token
         /\ TransitionTo(i, to).state # i.state =>
              /\ TransitionTo(i, to).state = to
              /\ <<i.state, to>> \in Transitions
BY DEF TransitionTo, CanTransition, Transitions, Intent, IntentStates, NoIntent

\* Expiry keeps a record or moves it from Pending or Approved to Expired.
LEMMA ExpireFacts ==
  ASSUME NEW i \in Intent \cup {NoIntent}, NEW t \in Nat
  PROVE  /\ Expire(i, t) \in Intent \cup {NoIntent}
         /\ (Expire(i, t) = NoIntent) <=> (i = NoIntent)
         /\ i # NoIntent => Expire(i, t).token = i.token
         /\ Expire(i, t).state # i.state =>
              /\ Expire(i, t).state = "Expired"
              /\ i.state \in {"Pending", "Approved"}
BY DEF Expire, Overdue, TransitionTo, CanTransition, Transitions, Intent, NoIntent,
       IntentStates

\* A step that leaves the history alone and treats every record in one of
\* these ways preserves the invariant.
Harmless(old, new) ==
  \/ new = old
  \/ new = NoIntent
  \/ /\ old # NoIntent
     /\ new \in Intent
     /\ old.token = "taken" => new.token = "taken"
     /\ new.state = "Consumed" => old.state = "Consumed"
     /\ new.state \in {"Approved", "Claimed"} => old.state \in {"Approved", "Claimed"}
     /\ old.state = "Consumed" => new.state = "Consumed"
     /\ new.state = "Pending" => old.state = "Pending"

\* Operations that only expire, cancel, deny, roll back, claim by query or
\* drop records preserve the inductive invariant.
LEMMA HarmlessStep ==
  ASSUME IInv,
         UNCHANGED <<minted, now, history>>,
         intents' \in [IntentIds -> Intent \cup {NoIntent}],
         \A id \in IntentIds : Harmless(intents[id], intents'[id])
  PROVE  IInv'
<1>1. TypeOK'
  BY DEF IInv, TypeOK, Store, history
<1>2. ASSUME NEW id \in IntentIds PROVE IntentInv(id)'
  <2>1. IntentInv(id) /\ Harmless(intents[id], intents'[id])
    BY DEF IInv
  <2>2. intents[id] \in Intent \cup {NoIntent} /\ intents'[id] \in Intent \cup {NoIntent}
    BY DEF IInv, TypeOK, Store
  <2> QED BY <2>1, <2>2 DEF IntentInv, Harmless, history, NoIntent, Intent, IntentStates
<1> QED BY <1>1, <1>2 DEF IInv

\* One more record operation per pure operator: each treats records
\* harmlessly.
LEMMA ExpireHarmless ==
  ASSUME NEW i \in Intent \cup {NoIntent}, NEW t \in Nat
  PROVE  Harmless(i, Expire(i, t)) /\ Expire(i, t) \in Intent \cup {NoIntent}
BY ExpireFacts DEF Harmless, NoIntent, Intent

\* The sweep treats every record harmlessly and keeps the store's type.
LEMMA CleanupHarmless ==
  ASSUME IInv
  PROVE  /\ CleanupExpired(intents, now) \in [IntentIds -> Intent \cup {NoIntent}]
         /\ \A id \in IntentIds :
              /\ Harmless(intents[id], CleanupExpired(intents, now)[id])
              /\ (CleanupExpired(intents, now)[id] = NoIntent) <=> (intents[id] = NoIntent)
BY ExpireHarmless, ExpireFacts DEF CleanupExpired, IInv, TypeOK, Store

\* A claim of an approved record sets its state and takes its token.
LEMMA ClaimIntentFact ==
  ASSUME NEW i \in Intent, i.state = "Approved"
  PROVE  /\ ClaimIntent(i) \in Intent
         /\ ClaimIntent(i).state = "Claimed"
         /\ ClaimIntent(i).token = "taken"
<1>1. /\ TransitionTo(i, "Claimed") \in Intent
      /\ TransitionTo(i, "Claimed").state = "Claimed"
  BY DEF TransitionTo, CanTransition, Transitions, Intent, IntentStates
<1> QED BY <1>1 DEF ClaimIntent, Intent, IntentStates

\* Denying, cancelling or expiring a record is harmless.
LEMMA TransitionHarmless ==
  ASSUME NEW i \in Intent \cup {NoIntent}, NEW to \in {"Denied", "Cancelled", "Expired"}
  PROVE  Harmless(i, TransitionTo(i, to)) /\ TransitionTo(i, to) \in Intent \cup {NoIntent}
BY TransitionToFacts DEF Harmless, NoIntent, Intent, IntentStates, Transitions

\* deny treats the record it resolves harmlessly.
LEMMA ResolveHarmless ==
  ASSUME intents \in [IntentIds -> Intent \cup {NoIntent}], now \in Nat,
         NEW id \in IntentIds, NEW to \in {"Denied", "Cancelled"}
  PROVE  /\ Resolve(intents, id, to, now) \in [IntentIds -> Intent \cup {NoIntent}]
         /\ \A j \in IntentIds : Harmless(intents[j], Resolve(intents, id, to, now)[j])
BY TransitionHarmless, ExpireHarmless DEF Resolve, Harmless

\* The inductive invariant holds initially.
LEMMA InitInv == Init => IInv
BY DEF Init, IInv, TypeOK, IntentInv, Store, EmptyStore, NoIntent

\* Every step preserves the inductive invariant.
LEMMA NextInv == IInv /\ [Next]_vars => IInv'
<1> SUFFICES ASSUME IInv, [Next]_vars PROVE IInv'
  OBVIOUS
<1> USE DEF history
<1>0. TypeOK /\ (\A id \in IntentIds : IntentInv(id))
  BY DEF IInv
<1>0a. intents \in [IntentIds -> Intent \cup {NoIntent}] /\ now \in Nat
  BY <1>0 DEF TypeOK, Store
<1>1. CASE Tick
  BY <1>0, <1>1 DEF Tick, IInv, TypeOK, IntentInv
<1>2. ASSUME NEW s \in Sessions, NEW sc \in Scopes, NEW ttl \in Ttls, Create(s, sc, ttl)
      PROVE  IInv'
  <2> DEFINE swept == CleanupExpired(intents, now)
  <2>0. /\ swept \in [IntentIds -> Intent \cup {NoIntent}]
        /\ \A id \in IntentIds :
             Harmless(intents[id], swept[id]) /\ (swept[id] = NoIntent <=> intents[id] = NoIntent)
    BY CleanupHarmless
  <2>1. CASE intents' = swept /\ UNCHANGED minted
    <3>1. UNCHANGED <<minted, now, history>>
      BY <1>2, <2>1 DEF Create
    <3> QED BY <2>0, <2>1, <3>1, HarmlessStep
  <2>2. ASSUME NEW id \in IntentIds \ minted,
               intents' = [swept EXCEPT ![id] = NewIntent(s, sc, now + ttl)],
               minted' = minted \cup {id}
        PROVE  IInv'
    <3> HIDE DEF swept
    <3>1. NewIntent(s, sc, now + ttl) \in Intent
      BY <1>0a, TtlsAssumption DEF NewIntent, Intent, IntentStates
    <3>2. TypeOK'
      BY <1>0, <1>2, <2>0, <2>2, <3>1 DEF TypeOK, Store, Create
    <3>3. ASSUME NEW j \in IntentIds PROVE IntentInv(j)'
      <4>1. IntentInv(j) /\ Harmless(intents[j], swept[j]) /\ UNCHANGED <<now, history>>
        BY <1>0, <1>2, <2>0 DEF Create
      <4>2. CASE j = id
        <5>1. intents'[j] = NewIntent(s, sc, now + ttl)
          BY <2>0, <2>2, <4>2
        <5>2. tokenClaims'[j] = 0 /\ consumptions'[j] = 0 /\ j \in minted'
          BY <2>2, <4>1, <4>2 DEF IntentInv
        <5> QED BY <5>1, <5>2 DEF IntentInv, NewIntent
      <4>3. CASE j # id
        <5>1. intents'[j] = swept[j] /\ (j \in minted' <=> j \in minted)
          BY <2>0, <2>2, <4>3
        <5>2. intents[j] \in Intent \cup {NoIntent} /\ swept[j] \in Intent \cup {NoIntent}
          BY <1>0a, <2>0
        <5> QED BY <4>1, <5>1, <5>2, <2>0
                DEF IntentInv, Harmless, NoIntent, Intent, IntentStates
      <4> QED BY <4>2, <4>3
    <3> QED BY <3>2, <3>3 DEF IInv
  <2> QED BY <1>2, <2>1, <2>2 DEF Create
<1>3. ASSUME NEW id \in IntentIds, Approve(id) PROVE IInv'
  <2> DEFINE new == intents'[id]
  <2>1. CASE ResolveOk(intents, id, "Approved", now)
    <3>1. /\ intents[id] \in Intent /\ intents[id].state = "Pending"
          /\ intents' = [intents EXCEPT ![id] = [intents[id] EXCEPT !.state = "Approved"]]
      BY <1>0a, <1>3, <2>1
      DEF Approve, Resolve, ResolveOk, TransitionTo, CanTransition, Transitions, NoIntent
    <3>2. approvals' = approvals \cup {id} /\ UNCHANGED <<minted, now, tokenClaims, consumptions>>
      BY <1>3, <2>1 DEF Approve
    <3>3. TypeOK'
      BY <1>0, <1>0a, <3>1, <3>2 DEF TypeOK, Store, Intent, IntentStates
    <3>4. ASSUME NEW j \in IntentIds PROVE IntentInv(j)'
      BY <1>0, <1>0a, <3>1, <3>2 DEF IntentInv, Intent, IntentStates, NoIntent
    <3> QED BY <3>3, <3>4 DEF IInv
  <2>2. CASE ~ResolveOk(intents, id, "Approved", now)
    <3>1. intents' = [intents EXCEPT ![id] = Expire(intents[id], now)]
      BY <1>3, <2>2 DEF Approve, Resolve, ResolveOk, TransitionTo, Expire
    <3>2. UNCHANGED <<minted, now, history>>
      BY <1>3, <2>2 DEF Approve
    <3> QED BY <1>0a, <3>1, <3>2, ExpireHarmless, HarmlessStep DEF Harmless
  <2> QED BY <2>1, <2>2
<1>4. ASSUME NEW id \in IntentIds, Deny(id) PROVE IInv'
  BY <1>0a, <1>4, ResolveHarmless, HarmlessStep DEF Deny
<1>5. ASSUME NEW id \in IntentIds, Claim(id) PROVE IInv'
  <2>1. CASE ResolveOk(intents, id, "Claimed", now) /\ intents[id].token = "held"
    <3>1. /\ intents[id] \in Intent /\ intents[id].state = "Approved"
          /\ intents' = [intents EXCEPT ![id] = intents'[id]]
          /\ intents'[id] \in Intent
          /\ intents'[id].state = "Claimed" /\ intents'[id].token = "taken"
      <4>1. intents[id] \in Intent /\ intents[id].state = "Approved"
        BY <1>0a, <1>5, <2>1 DEF Claim, ResolveOk, CanTransition, Transitions, NoIntent
      <4>2. intents' = [intents EXCEPT ![id] = ClaimIntent(intents[id])]
        BY <1>5, <2>1 DEF Claim
      <4> QED BY <1>0a, <4>1, <4>2, ClaimIntentFact
    <3>2. /\ tokenClaims' = [tokenClaims EXCEPT ![id] = tokenClaims[id] + 1]
          /\ UNCHANGED <<minted, now, approvals, consumptions>>
      BY <1>5, <2>1 DEF Claim
    <3>3. TypeOK'
      BY <1>0, <1>0a, <3>1, <3>2 DEF TypeOK, Store, Intent, IntentStates
    <3>4. ASSUME NEW j \in IntentIds PROVE IntentInv(j)'
      <4>1. CASE j = id
        <5>1. /\ tokenClaims[id] = 0 /\ consumptions[id] = 0
              /\ id \in minted /\ id \in approvals
          BY <1>0, <2>1, <3>1 DEF IntentInv, NoIntent, Intent
        <5>2. /\ intents'[id].state = "Claimed" /\ intents'[id].token = "taken"
              /\ tokenClaims'[id] = 1 /\ consumptions'[id] = 0
              /\ id \in minted' /\ id \in approvals'
          BY <1>0, <3>1, <3>2, <5>1 DEF TypeOK
        <5> QED BY <4>1, <5>2 DEF IntentInv
      <4>2. CASE j # id
        BY <1>0, <1>0a, <3>1, <3>2, <4>2 DEF IntentInv, TypeOK
      <4> QED BY <4>1, <4>2
    <3> QED BY <3>3, <3>4 DEF IInv
  <2>2. CASE ~(ResolveOk(intents, id, "Claimed", now) /\ intents[id].token = "held")
    <3>1. intents' = [intents EXCEPT ![id] = Expire(intents[id], now)]
      BY <1>5, <2>2 DEF Claim, ExpireIfNeeded
    <3>2. UNCHANGED <<minted, now, history>>
      BY <1>5, <2>2 DEF Claim
    <3> QED BY <1>0a, <3>1, <3>2, ExpireHarmless, HarmlessStep DEF Harmless
  <2> QED BY <2>1, <2>2
<1>6. ASSUME NEW id \in IntentIds, Rollback(id) PROVE IInv'
  <2>1. RollbackClaim(intents, id) \in [IntentIds -> Intent \cup {NoIntent}]
    BY <1>0a DEF RollbackClaim, Intent, IntentStates, NoIntent
  <2>2. \A j \in IntentIds : Harmless(intents[j], RollbackClaim(intents, id)[j])
    BY <1>0a DEF RollbackClaim, Harmless, Intent, IntentStates, NoIntent
  <2> QED BY <1>6, <2>1, <2>2, HarmlessStep DEF Rollback
<1>7. ASSUME NEW id \in IntentIds, Consume(id) PROVE IInv'
  <2>1. /\ intents[id] \in Intent /\ intents[id].state = "Claimed"
        /\ intents' = [intents EXCEPT ![id] = [intents[id] EXCEPT !.state = "Consumed"]]
        /\ consumptions' = [consumptions EXCEPT ![id] = consumptions[id] + 1]
        /\ UNCHANGED <<minted, now, approvals, tokenClaims>>
    BY <1>0a, <1>7
    DEF Consume, ConsumeOk, ConsumeClaimed, TransitionTo, CanTransition, Transitions, NoIntent
  <2>2. TypeOK'
    BY <1>0, <1>0a, <2>1 DEF TypeOK, Store, Intent, IntentStates
  <2>3. ASSUME NEW j \in IntentIds PROVE IntentInv(j)'
    <3>1. CASE j = id
      <4>1. /\ consumptions[id] = 0 /\ id \in minted /\ id \in approvals
            /\ tokenClaims[id] \in {0, 1}
            /\ tokenClaims[id] = 1 => intents[id].token = "taken"
        BY <1>0, <2>1 DEF IntentInv, NoIntent, Intent
      <4>2. /\ consumptions'[id] = 1 /\ intents'[id].state = "Consumed"
            /\ intents'[id].token = intents[id].token
        BY <1>0, <1>0a, <2>1, <4>1 DEF TypeOK, Intent
      <4> QED BY <2>1, <3>1, <4>1, <4>2 DEF IntentInv
    <3>2. CASE j # id
      BY <1>0, <1>0a, <2>1, <3>2 DEF IntentInv, TypeOK
    <3> QED BY <3>1, <3>2
  <2> QED BY <2>2, <2>3 DEF IInv
<1>8. ASSUME NEW id \in IntentIds, NEW s \in Sessions, CancelByPrincipal(id, s) PROVE IInv'
  BY <1>0a, <1>8, ResolveHarmless, ExpireHarmless, HarmlessStep
  DEF CancelByPrincipal, ExpireIfNeeded, Harmless
<1>9. ASSUME NEW s \in Sessions, NEW sc \in Scopes, ClaimByQuery(s, sc) PROVE IInv'
  <2> DEFINE swept == CleanupExpired(intents, now)
  <2>0. /\ swept \in [IntentIds -> Intent \cup {NoIntent}]
        /\ \A id \in IntentIds : Harmless(intents[id], swept[id])
    BY CleanupHarmless
  <2>1. UNCHANGED <<minted, now, history>>
    BY <1>9 DEF ClaimByQuery
  <2>2. CASE intents' = swept
    BY <2>0, <2>1, <2>2, HarmlessStep
  <2>3. ASSUME NEW id \in Claimable(intents, s, sc, now),
               intents' = ClaimApproved(intents, id, now)
        PROVE  IInv'
    <3>1. id \in IntentIds /\ swept[id].state = "Approved"
      BY <2>3 DEF Claimable, MatchesQuery
    <3>2. intents' = [swept EXCEPT ![id] = ClaimIntent(swept[id])]
      BY <2>3 DEF ClaimApproved
    <3> HIDE DEF swept
    <3>3. /\ ClaimIntent(swept[id]) \in Intent
          /\ ClaimIntent(swept[id]).state = "Claimed"
          /\ ClaimIntent(swept[id]).token = "taken"
      <4>1. swept[id] \in Intent
        BY <2>0, <3>1 DEF NoIntent
      <4> QED BY <3>1, <4>1, ClaimIntentFact
    <3>4. intents[id] # NoIntent /\ intents[id].state \in {"Approved", "Claimed"}
      BY <1>0a, <2>0, <3>1 DEF Harmless, NoIntent, Intent
    <3>5. intents' \in [IntentIds -> Intent \cup {NoIntent}]
      BY <2>0, <3>1, <3>2, <3>3 DEF Intent, IntentStates, NoIntent
    <3>6. Harmless(intents[id], intents'[id])
      BY <1>0a, <2>0, <3>1, <3>2, <3>3, <3>4, <3>5 DEF Harmless, Intent, NoIntent
    <3>7. \A j \in IntentIds : Harmless(intents[j], intents'[j])
      BY <2>0, <3>2, <3>6
    <3> QED BY <2>1, <3>5, <3>7, HarmlessStep
  <2> QED BY <1>9, <2>2, <2>3 DEF ClaimByQuery
<1>10. ASSUME NEW s \in Sessions, CancelSession(s) PROVE IInv'
  <2>1. \A j \in IntentIds :
          /\ CancelBySession(intents, s)[j] \in Intent \cup {NoIntent}
          /\ Harmless(intents[j], CancelBySession(intents, s)[j])
    BY <1>0a, TransitionHarmless DEF CancelBySession, Harmless
  <2> QED BY <1>10, <2>1, HarmlessStep DEF CancelSession, CancelBySession
<1>11. CASE Sweep
  BY <1>11, CleanupHarmless, HarmlessStep DEF Sweep
<1>12. CASE DropTerminal
  BY <1>0a, <1>12, HarmlessStep DEF DropTerminal, CleanupTerminal, Harmless
<1>13. CASE InvalidateAll
  BY <1>0a, <1>13, HarmlessStep DEF InvalidateAll, EmptyStore, Harmless
<1>14. CASE UNCHANGED vars
  BY <1>0, <1>14 DEF IInv, TypeOK, IntentInv, vars
<1> QED BY <1>1, <1>2, <1>3, <1>4, <1>5, <1>6, <1>7, <1>8, <1>9, <1>10, <1>11, <1>12,
           <1>13, <1>14 DEF Next

\* The store's variables keep their types, for every limit, TTL and number of
\* intents and sessions.
THEOREM TypeCorrect == Spec => []TypeOK
<1>1. IInv => TypeOK
  BY DEF IInv
<1> QED BY <1>1, InitInv, NextInv, PTL DEF Spec

\* A claim token is accepted at most once, rollbacks included.
THEOREM TokenSingleUseHolds == Spec => []TokenSingleUse
<1>1. IInv => TokenSingleUse
  BY DEF IInv, IntentInv, TokenSingleUse
<1> QED BY <1>1, InitInv, NextInv, PTL DEF Spec

\* An approved intent authorises one use and an unapproved one none.
THEOREM OneShot == Spec => []ConsumedOnceAfterApproval
<1>1. IInv => ConsumedOnceAfterApproval
  BY DEF IInv, IntentInv, ConsumedOnceAfterApproval
<1> QED BY <1>1, InitInv, NextInv, PTL DEF Spec

-----------------------------------------------------------------------------
(* What a step may never do *)

\* transition_to and expiry leave a terminal record as it is.
LEMMA TerminalFixed ==
  ASSUME NEW i \in Intent \cup {NoIntent}, i.state \in Terminal,
         NEW to \in IntentStates, NEW t \in Nat
  PROVE  TransitionTo(i, to) = i /\ Expire(i, t) = i
BY DEF TransitionTo, CanTransition, Transitions, Terminal, Expire, Overdue

\* A terminal record is never changed except by being dropped.
LEMMA TerminalStep ==
  ASSUME IInv, [Next]_vars, NEW id \in IntentIds, intents[id].state \in Terminal
  PROVE  intents'[id] \in {intents[id], NoIntent}
<1>0. /\ intents \in [IntentIds -> Intent \cup {NoIntent}] /\ now \in Nat
      /\ IntentInv(id)
  BY DEF IInv, TypeOK, Store
<1>1. /\ \A to \in IntentStates : TransitionTo(intents[id], to) = intents[id]
      /\ Expire(intents[id], now) = intents[id]
  BY <1>0, TerminalFixed DEF IntentStates
<1>2. CleanupExpired(intents, now)[id] = intents[id]
  BY <1>1 DEF CleanupExpired
<1>3. id \in minted
  BY <1>0 DEF IntentInv, NoIntent, Terminal
<1>4. \A j \in IntentIds, to \in IntentStates :
        Resolve(intents, j, to, now)[id] = intents[id]
  BY <1>0, <1>1 DEF Resolve
<1>5. \A j \in IntentIds : ExpireIfNeeded(intents, j, now)[id] = intents[id]
  BY <1>0, <1>1 DEF ExpireIfNeeded
<1>6. ASSUME NEW s \in Sessions, NEW sc \in Scopes, NEW ttl \in Ttls, Create(s, sc, ttl)
      PROVE  intents'[id] = intents[id]
  BY <1>2, <1>3, <1>6, CleanupHarmless DEF Create
<1>7. ASSUME NEW j \in IntentIds,
             Approve(j) \/ Deny(j) \/ Claim(j) \/ Rollback(j) \/ Consume(j)
      PROVE  intents'[id] = intents[id]
  <2>1. CASE Approve(j) \/ Deny(j)
    BY <1>4, <2>1 DEF Approve, Deny, IntentStates
  <2>2. CASE Claim(j)
    <3>1. ResolveOk(intents, j, "Claimed", now) => j # id
      BY DEF ResolveOk, CanTransition, Transitions, Terminal
    <3> QED BY <1>0, <1>5, <2>2, <3>1 DEF Claim
  <2>3. CASE Rollback(j)
    BY <1>0, <2>3 DEF Rollback, RollbackClaim, Terminal
  <2>4. CASE Consume(j)
    BY <1>0, <2>4 DEF Consume, ConsumeOk, ConsumeClaimed, Terminal
  <2> QED BY <1>7, <2>1, <2>2, <2>3, <2>4
<1>8. ASSUME NEW j \in IntentIds, NEW s \in Sessions, CancelByPrincipal(j, s)
      PROVE  intents'[id] = intents[id]
  BY <1>4, <1>5, <1>8 DEF CancelByPrincipal, IntentStates
<1>9. ASSUME NEW s \in Sessions, NEW sc \in Scopes, ClaimByQuery(s, sc)
      PROVE  intents'[id] = intents[id]
  <2>1. \A j \in Claimable(intents, s, sc, now) : j # id
    BY <1>2 DEF Claimable, MatchesQuery, Terminal
  <2> QED BY <1>2, <1>9, <2>1, CleanupHarmless DEF ClaimByQuery, ClaimApproved
<1>10. ASSUME NEW s \in Sessions, CancelSession(s) PROVE intents'[id] = intents[id]
  BY <1>10 DEF CancelSession, CancelBySession, ActiveIds
<1>11. CASE Sweep
  BY <1>2, <1>11 DEF Sweep
<1>12. CASE DropTerminal
  BY <1>12 DEF DropTerminal, CleanupTerminal
<1>13. CASE InvalidateAll
  BY <1>13 DEF InvalidateAll, EmptyStore
<1>14. CASE Tick \/ UNCHANGED vars
  BY <1>14 DEF Tick, vars
<1> QED BY <1>6, <1>7, <1>8, <1>9, <1>10, <1>11, <1>12, <1>13, <1>14 DEF Next

\* No operation of the store reopens a terminal intent.
THEOREM TerminalIsFinalHolds == Spec => TerminalIsFinal
<1>1. IInv /\ [Next]_vars
      => [\A id \in IntentIds :
            intents[id].state \in Terminal => intents'[id] \in {intents[id], NoIntent}]_vars
  BY TerminalStep
<1> QED BY <1>1, InitInv, NextInv, PTL DEF Spec, TerminalIsFinal

-----------------------------------------------------------------------------
(* The store implements OneShotAuthority *)

\* A record treated harmlessly: its authority is left alone or closed.
LEMMA HarmlessKeeps ==
  ASSUME IInv, NEW id \in IntentIds, id \in minted' <=> id \in minted,
         intents'[id] \in Intent \cup {NoIntent},
         Harmless(intents[id], intents'[id])
  PROVE  Authority!KeptOrClosed(id)
<1>1. IntentInv(id) /\ intents[id] \in Intent \cup {NoIntent}
  BY DEF IInv, TypeOK, Store
<1>2. \/ AuthorityStatus'[id] = AuthorityStatus[id]
      \/ /\ AuthorityStatus[id] \in {"asked", "approved"}
         /\ AuthorityStatus'[id] = "closed"
  BY <1>1 DEF AuthorityStatus, IntentInv, Harmless, NoIntent, Intent, IntentStates
<1> QED BY <1>2 DEF Authority!KeptOrClosed, Authority!Open

\* A step that treats every record harmlessly and consumes and creates nothing
\* closes authorities, or leaves them all alone.
LEMMA HarmlessCloses ==
  ASSUME IInv, UNCHANGED <<minted, consumptions>>,
         intents' \in [IntentIds -> Intent \cup {NoIntent}],
         \A id \in IntentIds : Harmless(intents[id], intents'[id])
  PROVE  Authority!Next
BY HarmlessKeeps DEF Authority!Close, Authority!Next

\* One record moves, the others stay: what the move means for the authorities.
LEMMA OneMoves ==
  ASSUME IInv, NEW id \in IntentIds, NEW from, NEW to,
         AuthorityStatus[id] = from, AuthorityStatus'[id] = to,
         \A j \in IntentIds \ {id} :
           /\ j \in minted' <=> j \in minted
           /\ intents'[j] \in Intent \cup {NoIntent}
           /\ Harmless(intents[j], intents'[j])
  PROVE  Authority!Moves(id, from, to)
BY HarmlessKeeps DEF Authority!Moves

\* Every step of the store is a step of the authority or changes nothing of it.
LEMMA AuthorityStep ==
  ASSUME IInv, [Next]_vars
  PROVE  [Authority!Next]_<<AuthorityStatus, consumptions>>
<1>0. /\ intents \in [IntentIds -> Intent \cup {NoIntent}] /\ now \in Nat
      /\ \A id \in IntentIds : IntentInv(id)
  BY DEF IInv, TypeOK, Store
<1>0a. IInv' /\ intents' \in [IntentIds -> Intent \cup {NoIntent}]
  BY NextInv DEF IInv, TypeOK, Store
<1>1. ASSUME NEW s \in Sessions, NEW sc \in Scopes, NEW ttl \in Ttls, Create(s, sc, ttl)
      PROVE  Authority!Next
  <2> DEFINE swept == CleanupExpired(intents, now)
  <2>0. /\ swept \in [IntentIds -> Intent \cup {NoIntent}]
        /\ \A id \in IntentIds : Harmless(intents[id], swept[id])
        /\ UNCHANGED consumptions
    BY <1>1, CleanupHarmless DEF Create, history
  <2>1. CASE intents' = swept /\ UNCHANGED minted
    BY <2>0, <2>1, HarmlessCloses
  <2>2. ASSUME NEW id \in IntentIds \ minted,
               intents' = [swept EXCEPT ![id] = NewIntent(s, sc, now + ttl)],
               minted' = minted \cup {id}
        PROVE  Authority!Next
    <3> HIDE DEF swept
    <3>1. AuthorityStatus[id] = "unasked" /\ AuthorityStatus'[id] = "asked"
      BY <2>0, <2>2 DEF AuthorityStatus, NewIntent
    <3>2. Authority!Moves(id, "unasked", "asked")
      <4>1. \A j \in IntentIds \ {id} : intents'[j] = swept[j] /\ (j \in minted' <=> j \in minted)
        BY <2>0, <2>2
      <4> QED BY <1>0a, <2>0, <3>1, <4>1, OneMoves
    <3> QED BY <2>0, <3>2 DEF Authority!Next, Authority!Ask
  <2> QED BY <1>1, <2>1, <2>2 DEF Create
<1>2. ASSUME NEW id \in IntentIds, Approve(id) PROVE Authority!Next
  <2>0. UNCHANGED <<minted, consumptions>>
    BY <1>2 DEF Approve
  <2>1. CASE ResolveOk(intents, id, "Approved", now)
    <3>1. /\ intents[id] \in Intent /\ intents[id].state = "Pending"
          /\ intents' = [intents EXCEPT ![id] = [intents[id] EXCEPT !.state = "Approved"]]
      BY <1>0, <1>2, <2>1
      DEF Approve, Resolve, ResolveOk, TransitionTo, CanTransition, Transitions, NoIntent
    <3>2. id \in minted /\ intents'[id].state = "Approved"
      BY <1>0, <3>1 DEF IntentInv, NoIntent, Intent
    <3>3. AuthorityStatus[id] = "asked" /\ AuthorityStatus'[id] = "approved"
      BY <2>0, <3>1, <3>2 DEF AuthorityStatus
    <3>4. Authority!Moves(id, "asked", "approved")
      <4>1. \A j \in IntentIds \ {id} : intents'[j] = intents[j]
        BY <1>0, <3>1
      <4> QED BY <1>0a, <2>0, <3>3, <4>1, OneMoves DEF Harmless
    <3> QED BY <2>0, <3>4 DEF Authority!Next, Authority!Approve
  <2>2. CASE ~ResolveOk(intents, id, "Approved", now)
    <3>1. intents' = [intents EXCEPT ![id] = Expire(intents[id], now)]
      BY <1>2, <2>2 DEF Approve, Resolve, ResolveOk, TransitionTo, Expire
    <3> QED BY <1>0, <1>0a, <2>0, <3>1, ExpireHarmless, HarmlessCloses DEF Harmless
  <2> QED BY <2>1, <2>2
<1>3. ASSUME NEW id \in IntentIds, Deny(id) PROVE Authority!Next
  BY <1>0, <1>0a, <1>3, ResolveHarmless, HarmlessCloses DEF Deny, history
<1>4. ASSUME NEW id \in IntentIds, Claim(id) PROVE Authority!Next
  <2>0. UNCHANGED <<minted, consumptions>>
    BY <1>4 DEF Claim
  <2>1. CASE ResolveOk(intents, id, "Claimed", now) /\ intents[id].token = "held"
    <3>1. intents[id] \in Intent /\ intents[id].state = "Approved"
      BY <1>0, <1>4, <2>1 DEF Claim, ResolveOk, CanTransition, Transitions, NoIntent
    <3>2. intents' = [intents EXCEPT ![id] = ClaimIntent(intents[id])]
      BY <1>4, <2>1 DEF Claim
    <3>3. Harmless(intents[id], ClaimIntent(intents[id]))
      BY <3>1, ClaimIntentFact DEF Harmless, NoIntent, Intent
    <3>4. \A j \in IntentIds : Harmless(intents[j], intents'[j])
      BY <1>0, <3>2, <3>3 DEF Harmless
    <3> QED BY <1>0a, <2>0, <3>4, HarmlessCloses
  <2>2. CASE ~(ResolveOk(intents, id, "Claimed", now) /\ intents[id].token = "held")
    <3>1. intents' = [intents EXCEPT ![id] = Expire(intents[id], now)]
      BY <1>4, <2>2 DEF Claim, ExpireIfNeeded
    <3> QED BY <1>0, <1>0a, <2>0, <3>1, ExpireHarmless, HarmlessCloses DEF Harmless
  <2> QED BY <2>1, <2>2
<1>5. ASSUME NEW id \in IntentIds, Rollback(id) PROVE Authority!Next
  <2>1. \A j \in IntentIds : Harmless(intents[j], intents'[j])
    BY <1>0, <1>5 DEF Rollback, RollbackClaim, Harmless, Intent, IntentStates, NoIntent
  <2> QED BY <1>0a, <1>5, <2>1, HarmlessCloses DEF Rollback, history
<1>6. ASSUME NEW id \in IntentIds, Consume(id) PROVE Authority!Next
  <2>1. /\ intents[id] \in Intent /\ intents[id].state = "Claimed"
        /\ intents' = [intents EXCEPT ![id] = [intents[id] EXCEPT !.state = "Consumed"]]
        /\ consumptions' = [consumptions EXCEPT ![id] = consumptions[id] + 1]
        /\ UNCHANGED minted
    BY <1>0, <1>6
    DEF Consume, ConsumeOk, ConsumeClaimed, TransitionTo, CanTransition, Transitions, NoIntent
  <2>2. id \in minted /\ intents'[id].state = "Consumed"
    BY <1>0, <2>1 DEF IntentInv, NoIntent, Intent
  <2>3. AuthorityStatus[id] = "approved" /\ AuthorityStatus'[id] = "closed"
    BY <2>1, <2>2 DEF AuthorityStatus
  <2>4. Authority!Moves(id, "approved", "closed")
    <3>1. \A j \in IntentIds \ {id} : intents'[j] = intents[j]
      BY <1>0, <2>1
    <3> QED BY <1>0a, <2>1, <2>3, <3>1, OneMoves DEF Harmless
  <2> QED BY <2>1, <2>4 DEF Authority!Next, Authority!Use
<1>7. ASSUME NEW id \in IntentIds, NEW s \in Sessions, CancelByPrincipal(id, s)
      PROVE  Authority!Next
  <2>1. \A j \in IntentIds : Harmless(intents[j], intents'[j])
    BY <1>0, <1>7, ResolveHarmless, ExpireHarmless
    DEF CancelByPrincipal, ExpireIfNeeded, Harmless
  <2> QED BY <1>0a, <1>7, <2>1, HarmlessCloses DEF CancelByPrincipal, history
<1>8. ASSUME NEW s \in Sessions, NEW sc \in Scopes, ClaimByQuery(s, sc) PROVE Authority!Next
  <2> DEFINE swept == CleanupExpired(intents, now)
  <2>0. /\ swept \in [IntentIds -> Intent \cup {NoIntent}]
        /\ \A id \in IntentIds : Harmless(intents[id], swept[id])
        /\ UNCHANGED <<minted, consumptions>>
    BY <1>8, CleanupHarmless DEF ClaimByQuery, history
  <2>1. CASE intents' = swept
    BY <2>0, <2>1, HarmlessCloses
  <2>2. ASSUME NEW id \in Claimable(intents, s, sc, now),
               intents' = ClaimApproved(intents, id, now)
        PROVE  Authority!Next
    <3>1. /\ id \in IntentIds /\ swept[id].state = "Approved"
          /\ intents' = [swept EXCEPT ![id] = ClaimIntent(swept[id])]
      BY <2>2 DEF Claimable, MatchesQuery, ClaimApproved
    <3> HIDE DEF swept
    <3>2. /\ ClaimIntent(swept[id]) \in Intent
          /\ ClaimIntent(swept[id]).state = "Claimed" /\ ClaimIntent(swept[id]).token = "taken"
      BY <2>0, <3>1, ClaimIntentFact DEF NoIntent
    <3>3. intents[id] # NoIntent /\ intents[id].state \in {"Approved", "Claimed"}
      BY <1>0, <2>0, <3>1 DEF Harmless, NoIntent, Intent
    <3>4. Harmless(intents[id], ClaimIntent(swept[id]))
      BY <3>2, <3>3 DEF Harmless
    <3>5. \A j \in IntentIds : Harmless(intents[j], intents'[j])
      BY <2>0, <3>1, <3>4
    <3> QED BY <1>0a, <2>0, <3>5, HarmlessCloses
  <2> QED BY <1>8, <2>1, <2>2 DEF ClaimByQuery
<1>9. ASSUME NEW s \in Sessions, CancelSession(s) PROVE Authority!Next
  <2>1. \A j \in IntentIds : Harmless(intents[j], intents'[j])
    BY <1>0, <1>9, TransitionHarmless DEF CancelSession, CancelBySession, Harmless
  <2> QED BY <1>0a, <1>9, <2>1, HarmlessCloses DEF CancelSession, history
<1>10. CASE Sweep
  BY <1>0a, <1>10, CleanupHarmless, HarmlessCloses DEF Sweep, history
<1>11. CASE DropTerminal
  <2>1. \A j \in IntentIds : Harmless(intents[j], intents'[j])
    BY <1>11 DEF DropTerminal, CleanupTerminal, Harmless
  <2> QED BY <1>0a, <1>11, <2>1, HarmlessCloses DEF DropTerminal, history
<1>12. CASE InvalidateAll
  <2>1. \A j \in IntentIds : Harmless(intents[j], intents'[j])
    BY <1>12 DEF InvalidateAll, EmptyStore, Harmless
  <2> QED BY <1>0a, <1>12, <2>1, HarmlessCloses DEF InvalidateAll, history
<1>13. CASE Tick \/ UNCHANGED vars
  <2>1. UNCHANGED <<intents, minted, consumptions>>
    BY <1>13 DEF Tick, vars, history
  <2> QED BY <2>1 DEF AuthorityStatus
<1> QED BY <1>1, <1>2, <1>3, <1>4, <1>5, <1>6, <1>7, <1>8, <1>9, <1>10, <1>11, <1>12, <1>13
        DEF Next

\* The intent store implements the one-shot authority: asked for, approved,
\* used once, and never open again.
THEOREM ImplementsAuthority == Spec => IsOneShotAuthority
<1>1. Init => Authority!Init
  BY DEF Init, Authority!Init, AuthorityStatus
<1>2. IInv /\ [Next]_vars => [Authority!Next]_<<AuthorityStatus, consumptions>>
  BY AuthorityStep
<1> QED BY <1>1, <1>2, InitInv, NextInv, PTL DEF Spec, IsOneShotAuthority, Authority!Spec

-----------------------------------------------------------------------------
(* Deadlines and the limit of the store *)

\* An approved record that a sweep leaves approved is in time.
LEMMA ApprovedInTime ==
  ASSUME NEW i \in Intent, NEW t \in Nat, Expire(i, t).state = "Approved"
  PROVE  i.state = "Approved" /\ t < i.deadline
BY DEF Expire, Overdue, TransitionTo, CanTransition, Transitions, Intent, IntentStates

\* A record becomes Claimed only by a claim in time.
LEMMA ClaimStep ==
  ASSUME IInv, [Next]_vars, NEW id \in IntentIds,
         intents[id].state # "Claimed", intents'[id].state = "Claimed"
  PROVE  now < intents[id].deadline
<1>0. intents \in [IntentIds -> Intent \cup {NoIntent}] /\ now \in Nat
  BY DEF IInv, TypeOK, Store
<1>1. /\ \A to \in IntentStates \ {"Claimed"} : TransitionTo(intents[id], to).state # "Claimed"
      /\ Expire(intents[id], now).state # "Claimed"
  <2>1. intents[id] \in Intent \cup {NoIntent}
    BY <1>0
  <2>2. \A to \in IntentStates \ {"Claimed"} : TransitionTo(intents[id], to).state # "Claimed"
    BY <2>1 DEF TransitionTo, Intent, NoIntent
  <2>3. Expire(intents[id], now).state # "Claimed"
    BY <1>0, <2>1, ExpireFacts
  <2> QED BY <2>2, <2>3
<1>2. CleanupExpired(intents, now)[id].state # "Claimed"
  BY <1>1 DEF CleanupExpired
<1>3. \A j \in IntentIds, to \in IntentStates \ {"Claimed"} :
        Resolve(intents, j, to, now)[id].state # "Claimed"
  BY <1>0, <1>1 DEF Resolve
<1>4. \A j \in IntentIds : ExpireIfNeeded(intents, j, now)[id].state # "Claimed"
  BY <1>0, <1>1 DEF ExpireIfNeeded
<1>5. ASSUME NEW s \in Sessions, NEW sc \in Scopes, NEW ttl \in Ttls, Create(s, sc, ttl)
      PROVE  FALSE
  BY <1>2, <1>5, CleanupHarmless DEF Create, NewIntent
<1>6. ASSUME NEW j \in IntentIds, Approve(j) \/ Deny(j) \/ Rollback(j) \/ Consume(j)
      PROVE  FALSE
  <2>1. CASE Approve(j) \/ Deny(j)
    BY <1>3, <2>1 DEF Approve, Deny, IntentStates
  <2>2. CASE Rollback(j)
    BY <1>0, <2>2 DEF Rollback, RollbackClaim
  <2>3. CASE Consume(j)
    BY <1>0, <1>1, <2>3 DEF Consume, ConsumeClaimed, IntentStates
  <2> QED BY <1>6, <2>1, <2>2, <2>3
<1>7. ASSUME NEW j \in IntentIds, Claim(j) PROVE now < intents[id].deadline
  <2>1. ResolveOk(intents, j, "Claimed", now) /\ j = id
    BY <1>0, <1>4, <1>7 DEF Claim
  <2>2. intents[id] # NoIntent /\ intents[id].state = "Approved"
    BY <1>7, <2>1 DEF Claim, ResolveOk, CanTransition, Transitions
  <2> QED BY <1>0, <2>1, <2>2 DEF ResolveOk, Overdue, Intent
<1>8. ASSUME NEW j \in IntentIds, NEW s \in Sessions, CancelByPrincipal(j, s) PROVE FALSE
  BY <1>3, <1>4, <1>8 DEF CancelByPrincipal, IntentStates
<1>9. ASSUME NEW s \in Sessions, NEW sc \in Scopes, ClaimByQuery(s, sc)
      PROVE  now < intents[id].deadline
  <2>1. PICK j \in Claimable(intents, s, sc, now) : intents' = ClaimApproved(intents, j, now)
    BY <1>2, <1>9 DEF ClaimByQuery
  <2>2. j \in IntentIds /\ Expire(intents[j], now).state = "Approved"
    BY <2>1 DEF Claimable, MatchesQuery, CleanupExpired
  <2>3. j = id
    BY <1>2, <2>1, <2>2, CleanupHarmless DEF ClaimApproved
  <2>4. intents[id] \in Intent
    BY <1>0, <2>2, <2>3, ExpireFacts DEF NoIntent
  <2> QED BY <1>0, <2>2, <2>3, <2>4, ApprovedInTime
<1>10. ASSUME NEW s \in Sessions, CancelSession(s) PROVE FALSE
  BY <1>1, <1>10 DEF CancelSession, CancelBySession, IntentStates
<1>11. CASE Sweep
  BY <1>2, <1>11 DEF Sweep
<1>12. CASE DropTerminal
  BY <1>12 DEF DropTerminal, CleanupTerminal, NoIntent
<1>13. CASE InvalidateAll
  BY <1>13 DEF InvalidateAll, EmptyStore, NoIntent
<1>14. CASE Tick \/ UNCHANGED vars
  BY <1>14 DEF Tick, vars
<1> QED BY <1>5, <1>6, <1>7, <1>8, <1>9, <1>10, <1>11, <1>12, <1>13, <1>14 DEF Next

\* No claim succeeds at or after the deadline, for every lifetime asked for.
THEOREM NoClaimPastDeadlineHolds == Spec => NoClaimPastDeadline
<1>1. IInv /\ [Next]_vars
      => [\A id \in IntentIds :
            (intents[id].state # "Claimed" /\ intents'[id].state = "Claimed")
              => now < intents[id].deadline]_vars
  BY ClaimStep
<1> QED BY <1>1, InitInv, NextInv, PTL DEF Spec, NoClaimPastDeadline

\* Sweeping makes nothing active.
LEMMA SweepShrinks ==
  ASSUME IInv
  PROVE  ActiveIds(CleanupExpired(intents, now)) \subseteq ActiveIds(intents)
<1>0. intents \in [IntentIds -> Intent \cup {NoIntent}] /\ now \in Nat
  BY DEF IInv, TypeOK, Store
<1>1. ASSUME NEW id \in IntentIds, intents[id].state \in Terminal \cup {"None"}
      PROVE  Expire(intents[id], now) = intents[id]
  BY <1>1 DEF Expire, Overdue, Terminal
<1> QED BY <1>1 DEF ActiveIds, CleanupExpired

\* Only create makes an id active that was not.
LEMMA ActiveStep ==
  ASSUME IInv, [Next]_vars
  PROVE  \/ ActiveIds(intents') \subseteq ActiveIds(intents)
         \/ \E id \in IntentIds :
              /\ ActiveIds(intents') \subseteq ActiveIds(CleanupExpired(intents, now)) \cup {id}
              /\ ~(Cardinality(ActiveIds(CleanupExpired(intents, now))) >= MaxIntents)
<1>0. intents \in [IntentIds -> Intent \cup {NoIntent}] /\ now \in Nat
  BY DEF IInv, TypeOK, Store
<1> DEFINE swept == CleanupExpired(intents, now)
           Shrinks == ActiveIds(intents') \subseteq ActiveIds(intents)
<1>0a. swept \in [IntentIds -> Intent \cup {NoIntent}] /\ ActiveIds(swept) \subseteq ActiveIds(intents)
  BY CleanupHarmless, SweepShrinks
<1>1. ASSUME NEW s \in Sessions, NEW sc \in Scopes, NEW ttl \in Ttls, Create(s, sc, ttl),
             ~(Cardinality(ActiveIds(swept)) >= MaxIntents)
      PROVE  \E id \in IntentIds : ActiveIds(intents') \subseteq ActiveIds(swept) \cup {id}
  <2>1. PICK id \in IntentIds : intents' = [swept EXCEPT ![id] = NewIntent(s, sc, now + ttl)]
    BY <1>1 DEF Create
  <2> HIDE DEF swept
  <2>2. \A j \in IntentIds \ {id} : intents'[j] = swept[j]
    BY <1>0a, <2>1
  <2>3. ActiveIds(intents') \subseteq ActiveIds(swept) \cup {id}
    BY <2>2 DEF ActiveIds
  <2> QED BY <2>3
<1>2. ASSUME NEW s \in Sessions, NEW sc \in Scopes, NEW ttl \in Ttls, Create(s, sc, ttl),
             Cardinality(ActiveIds(swept)) >= MaxIntents
      PROVE  Shrinks
  BY <1>0a, <1>2 DEF Create
<1>3. (\A j \in IntentIds : intents[j] = NoIntent => intents'[j] = NoIntent) => Shrinks
  <2>1. ASSUME NEW j \in IntentIds, intents[j].state \in Terminal \cup {"None"},
               intents[j] = NoIntent => intents'[j] = NoIntent
        PROVE  intents'[j].state \in Terminal \cup {"None"}
    <3>1. intents[j].state = "None" => intents[j] = NoIntent
      BY <1>0 DEF Intent, IntentStates, NoIntent
    <3>2. intents[j].state \in Terminal => intents'[j] \in {intents[j], NoIntent}
      BY TerminalStep
    <3> QED BY <2>1, <3>1, <3>2 DEF NoIntent
  <2> QED BY <2>1 DEF ActiveIds
<1>4. /\ \A j \in IntentIds, to \in IntentStates :
           intents[j] = NoIntent => TransitionTo(intents[j], to) = NoIntent
      /\ \A j \in IntentIds : intents[j] = NoIntent => Expire(intents[j], now) = NoIntent
  BY DEF TransitionTo, CanTransition, Transitions, Expire, Overdue, NoIntent
<1>5. ASSUME NEW id \in IntentIds,
             Approve(id) \/ Deny(id) \/ Claim(id) \/ Rollback(id) \/ Consume(id)
      PROVE  Shrinks
  <2>1. CASE Approve(id) \/ Deny(id) \/ Claim(id)
    <3>1. intents[id] # NoIntent
      BY <2>1 DEF Approve, Deny, Claim
    <3>2. \A j \in IntentIds \ {id} : intents'[j] = intents[j]
      BY <1>0, <2>1 DEF Approve, Deny, Claim, Resolve, ExpireIfNeeded
    <3> QED BY <1>3, <3>1, <3>2
  <2>2. CASE Rollback(id) \/ Consume(id)
    <3>1. \A j \in IntentIds : intents[j] = NoIntent => intents'[j] = NoIntent
      BY <1>0, <2>2 DEF Rollback, RollbackClaim, Consume, ConsumeOk, ConsumeClaimed, NoIntent
    <3> QED BY <1>3, <3>1
  <2> QED BY <1>5, <2>1, <2>2
<1>6. ASSUME NEW id \in IntentIds, NEW s \in Sessions, CancelByPrincipal(id, s) PROVE Shrinks
  BY <1>0, <1>3, <1>6 DEF CancelByPrincipal, Resolve, ExpireIfNeeded
<1>7. ASSUME NEW s \in Sessions, NEW sc \in Scopes, ClaimByQuery(s, sc) PROVE Shrinks
  <2>1. CASE intents' = swept
    BY <1>0a, <2>1
  <2>2. ASSUME NEW id \in Claimable(intents, s, sc, now), intents' = ClaimApproved(intents, id, now)
        PROVE  Shrinks
    <3>1. id \in IntentIds /\ swept[id].state = "Approved"
      BY <2>2 DEF Claimable, MatchesQuery
    <3>2. \A j \in IntentIds \ {id} : intents'[j] = swept[j]
      BY <1>0a, <2>2 DEF ClaimApproved
    <3> HIDE DEF swept
    <3>3. id \in ActiveIds(swept)
      BY <3>1 DEF ActiveIds, Terminal
    <3> QED BY <1>0a, <3>2, <3>3 DEF ActiveIds
  <2> QED BY <1>7, <2>1, <2>2 DEF ClaimByQuery
<1>8. ASSUME NEW s \in Sessions, CancelSession(s) PROVE Shrinks
  BY <1>3, <1>4, <1>8 DEF CancelSession, CancelBySession, IntentStates
<1>9. CASE Sweep
  BY <1>0a, <1>9 DEF Sweep
<1>10. CASE DropTerminal
  BY <1>3, <1>10 DEF DropTerminal, CleanupTerminal
<1>11. CASE InvalidateAll
  BY <1>3, <1>11 DEF InvalidateAll, EmptyStore
<1>12. CASE Tick \/ UNCHANGED vars
  BY <1>12 DEF Tick, vars
<1> QED BY <1>1, <1>2, <1>5, <1>6, <1>7, <1>8, <1>9, <1>10, <1>11, <1>12 DEF Next

\* The live intents are finitely many and within the limit.
BoundInv == IsFiniteSet(ActiveIds(intents)) /\ ActiveBounded

\* A step keeps the live intents within the limit.
LEMMA BoundStep == IInv /\ BoundInv /\ [Next]_vars => BoundInv'
<1> SUFFICES ASSUME IInv, BoundInv, [Next]_vars PROVE BoundInv'
  OBVIOUS
<1>1. CASE ActiveIds(intents') \subseteq ActiveIds(intents)
  <2>1. /\ IsFiniteSet(ActiveIds(intents'))
        /\ Cardinality(ActiveIds(intents')) <= Cardinality(ActiveIds(intents))
    BY <1>1, FS_Subset DEF BoundInv
  <2>2. Cardinality(ActiveIds(intents')) \in Nat /\ Cardinality(ActiveIds(intents)) \in Nat
    BY <2>1, FS_CardinalityType DEF BoundInv
  <2> QED BY <2>1, <2>2, MaxIntentsAssumption DEF BoundInv, ActiveBounded
<1>2. ASSUME NEW id \in IntentIds,
             ActiveIds(intents') \subseteq ActiveIds(CleanupExpired(intents, now)) \cup {id},
             ~(Cardinality(ActiveIds(CleanupExpired(intents, now))) >= MaxIntents)
      PROVE  BoundInv'
  <2> DEFINE S == ActiveIds(CleanupExpired(intents, now))
  <2>1. IsFiniteSet(S) /\ Cardinality(S) \in Nat
    BY SweepShrinks, FS_Subset, FS_CardinalityType DEF BoundInv
  <2>2. /\ IsFiniteSet(S \cup {id}) /\ Cardinality(S \cup {id}) \in Nat
        /\ Cardinality(S \cup {id}) <= Cardinality(S) + 1
    <3>1. /\ IsFiniteSet(S \cup {id})
          /\ Cardinality(S \cup {id}) = Cardinality(S) \/ Cardinality(S \cup {id}) = Cardinality(S) + 1
      BY <2>1, FS_AddElement
    <3> HIDE DEF S
    <3> QED BY <2>1, <3>1
  <2>3. /\ IsFiniteSet(ActiveIds(intents'))
        /\ Cardinality(ActiveIds(intents')) <= Cardinality(S \cup {id})
        /\ Cardinality(ActiveIds(intents')) \in Nat
    BY <1>2, <2>2, FS_Subset, FS_CardinalityType
  <2>4. Cardinality(S) < MaxIntents
    BY <1>2, <2>1, MaxIntentsAssumption
  <2> QED BY <2>1, <2>2, <2>3, <2>4, MaxIntentsAssumption DEF BoundInv, ActiveBounded
<1> QED BY <1>1, <1>2, ActiveStep

\* The store never holds more live intents than its limit, although claims,
\* rollbacks and expiry move records in and out of the states create counts.
THEOREM ActiveBoundedHolds == Spec => []ActiveBounded
<1>1. Init => BoundInv
  <2>1. SUFFICES ASSUME Init PROVE BoundInv
    OBVIOUS
  <2>2. ActiveIds(intents) = {}
    BY <2>1 DEF Init, EmptyStore, NoIntent, ActiveIds
  <2> QED BY <2>2, FS_EmptySet, MaxIntentsAssumption DEF BoundInv, ActiveBounded
<1>2. BoundInv => ActiveBounded
  BY DEF BoundInv
<1> QED BY <1>1, <1>2, InitInv, NextInv, BoundStep, PTL DEF Spec
=============================================================================
