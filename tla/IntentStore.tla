---------------------------- MODULE IntentStore ----------------------------
(***************************************************************************)
(* The one-shot intent store (agent/intent.rs) as a state machine: every   *)
(* operation of IntentStore that changes state is an action, taken by any  *)
(* caller at any time (the store sits behind one Mutex, so operations are  *)
(* atomic).  Time is the monotonic clock the store reads.                  *)
(*                                                                         *)
(* approvals, tokenClaims and consumptions are history variables: they     *)
(* remember what happened to an id after its record has been dropped.      *)
(***************************************************************************)
EXTENDS Intents

CONSTANTS MaxIntents,  \* max_intents: bound on non-terminal intents
          Ttls,        \* the ttl_ms values principals ask for
          MaxTime      \* bound on the clock (model only)

ASSUME MaxIntentsAssumption == MaxIntents \in Nat
ASSUME TtlsAssumption == Ttls \subseteq Nat

VARIABLES intents,       \* the HashMap
          minted,        \* ids handed out; IntentId::new() never repeats one
          now,           \* MonotonicClock::now
          approvals,     \* ids approved with an AdminAuthority
          tokenClaims,   \* how often the claim token of an id was accepted
          consumptions   \* how often an id was consumed

vars == <<intents, minted, now, approvals, tokenClaims, consumptions>>
history == <<approvals, tokenClaims, consumptions>>

TypeOK ==
  /\ intents \in Store
  /\ minted \subseteq IntentIds
  /\ now \in Nat
  /\ approvals \subseteq IntentIds
  /\ tokenClaims \in [IntentIds -> Nat]
  /\ consumptions \in [IntentIds -> Nat]

Init ==
  /\ intents = EmptyStore
  /\ minted = {}
  /\ now = 0
  /\ approvals = {}
  /\ tokenClaims = [id \in IntentIds |-> 0]
  /\ consumptions = [id \in IntentIds |-> 0]

Tick == /\ now < MaxTime
        /\ now' = now + 1
        /\ UNCHANGED <<intents, minted, history>>

\* Mutant: claimed intents are not counted against the limit.
CreateUncountedClaims(s, sc, ttl) ==
  LET swept == CleanupExpired(intents, now) IN
  /\ Cardinality({id \in ActiveIds(swept) : swept[id].state # "Claimed"}) < MaxIntents
  /\ \E id \in IntentIds \ minted :
       /\ intents' = [swept EXCEPT ![id] = NewIntent(s, sc, now + ttl)]
       /\ minted' = minted \cup {id}
  /\ UNCHANGED <<now, history>>

\* create: sweep the overdue intents, refuse at the limit (the sweep stays),
\* else insert a Pending record under a fresh id.
Create(s, sc, ttl) ==
  LET swept == CleanupExpired(intents, now) IN
  /\ IF Cardinality(ActiveIds(swept)) >= MaxIntents
     THEN intents' = swept /\ UNCHANGED minted
     ELSE \E id \in IntentIds \ minted :
            /\ intents' = [swept EXCEPT ![id] = NewIntent(s, sc, now + ttl)]
            /\ minted' = minted \cup {id}
  /\ UNCHANGED <<now, history>>

Approve(id) ==
  /\ intents[id] # NoIntent
  /\ intents' = Resolve(intents, id, "Approved", now)
  /\ approvals' = IF ResolveOk(intents, id, "Approved", now)
                  THEN approvals \cup {id} ELSE approvals
  /\ UNCHANGED <<minted, now, tokenClaims, consumptions>>

Deny(id) ==
  /\ intents[id] # NoIntent
  /\ intents' = Resolve(intents, id, "Denied", now)
  /\ UNCHANGED <<minted, now, history>>

\* cancel_by_principal: expiry is applied before the caller is compared with
\* the owner; somebody else's intent is NotFound.
CancelByPrincipal(id, s) ==
  /\ intents[id] # NoIntent
  /\ intents' = IF intents[id].session = s
                THEN Resolve(intents, id, "Cancelled", now)
                ELSE ExpireIfNeeded(intents, id, now)
  /\ UNCHANGED <<minted, now, history>>

\* claim with the token create returned (a wrong token only expires).
Claim(id) ==
  LET ok == /\ ResolveOk(intents, id, "Claimed", now)
            /\ intents[id].token = "held" IN
  /\ intents[id] # NoIntent
  /\ intents' = IF ok THEN [intents EXCEPT ![id] = ClaimIntent(@)]
                      ELSE ExpireIfNeeded(intents, id, now)
  /\ tokenClaims' = IF ok THEN [tokenClaims EXCEPT ![id] = @ + 1] ELSE tokenClaims
  /\ UNCHANGED <<minted, now, approvals, consumptions>>

\* claim_approved: the caller presents the tuple instead of a token.
ClaimByQuery(s, sc) ==
  LET found == Claimable(intents, s, sc, now) IN
  /\ IF found = {} THEN intents' = CleanupExpired(intents, now)
     ELSE \E id \in found : intents' = ClaimApproved(intents, id, now)
  /\ UNCHANGED <<minted, now, history>>

Rollback(id) ==
  /\ intents' = RollbackClaim(intents, id)
  /\ UNCHANGED <<minted, now, history>>

Consume(id) ==
  /\ ConsumeOk(intents, id)
  /\ intents' = ConsumeClaimed(intents, id)
  /\ consumptions' = [consumptions EXCEPT ![id] = @ + 1]
  /\ UNCHANGED <<minted, now, approvals, tokenClaims>>

CancelSession(s) ==
  /\ intents' = CancelBySession(intents, s)
  /\ UNCHANGED <<minted, now, history>>

Sweep == /\ intents' = CleanupExpired(intents, now)
         /\ UNCHANGED <<minted, now, history>>

DropTerminal == /\ intents' = CleanupTerminal(intents)
                /\ UNCHANGED <<minted, now, history>>

\* invalidate_all: a policy reload empties the store.
InvalidateAll == /\ intents' = EmptyStore
                 /\ UNCHANGED <<minted, now, history>>

Next ==
  \/ Tick
  \/ \E s \in Sessions, sc \in Scopes, ttl \in Ttls : Create(s, sc, ttl)
  \/ \E id \in IntentIds : Approve(id) \/ Deny(id) \/ Claim(id) \/ Rollback(id) \/ Consume(id)
  \/ \E id \in IntentIds, s \in Sessions : CancelByPrincipal(id, s)
  \/ \E s \in Sessions, sc \in Scopes : ClaimByQuery(s, sc)
  \/ \E s \in Sessions : CancelSession(s)
  \/ Sweep
  \/ DropTerminal
  \/ InvalidateAll

Spec == Init /\ [][Next]_vars

-----------------------------------------------------------------------------
(* Properties *)

\* The inductive invariant behind the properties below: what is known of an
\* id from its record and its history together.
IntentInv(id) ==
  /\ id \notin minted => /\ intents[id] = NoIntent
                         /\ tokenClaims[id] = 0
                         /\ consumptions[id] = 0
  /\ intents[id].state \in {"Approved", "Claimed", "Consumed"} => id \in approvals
  /\ tokenClaims[id] \in {0, 1}
  /\ tokenClaims[id] = 1 => intents[id] = NoIntent \/ intents[id].token = "taken"
  /\ consumptions[id] \in {0, 1}
  /\ consumptions[id] = 1 => /\ intents[id].state \in {"None", "Consumed"}
                             /\ id \in approvals

IInv == TypeOK /\ \A id \in IntentIds : IntentInv(id)

\* A claim token is accepted at most once: rollback_claim makes the intent
\* Approved again but must not make its token usable again.
TokenSingleUse == \A id \in IntentIds : tokenClaims[id] <= 1

\* An intent authorises one use: it is consumed at most once, whatever mix of
\* rollbacks, sweeps and reloads lies between, and only after an
\* administrator approved that very intent.
ConsumedOnceAfterApproval ==
  \A id \in IntentIds :
    /\ consumptions[id] <= 1
    /\ consumptions[id] = 1 => id \in approvals

\* create's StoreFull check bounds the live intents although rollback, claim
\* and expiry move records in and out of the states it counts.
ActiveBounded == Cardinality(ActiveIds(intents)) <= MaxIntents

\* A terminal record never becomes usable again: it stays as it is until it
\* is dropped (ADR 0007 plan: "no terminal-to-active transition").
TerminalIsFinal ==
  [][\A id \in IntentIds :
       intents[id].state \in Terminal => intents'[id] \in {intents[id], NoIntent}]_vars

\* No claim, by token or by query, at or after the deadline, even of an
\* intent that was claimed in time and rolled back later.
NoClaimPastDeadline ==
  [][\A id \in IntentIds :
       (intents[id].state # "Claimed" /\ intents'[id].state = "Claimed")
         => now < intents[id].deadline]_vars

\* The authority an intent stands for: claimed or not, an approved intent may
\* be used; a terminal or dropped one is closed.
AuthorityStatus ==
  [id \in IntentIds |-> IF id \notin minted THEN "unasked"
                       ELSE IF intents[id].state = "Pending" THEN "asked"
                       ELSE IF intents[id].state \in {"Approved", "Claimed"} THEN "approved"
                       ELSE "closed"]

Authority == INSTANCE OneShotAuthority
             WITH Ids <- IntentIds, status <- AuthorityStatus, uses <- consumptions

\* The store is a one-shot authority: under all the sweeps, claims, rollbacks
\* and reloads an intent is asked for, approved and used in this order, each
\* once, and never comes back after it was used or closed.
IsOneShotAuthority == Authority!Spec
=============================================================================
