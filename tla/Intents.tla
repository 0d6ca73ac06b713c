------------------------------ MODULE Intents ------------------------------
(***************************************************************************)
(* The records and pure operations of the one-shot intent store            *)
(* (agent/intent.rs).  A store maps every intent id to its record, or to   *)
(* NoIntent when the store's HashMap has no entry.  Operators take the     *)
(* store and the monotonic time and return the new store, so that the      *)
(* state machine IntentStore and the composition PolicyRuntime share them. *)
(*                                                                         *)
(* Abstraction.  Everything an intent is bound to apart from the session   *)
(* (profile, endpoint, process digest, policy generation and digest,       *)
(* action, RP id, credential) is one value, its scope: the code compares   *)
(* these fields for equality and nothing else.                             *)
(***************************************************************************)
EXTENDS Integers, FiniteSets

CONSTANTS IntentIds,   \* the ids IntentId::new() can mint
          Sessions,    \* principal sessions
          Scopes       \* the rest of the tuple an intent is bound to

IntentStates == {"Pending", "Approved", "Denied", "Cancelled", "Expired",
                 "Claimed", "Consumed"}

\* IntentState::is_terminal
Terminal == {"Denied", "Cancelled", "Expired", "Consumed"}

NoIntent == [state |-> "None"]

\* token: whether the claim token is still in the record (Option<ClaimToken>).
Intent == [session : Sessions, scope : Scopes, deadline : Nat,
           state : IntentStates, token : {"held", "taken"}]

Store == [IntentIds -> Intent \cup {NoIntent}]

EmptyStore == [id \in IntentIds |-> NoIntent]

\* Mutant: an approved intent may be consumed without a claim, and again.
TransitionsReopening ==
  {<<"Pending", "Approved">>, <<"Pending", "Denied">>, <<"Pending", "Cancelled">>,
   <<"Pending", "Expired">>, <<"Approved", "Claimed">>, <<"Approved", "Expired">>,
   <<"Claimed", "Consumed">>, <<"Consumed", "Approved">>}

\* The only transitions transition_to performs; rollback_claim bypasses it.
Transitions == {<<"Pending", "Approved">>, <<"Pending", "Denied">>,
                <<"Pending", "Cancelled">>, <<"Pending", "Expired">>,
                <<"Approved", "Claimed">>, <<"Approved", "Expired">>,
                <<"Claimed", "Consumed">>}

CanTransition(i, to) == <<i.state, to>> \in Transitions

\* transition_to with the Result ignored (let _ = ...) or propagated: an
\* invalid transition leaves the record as it is.
TransitionTo(i, to) == IF CanTransition(i, to) THEN [i EXCEPT !.state = to]
                                               ELSE i

\* Mutant: the deadline itself still counts as in time.
OverdueLate(i, now) == /\ i.state \in {"Pending", "Approved"}
                       /\ now > i.deadline

\* The expiry test shared by cleanup_expired and expire_if_needed.
Overdue(i, now) == /\ i.state \in {"Pending", "Approved"}
                   /\ now >= i.deadline

\* One iteration of cleanup_expired, and expire_if_needed for one id.
Expire(i, now) == IF Overdue(i, now) THEN TransitionTo(i, "Expired") ELSE i

ExpireIfNeeded(store, id, now) == [store EXCEPT ![id] = Expire(@, now)]

CleanupExpired(store, now) ==
  [id \in IntentIds |-> Expire(store[id], now)]

\* The intents active_count and create count.
ActiveIds(store) == {id \in IntentIds : store[id].state \notin Terminal \cup {"None"}}

MatchesQuery(i, s, sc, states) ==
  i.state \in states /\ i.session = s /\ i.scope = sc

\* Mutant: the deadline is taken one tick early by an unchecked subtraction.
NewIntentUnderflow(s, sc, deadline) ==
  [session |-> s, scope |-> sc, deadline |-> deadline - 1,
   state |-> "Pending", token |-> "held"]

\* The record create inserts.
NewIntent(s, sc, deadline) ==
  [session |-> s, scope |-> sc, deadline |-> deadline,
   state |-> "Pending", token |-> "held"]

\* approve, deny and cancel_by_principal all run expire_if_needed first and
\* then one transition; an overdue intent is expired and the call fails.
ResolveOk(store, id, to, now) ==
  ~Overdue(store[id], now) /\ CanTransition(store[id], to)

Resolve(store, id, to, now) ==
  [store EXCEPT ![id] = IF Overdue(@, now) THEN Expire(@, now)
                                           ELSE TransitionTo(@, to)]

\* The record after a successful claim: the token is taken out for good.
ClaimIntent(i) == [TransitionTo(i, "Claimed") EXCEPT !.token = "taken"]

\* Mutant: any approved intent of the session will do.
ClaimableAnyScope(store, s, sc, now) ==
  {id \in IntentIds : /\ CleanupExpired(store, now)[id].state = "Approved"
                      /\ store[id].session = s}

\* The candidates of claim_approved once cleanup_expired has run: HashMap
\* iteration order decides which one values_mut().find() meets first.
Claimable(store, s, sc, now) ==
  {id \in IntentIds :
     MatchesQuery(CleanupExpired(store, now)[id], s, sc, {"Approved"})}

\* claim_approved on the candidate found.
ClaimApproved(store, id, now) ==
  [CleanupExpired(store, now) EXCEPT ![id] = ClaimIntent(@)]

\* Mutant: the rollback also puts the token back.
RollbackClaimRestoringToken(store, id) ==
  [store EXCEPT ![id] = IF @.state = "Claimed"
                        THEN [@ EXCEPT !.state = "Approved", !.token = "held"] ELSE @]

\* rollback_claim: a Claimed intent becomes Approved, nothing else changes;
\* the claim token is not restored.
RollbackClaim(store, id) ==
  [store EXCEPT ![id] = IF @.state = "Claimed" THEN [@ EXCEPT !.state = "Approved"]
                                               ELSE @]

\* Mutant: a consumed intent may be consumed again.
ConsumeOkAgain(store, id) == store[id].state \in {"Claimed", "Consumed"}

\* consume and consume_claimed.
ConsumeOk(store, id) == store[id].state = "Claimed"

\* Mutant: the consumption is not recorded.
ConsumeClaimedUnmarked(store, id) == store

ConsumeClaimed(store, id) == [store EXCEPT ![id] = TransitionTo(@, "Consumed")]

\* cancel_by_session attempts Cancelled on every non-terminal intent of the
\* session; transition_to refuses it for Approved and Claimed ones.
CancelBySession(store, s) ==
  [id \in IntentIds |->
     IF id \in ActiveIds(store) /\ store[id].session = s
     THEN TransitionTo(store[id], "Cancelled") ELSE store[id]]

\* cleanup_terminal drops the terminal records.
CleanupTerminal(store) ==
  [id \in IntentIds |-> IF store[id].state \in Terminal THEN NoIntent
                                                        ELSE store[id]]
=============================================================================
