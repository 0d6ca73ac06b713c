--------------------------- MODULE PolicyRuntime ---------------------------
(***************************************************************************)
(* The policy runtime of one agent profile (agent/policy_engine.rs) at the *)
(* granularity of its locks.  The intent store, the grant registry, the    *)
(* pending authorizations, the pending requests and the current policy     *)
(* generation each have a lock of their own; a method takes them one after *)
(* the other, so other threads run in between.  One action is one critical *)
(* section, or several that nest under a lock held throughout.             *)
(*                                                                         *)
(* Threads.  Principal requests of a profile run one at a time (the caller *)
(* holds the profile's session list): principal.  The endpoint worker runs *)
(* one ceremony at a time (operation_lock): worker.  Policy reloads, grant *)
(* revocations and principal exits run on administration threads: reload,  *)
(* revoke, exit.  Housekeeping (cleanup, cancellation) may run any time.   *)
(*                                                                         *)
(* Names.  A pending request, its grant request and the grant that comes   *)
(* of it carry the id of the request's intent: each is created for it and  *)
(* for nothing else.  The clock counts half seconds: the intent store      *)
(* keeps millisecond deadlines, everything else whole seconds.             *)
(***************************************************************************)
EXTENDS Integers, FiniteSets

CONSTANTS IntentIds, CeremonyIds, Sessions, Ops, Reloaders,
          Kinds,       \* subset of {"isolated", "delegated"}
          Actors,      \* subset of {"admin", "reload", "revoke", "exit"}
          Ttls,        \* intent lifetimes asked for, in half seconds
          GrantTtls,   \* grant lifetimes asked for, in seconds
          MaxIntents, MaxConcurrent, MaxTtl,
          MaxTime, MaxGen   \* bounds on the clock and on reloads (model only)

ASSUME RuntimeTtlsAssumption == Ttls \subseteq Nat /\ GrantTtls \subseteq Nat
ASSUME RuntimeKindsAssumption == Kinds \subseteq {"isolated", "delegated"}
ASSUME RuntimeLimitsAssumption ==
  MaxIntents \in Nat /\ MaxConcurrent \in Nat /\ MaxTtl \in Nat \ {0}

Scope == [op : Ops, gen : Nat]

INSTANCE Intents WITH Scopes <- Scope
INSTANCE Grants WITH GrantIds <- IntentIds, RequestIds <- IntentIds,
                     ClaimIds <- CeremonyIds

VARIABLES intents,               \* Mutex<IntentStore>
          grants, greqs, claims, \* Mutex<GrantRegistry>: its three maps
          regGen,                \* and its policy generation
          pending,               \* Mutex<HashMap<ceremony, PendingAuthorization>>
          preqs,                 \* Mutex<HashMap<_, PendingPrincipalRequest>>
          preqLock,              \* who keeps pending_requests locked between actions
          current,               \* RwLock<Arc<PolicyGenerationSnapshot>>
          lastGen,               \* generation ids handed out (random, never equal)
          now, minted,           \* the clock; intent and ceremony ids handed out
          principal, worker, reload, revoke, exit,   \* the threads
          made,        \* history: what each intent was asked for
          approvals,   \* history: intents a trusted prompt or administrator approved
          keyUses,     \* history: what the credential key was used for
          wiped,       \* history: intents that a reload removed before they were consumed
          revoked      \* history: grants admin_revoke_grant has revoked

stores == <<intents, grants, greqs, claims, regGen>>
grantVars == <<grants, greqs, claims, regGen>>
threads == <<principal, worker, reload, revoke, exit>>
history == <<made, approvals, keyUses, wiped, revoked>>
vars == <<stores, pending, preqs, preqLock, current, lastGen, now, minted, threads, history>>

Secs(t) == t \div 2
\* Mutant: rounding by an unchecked subtraction.
SecsCeilUnderflow(t) == (t - 3) \div 2
SecsCeil(t) == (t + 1) \div 2

NoId == "none"
NoPreq == [state |-> "None"]
NoAuth == [status |-> "None"]
Unmade == [session |-> NoId]

\* PendingPrincipalRequest; what it is bound to is its intent's tuple.
Preq == [kind : {"isolated", "delegated"}, session : Sessions, scope : Scope,
         deadline : Nat,
         state : {"Waiting", "Approved", "Denied", "Cancelled", "TimedOut"}]

\* PendingAuthorization; its other fields are the handle's, compared there.
Auth == [intent : IntentIds, grant : IntentIds \cup {NoId},
         session : Sessions, status : {"valid", "invalidated"}]

IdlePrincipal == [pc |-> "idle"]
IdleWorker == [pc |-> "idle"]
IdleThread == [pc |-> "idle"]

\* matches_tuple among the Waiting requests.
Matching(s, sc) == {i \in IntentIds : /\ preqs[i].state = "Waiting"
                                      /\ preqs[i].session = s
                                      /\ preqs[i].scope = sc}

Init ==
  /\ intents = EmptyStore
  /\ grants = [g \in IntentIds |-> NoGrant]
  /\ greqs = [q \in IntentIds |-> NoRequest]
  /\ claims = [c \in CeremonyIds |-> NoClaim]
  /\ regGen = 0 /\ current = 0 /\ lastGen = 0
  /\ pending = [c \in CeremonyIds |-> NoAuth]
  /\ preqs = [i \in IntentIds |-> NoPreq]
  /\ preqLock = "free"
  /\ now = 0 /\ minted = {}
  /\ principal = IdlePrincipal /\ worker = IdleWorker
  /\ reload = [r \in Reloaders |-> IdleThread] /\ revoke = IdleThread /\ exit = IdleThread
  /\ made = [i \in IntentIds |-> Unmade]
  /\ approvals = {} /\ keyUses = {} /\ wiped = {} /\ revoked = {}

\* The bounded clock leaves room for every deadline.
Tick == /\ now < MaxTime /\ now' = now + 1
        /\ principal.pc = "create" => now + 1 + principal.ttl < MaxTime
        /\ UNCHANGED <<stores, pending, preqs, preqLock, current, lastGen, minted, threads, history>>

-----------------------------------------------------------------------------
(* A principal asks: principal_create_pending_intent and _delegated.        *)

\* The caller has read the current generation and built the parameters.
StartRequest(s, kind, op, ttl) ==
  /\ principal.pc = "idle"
  /\ exit.pc # "idle" => exit.session # s
  /\ now + ttl < MaxTime /\ ~(IntentIds \subseteq minted)
  /\ principal' = [pc |-> "create", session |-> s, kind |-> kind, ttl |-> ttl,
                   scope |-> [op |-> op, gen |-> current]]
  /\ UNCHANGED <<stores, pending, preqs, preqLock, current, lastGen, now, minted,
                 worker, reload, revoke, exit, history>>

\* The intents section: intents.create, StoreFull included.
CreateIntent ==
  LET p == principal
      swept == CleanupExpired(intents, now) IN
  /\ p.pc = "create"
  /\ IF Cardinality(ActiveIds(swept)) >= MaxIntents
     THEN /\ intents' = swept /\ principal' = IdlePrincipal
          /\ UNCHANGED <<minted, made>>
     ELSE \E i \in IntentIds \ minted :
            /\ intents' = [swept EXCEPT ![i] = NewIntent(p.session, p.scope, now + p.ttl)]
            /\ minted' = minted \cup {i}
            /\ made' = [made EXCEPT ![i] = [session |-> p.session, scope |-> p.scope]]
            /\ principal' =
                 [pc |-> IF p.kind = "delegated" THEN "request" ELSE "insert",
                  intent |-> i,
                  preq |-> [kind |-> p.kind, session |-> p.session, scope |-> p.scope,
                            deadline |-> Secs(now) + SecsCeil(p.ttl),
                            state |-> "Waiting"]]
  /\ UNCHANGED <<grantVars, pending, preqs, preqLock, current, lastGen, now,
                 worker, reload, revoke, exit, approvals, keyUses, wiped, revoked>>

\* The grants section of a delegated request; a refused lifetime leaves the
\* intent behind without a pending request.
RequestGrant(ttl) ==
  LET p == principal IN
  /\ p.pc = "request"
  /\ IF ttl > 0 /\ ttl <= MaxTtl
     THEN /\ greqs' = [greqs EXCEPT ![p.intent] =
                         [session |-> p.preq.session, ops |-> {p.preq.scope.op},
                          ttl |-> ttl, status |-> "open"]]
          /\ principal' = [p EXCEPT !.pc = "insert"]
     ELSE principal' = IdlePrincipal /\ UNCHANGED greqs
  /\ UNCHANGED <<intents, grants, claims, regGen, pending, preqs, preqLock, current, lastGen,
                 now, minted, worker, reload, revoke, exit, history>>

InsertRequest ==
  LET p == principal IN
  /\ p.pc = "insert" /\ preqLock = "free"
  /\ preqs' = [preqs EXCEPT ![p.intent] = p.preq]
  /\ principal' = IdlePrincipal
  /\ UNCHANGED <<stores, pending, preqLock, current, lastGen, now, minted,
                 worker, reload, revoke, exit, history>>

-----------------------------------------------------------------------------
(* Closing requests: the requests in ids are moved from Waiting to state,   *)
(* their intents denied (a refusal is swallowed), their grant requests      *)
(* cancelled and grants already made of them revoked.                       *)

DenyIntents(ids) ==
  [i \in IntentIds |-> IF i \in ids THEN Resolve(intents, i, "Denied", now)[i]
                                    ELSE intents[i]]

WithGrants(ids) == {i \in ids : preqs[i].kind = "delegated"}

CloseRequests(ids, state) ==
  /\ preqLock = "free"
  /\ preqs' = [i \in IntentIds |-> IF i \in ids THEN [preqs[i] EXCEPT !.state = state]
                                                ELSE preqs[i]]
  /\ intents' = DenyIntents(ids)
  /\ grants' = [g \in IntentIds |-> IF g \in WithGrants(ids)
                                    THEN TryTransition(grants[g], "Active", "Revoked")
                                    ELSE grants[g]]
  /\ greqs' = [q \in IntentIds |-> IF q \in WithGrants(ids) /\ greqs[q].status = "open"
                                   THEN [greqs[q] EXCEPT !.status = "cancelled"]
                                   ELSE greqs[q]]
  /\ UNCHANGED <<claims, regGen, pending, preqLock, current, lastGen, now, minted, history>>

\* Mutant: requests that were resolved already can be cancelled too.
CancelPendingAnyState(i) ==
  /\ preqs[i] # NoPreq
  /\ CloseRequests({i}, "Cancelled")
  /\ UNCHANGED threads

\* principal_cancel_pending, by the principal or on behalf of a session that
\* ended, a profile that was disabled, a browser that exited.
CancelPending(i) ==
  /\ preqs[i].state = "Waiting"
  /\ CloseRequests({i}, "Cancelled")
  /\ UNCHANGED threads

CancelPendingForSession(s) ==
  LET ids == {i \in IntentIds : preqs[i].state = "Waiting" /\ preqs[i].session = s} IN
  /\ ids # {}
  /\ CloseRequests(ids, "Cancelled")
  /\ UNCHANGED threads

\* Mutant: only requests with a grant are ever swept.
OverdueDelegatedRequests == {i \in IntentIds : /\ preqs[i].state = "Waiting"
                                               /\ preqs[i].kind = "delegated"
                                               /\ Secs(now) >= preqs[i].deadline}

OverdueRequests == {i \in IntentIds : /\ preqs[i].state = "Waiting"
                                      /\ Secs(now) >= preqs[i].deadline}

CleanupExpiredPending ==
  /\ CloseRequests(OverdueRequests, "TimedOut")
  /\ UNCHANGED threads

-----------------------------------------------------------------------------
(* The endpoint worker: one ceremony, agent/ceremony.rs calling the runtime. *)

others == <<principal, reload, revoke, exit>>

\* request: whose preparation, and so whose prompt; intent and grant: the
\* bound approval, then the handle, which cer names.
Ceremony(pc, i, s, sc) == [pc |-> pc, request |-> i, session |-> s, scope |-> sc,
                           intent |-> NoId, grant |-> NoId, cer |-> NoId]

\* The ceremony for the preparation that was installed with request i: its
\* tuple is the request's.  ceremony_policy refuses a stale generation.
StartCeremony(i) ==
  /\ worker.pc = "idle" /\ ~(CeremonyIds \subseteq minted)
  /\ preqs[i] # NoPreq
  /\ preqs[i].scope.gen = current
  /\ worker' = Ceremony("prompt", i, preqs[i].session, preqs[i].scope)
  /\ UNCHANGED <<stores, pending, preqs, preqLock, current, lastGen, now, minted, others, history>>

\* Denied, timed out or failed prompt: ceremony_deny_pending.
PromptRefused ==
  LET found == Matching(worker.session, worker.scope) IN
  /\ worker.pc = "prompt"
  /\ worker' = IdleWorker
  /\ IF Cardinality(found) = 1
     THEN CloseRequests(found, "Denied")
     ELSE /\ preqLock = "free"
          /\ UNCHANGED <<stores, pending, preqs, preqLock, current, lastGen, now, minted, history>>
  /\ UNCHANGED others

\* ceremony_resolve_pending up to the policy checks; pending_requests stays
\* locked when they pass.
ResolveMatch ==
  LET found == Matching(worker.session, worker.scope) IN
  /\ worker.pc = "prompt" /\ preqLock = "free"
  /\ \/ /\ Cardinality(found) # 1
        /\ worker' = IdleWorker /\ UNCHANGED <<preqs, preqLock>>
     \/ \E i \in found :
          /\ found = {i}
          /\ \/ /\ Secs(now) >= preqs[i].deadline
                /\ preqs' = [preqs EXCEPT ![i].state = "TimedOut"]
                /\ worker' = IdleWorker /\ UNCHANGED preqLock
             \/ /\ Secs(now) < preqs[i].deadline
                /\ worker.scope.gen # current
                /\ preqs' = [preqs EXCEPT ![i].state = "Cancelled"]
                /\ worker' = IdleWorker /\ UNCHANGED preqLock
             \/ /\ Secs(now) < preqs[i].deadline
                /\ worker.scope.gen = current
                /\ preqLock' = "worker"
                /\ worker' = [worker EXCEPT !.pc = "approve", !.intent = i]
                /\ UNCHANGED preqs
  /\ UNCHANGED <<stores, pending, current, lastGen, now, minted, others, history>>

\* The rest of it, under pending_requests, intents and grants: the intent is
\* approved first; a grant that cannot be made leaves it approved and the
\* request Waiting.
ResolveApprove ==
  LET i == worker.intent
      delegated == preqs[i].kind = "delegated"
      granted == greqs[i].status = "granted"
      grantable == /\ greqs[i].status = "open"
                   /\ Cardinality(ActiveGrants(grants)) < MaxConcurrent
      ok == ResolveOk(intents, i, "Approved", now)
      done == ok /\ (delegated => granted \/ grantable) IN
  /\ worker.pc = "approve"
  /\ preqLock' = "free"
  /\ intents' = IF intents[i] = NoIntent THEN intents
                ELSE Resolve(intents, i, "Approved", now)
  /\ approvals' = IF ok THEN approvals \cup {i} ELSE approvals
  /\ IF ok /\ delegated /\ ~granted /\ grantable
     THEN /\ grants' = [grants EXCEPT ![i] = NewGrant(greqs[i], regGen, MaxTtl, Secs(now))]
          /\ greqs' = [greqs EXCEPT ![i].status = "granted"]
     ELSE UNCHANGED <<grants, greqs>>
  /\ preqs' = IF done THEN [preqs EXCEPT ![i].state = "Approved"] ELSE preqs
  /\ worker' = IF done
               THEN [worker EXCEPT !.pc = "bound", !.grant = IF delegated THEN i ELSE NoId]
               ELSE IdleWorker
  /\ UNCHANGED <<claims, regGen, pending, current, lastGen, now, minted, others,
                 made, keyUses, wiped, revoked>>

\* authorize_bound reads the generation before it takes the intents lock.
\* authorize does the same with a tuple that no resolution produced.
CheckGeneration ==
  /\ worker.pc = "bound"
  /\ worker' = IF worker.scope.gen = current THEN [worker EXCEPT !.pc = "claim"]
                                             ELSE IdleWorker
  /\ UNCHANGED <<stores, pending, preqs, preqLock, current, lastGen, now, minted, others, history>>

StartAuthorize(s, op) ==
  /\ "admin" \in Actors
  /\ worker.pc = "idle" /\ ~(CeremonyIds \subseteq minted)
  /\ worker' = Ceremony("claim", NoId, s, [op |-> op, gen |-> current])
  /\ UNCHANGED <<stores, pending, preqs, preqLock, current, lastGen, now, minted, others, history>>

\* The claim under intents and grants: any approved intent with the tuple.  A
\* grant that does not allow the claim, or user verification that the policy
\* requires and authorize does not find, rolls it back.
ClaimBound ==
  LET w == worker
      found == Claimable(intents, w.session, w.scope, now)
      swept == CheckExpired(grants, Secs(now))
      allowed == ClaimAllowed(swept, w.grant, w.session, w.scope.op, regGen, Ops) IN
  /\ w.pc = "claim"
  /\ \/ /\ found = {}
        /\ intents' = CleanupExpired(intents, now)
        /\ worker' = IdleWorker
        /\ UNCHANGED <<grants, claims, minted>>
     \/ \E i \in found :
          /\ w.grant = NoId
          /\ UNCHANGED <<grants, claims>>
          /\ \E c \in CeremonyIds \ minted :
               /\ intents' = ClaimApproved(intents, i, now)
               /\ minted' = minted \cup {c}
               /\ worker' = [w EXCEPT !.pc = "publish", !.intent = i, !.cer = c]
     \/ \E i \in found :
          /\ w.request = NoId
          /\ intents' = RollbackClaim(ClaimApproved(intents, i, now), i)
          /\ worker' = IdleWorker
          /\ UNCHANGED <<grants, claims, minted>>
     \/ \E i \in found :
          /\ w.grant # NoId /\ grants' = swept
          /\ \/ /\ allowed
                /\ \E c \in CeremonyIds \ minted :
                     /\ intents' = ClaimApproved(intents, i, now)
                     /\ claims' = [claims EXCEPT ![c] =
                          [grant |-> w.grant, op |-> w.scope.op, consumed |-> "no"]]
                     /\ minted' = minted \cup {c}
                     /\ worker' = [w EXCEPT !.pc = "publish", !.intent = i, !.cer = c]
             \/ /\ ~allowed
                /\ intents' = RollbackClaim(ClaimApproved(intents, i, now), i)
                /\ worker' = IdleWorker
                /\ UNCHANGED <<claims, minted>>
  /\ UNCHANGED <<greqs, regGen, pending, preqs, preqLock, current, lastGen, now, others, history>>

\* The pending section at the end of authorize and authorize_bound.
PublishHandle ==
  LET w == worker IN
  /\ w.pc = "publish"
  /\ pending' = [pending EXCEPT ![w.cer] =
                   [intent |-> w.intent, grant |-> w.grant, session |-> w.session,
                    status |-> "valid"]]
  /\ worker' = [w EXCEPT !.pc = "consume"]
  /\ UNCHANGED <<stores, preqs, preqLock, current, lastGen, now, minted, others, history>>

\* The audit log refuses a record: the ceremony stops there.  At the prompt
\* the request goes on waiting; later the handle is dropped with its claim.
AuditRefuses ==
  /\ worker.pc \in {"prompt", "consume"}
  /\ worker' = IdleWorker
  /\ UNCHANGED <<stores, pending, preqs, preqLock, current, lastGen, now, minted, others, history>>

-----------------------------------------------------------------------------
(* consume_authorization, section by section, and the use of the key.       *)

Goto(pc) == worker' = [worker EXCEPT !.pc = pc]

\* The audit records are written and the handle is still published.
CheckHandle ==
  /\ worker.pc = "consume"
  /\ IF pending[worker.cer].status = "valid" THEN Goto("checkGen") ELSE worker' = IdleWorker
  /\ UNCHANGED <<stores, pending, preqs, preqLock, current, lastGen, now, minted, others, history>>

ConsumeCheckGeneration ==
  /\ worker.pc = "checkGen"
  /\ Goto(IF worker.scope.gen # current THEN "abort"
          ELSE IF worker.grant # NoId THEN "checkGrant" ELSE "consumeIntent")
  /\ UNCHANGED <<stores, pending, preqs, preqLock, current, lastGen, now, minted, others, history>>

\* is_grant_active looks at the state only, not at the expiry.
CheckGrant ==
  /\ worker.pc = "checkGrant"
  /\ Goto(IF grants[worker.grant].state = "Active" /\ regGen = worker.scope.gen
          THEN "consumeIntent" ELSE "abort")
  /\ UNCHANGED <<stores, pending, preqs, preqLock, current, lastGen, now, minted, others, history>>

\* Mutant: the intent is checked and not marked as consumed.
ConsumeIntentUnmarked ==
  /\ worker.pc = "consumeIntent"
  /\ IF ConsumeOk(intents, worker.intent)
     THEN Goto(IF worker.grant # NoId THEN "consumeGrant" ELSE "finish")
     ELSE worker' = IdleWorker
  /\ UNCHANGED <<stores, pending, preqs, preqLock, current, lastGen, now, minted, others, history>>

\* An intent that is gone or not Claimed fails the ceremony and leaves the
\* handle as it is.
ConsumeIntent ==
  LET i == worker.intent IN
  /\ worker.pc = "consumeIntent"
  /\ IF ConsumeOk(intents, i)
     THEN /\ intents' = ConsumeClaimed(intents, i)
          /\ Goto(IF worker.grant # NoId THEN "consumeGrant" ELSE "finish")
     ELSE UNCHANGED intents /\ worker' = IdleWorker
  /\ UNCHANGED <<grantVars, pending, preqs, preqLock, current, lastGen, now, minted, others, history>>

\* consume_claim_by_ceremony; a claim that is gone ends in PartialClaimFailed,
\* whose own rollback finds the intent Consumed and does nothing.
ConsumeGrantClaim ==
  LET c == worker.cer IN
  /\ worker.pc = "consumeGrant"
  /\ IF claims[c].consumed = "no"
     THEN claims' = [claims EXCEPT ![c].consumed = "yes"] /\ Goto("finish")
     ELSE UNCHANGED claims /\ Goto("abort")
  /\ UNCHANGED <<intents, grants, greqs, regGen, pending, preqs, preqLock, current, lastGen, now,
                 minted, others, history>>

\* Mutant: the claims are undone and the handle stays valid.
InvalidateCeremonyUnmarked ==
  LET c == worker.cer IN
  /\ worker.pc \in {"finish", "abort"}
  /\ intents' = RollbackClaim(intents, worker.intent)
  /\ claims' = IF worker.grant # NoId THEN [claims EXCEPT ![c] = NoClaim] ELSE claims
  /\ IF worker.pc = "finish" THEN Goto("use") ELSE worker' = IdleWorker
  /\ UNCHANGED <<grants, greqs, regGen, pending, preqs, preqLock, current, lastGen, now,
                 minted, others, history>>

\* invalidate_ceremony, on the way out of a success or of a failure.
InvalidateCeremony ==
  LET c == worker.cer IN
  /\ worker.pc \in {"finish", "abort"}
  /\ pending' = [pending EXCEPT ![c].status = "invalidated"]
  /\ intents' = RollbackClaim(intents, worker.intent)
  /\ claims' = IF worker.grant # NoId THEN [claims EXCEPT ![c] = NoClaim] ELSE claims
  /\ IF worker.pc = "finish" THEN Goto("use") ELSE worker' = IdleWorker
  /\ UNCHANGED <<grants, greqs, regGen, preqs, preqLock, current, lastGen, now, minted, others, history>>

\* The inner authenticator signs or creates the credential.
UseKey ==
  /\ worker.pc = "use"
  /\ keyUses' = keyUses \cup {[cer |-> worker.cer, intent |-> worker.intent,
                               session |-> worker.session, scope |-> worker.scope]}
  /\ worker' = IdleWorker
  /\ UNCHANGED <<stores, pending, preqs, preqLock, current, lastGen, now, minted, others,
                 made, approvals, wiped, revoked>>

-----------------------------------------------------------------------------
(* Administration threads.                                                  *)

\* admin_create_intent, admin_approve_intent, admin_deny_intent.
AdminCreate(s, op, ttl) ==
  LET swept == CleanupExpired(intents, now) IN
  /\ "admin" \in Actors /\ now + ttl < MaxTime
  /\ Cardinality(ActiveIds(swept)) < MaxIntents
  /\ \E i \in IntentIds \ minted :
       /\ intents' = [swept EXCEPT ![i] = NewIntent(s, [op |-> op, gen |-> current], now + ttl)]
       /\ minted' = minted \cup {i}
       /\ made' = [made EXCEPT ![i] = [session |-> s, scope |-> [op |-> op, gen |-> current]]]
  /\ UNCHANGED <<grantVars, pending, preqs, preqLock, current, lastGen, now, threads,
                 approvals, keyUses, wiped, revoked>>

AdminResolve(i, to) ==
  /\ "admin" \in Actors
  /\ intents[i].state = "Pending"
  /\ intents' = Resolve(intents, i, to, now)
  /\ approvals' = IF to = "Approved" /\ ResolveOk(intents, i, to, now)
                  THEN approvals \cup {i} ELSE approvals
  /\ UNCHANGED <<grantVars, pending, preqs, preqLock, current, lastGen, now, minted, threads,
                 made, keyUses, wiped, revoked>>

\* reload compiles the new generation under a fresh id, then takes the five
\* locks in turn.  Nothing keeps two administrators from reloading at once.
StartReload(r) ==
  /\ "reload" \in Actors /\ reload[r].pc = "idle" /\ lastGen < MaxGen
  /\ lastGen' = lastGen + 1
  /\ reload' = [reload EXCEPT ![r] = [pc |-> "intents", gen |-> lastGen + 1]]
  /\ UNCHANGED <<stores, pending, preqs, preqLock, current, now, minted,
                 principal, worker, revoke, exit, history>>

ReloadGoto(r, pc) == reload' = [reload EXCEPT ![r].pc = pc]

\* Mutant: claimed intents are left to the ceremonies that hold them.
ReloadIntentsKeepingClaimed(r) ==
  LET kept == {i \in IntentIds : intents[i].state = "Claimed"} IN
  /\ reload[r].pc = "intents"
  /\ intents' = [i \in IntentIds |-> IF i \in kept THEN intents[i] ELSE NoIntent]
  /\ wiped' = wiped \cup {i \in IntentIds : intents[i].state \notin {"None", "Consumed"}}
  /\ ReloadGoto(r, "pending")
  /\ UNCHANGED <<grantVars, pending, preqs, preqLock, current, lastGen, now, minted,
                 principal, worker, revoke, exit, made, approvals, keyUses, revoked>>

ReloadIntents(r) ==
  /\ reload[r].pc = "intents"
  /\ intents' = EmptyStore
  /\ wiped' = wiped \cup {i \in IntentIds : intents[i].state \notin {"None", "Consumed"}}
  /\ ReloadGoto(r, "pending")
  /\ UNCHANGED <<grantVars, pending, preqs, preqLock, current, lastGen, now, minted,
                 principal, worker, revoke, exit, made, approvals, keyUses, revoked>>

Invalidated(cers) ==
  [c \in CeremonyIds |-> IF c \in cers /\ pending[c] # NoAuth
                         THEN [pending[c] EXCEPT !.status = "invalidated"]
                         ELSE pending[c]]

ReloadPending(r) ==
  /\ reload[r].pc = "pending"
  /\ pending' = Invalidated(CeremonyIds)
  /\ ReloadGoto(r, "preqs")
  /\ UNCHANGED <<stores, preqs, preqLock, current, lastGen, now, minted,
                 principal, worker, revoke, exit, history>>

CancelWaiting(ids) ==
  [i \in IntentIds |-> IF i \in ids /\ preqs[i].state = "Waiting"
                       THEN [preqs[i] EXCEPT !.state = "Cancelled"] ELSE preqs[i]]

ReloadRequests(r) ==
  /\ reload[r].pc = "preqs" /\ preqLock = "free"
  /\ preqs' = CancelWaiting(IntentIds)
  /\ ReloadGoto(r, "grants")
  /\ UNCHANGED <<stores, pending, preqLock, current, lastGen, now, minted,
                 principal, worker, revoke, exit, history>>

\* The registries are replaced by empty ones of the new generation.
ReloadGrants(r) ==
  /\ reload[r].pc = "grants"
  /\ grants' = [g \in IntentIds |-> NoGrant]
  /\ greqs' = [q \in IntentIds |-> NoRequest]
  /\ claims' = [c \in CeremonyIds |-> NoClaim]
  /\ regGen' = reload[r].gen
  /\ ReloadGoto(r, "current")
  /\ UNCHANGED <<intents, pending, preqs, preqLock, current, lastGen, now, minted,
                 principal, worker, revoke, exit, history>>

ReloadCurrent(r) ==
  /\ reload[r].pc = "current"
  /\ current' = reload[r].gen
  /\ reload' = [reload EXCEPT ![r] = IdleThread]
  /\ UNCHANGED <<stores, pending, preqs, preqLock, lastGen, now, minted,
                 principal, worker, revoke, exit, history>>

\* Mutant: the claims already made on the grant stay.
AdminRevokeGrantKeepingClaims(g) ==
  /\ "revoke" \in Actors /\ revoke.pc = "idle"
  /\ grants[g].state = "Active"
  /\ grants' = [grants EXCEPT ![g] = TryTransition(@, "Active", "Revoked")]
  /\ revoked' = revoked \cup {g}
  /\ revoke' = [pc |-> "pending", grant |-> g]
  /\ UNCHANGED <<intents, greqs, claims, regGen, pending, preqs, preqLock, current, lastGen,
                 now, minted, principal, worker, reload, exit, made, approvals, keyUses, wiped>>

\* admin_revoke_grant: the grants section, then the pending section.
AdminRevokeGrant(g) ==
  /\ "revoke" \in Actors /\ revoke.pc = "idle"
  /\ grants[g].state = "Active"
  /\ grants' = [grants EXCEPT ![g] = TryTransition(@, "Active", "Revoked")]
  /\ claims' = CancelClaimsForGrant(claims, g)
  /\ revoked' = revoked \cup {g}
  /\ revoke' = [pc |-> "pending", grant |-> g]
  /\ UNCHANGED <<intents, greqs, regGen, pending, preqs, preqLock, current, lastGen, now, minted,
                 principal, worker, reload, exit, made, approvals, keyUses, wiped>>

RevokePending ==
  /\ revoke.pc = "pending"
  /\ pending' = Invalidated({c \in CeremonyIds : /\ pending[c] # NoAuth
                                                 /\ pending[c].grant = revoke.grant})
  /\ revoke' = IdleThread
  /\ UNCHANGED <<stores, preqs, preqLock, current, lastGen, now, minted,
                 principal, worker, reload, exit, history>>

\* revoke_grant_by_id revokes and leaves claims and handles alone.
RevokeGrantById(g) ==
  /\ "revoke" \in Actors
  /\ grants[g].state = "Active"
  /\ grants' = [grants EXCEPT ![g] = TryTransition(@, "Active", "Revoked")]
  /\ UNCHANGED <<intents, greqs, claims, regGen, pending, preqs, preqLock, current, lastGen, now,
                 minted, threads, history>>

\* principal_exit: four sections.
ExitIntents(s) ==
  /\ "exit" \in Actors /\ exit.pc = "idle"
  /\ intents' = CancelBySession(intents, s)
  /\ exit' = [pc |-> "grants", session |-> s]
  /\ UNCHANGED <<grantVars, pending, preqs, preqLock, current, lastGen, now, minted,
                 principal, worker, reload, revoke, history>>

ExitGrants ==
  LET s == exit.session
      left == RevokeSession(grants, s) IN
  /\ exit.pc = "grants"
  /\ grants' = left
  /\ greqs' = DropRequests(greqs, s)
  /\ claims' = CancelClaimsForSession(RetainAfterExit(claims, left, s), left, s)
  /\ exit' = [exit EXCEPT !.pc = "pending"]
  /\ UNCHANGED <<intents, regGen, pending, preqs, preqLock, current, lastGen, now, minted,
                 principal, worker, reload, revoke, history>>

ExitPending ==
  /\ exit.pc = "pending"
  /\ pending' = Invalidated({c \in CeremonyIds : /\ pending[c] # NoAuth
                                                 /\ pending[c].session = exit.session})
  /\ exit' = [exit EXCEPT !.pc = "preqs"]
  /\ UNCHANGED <<stores, preqs, preqLock, current, lastGen, now, minted,
                 principal, worker, reload, revoke, history>>

ExitRequests ==
  /\ exit.pc = "preqs" /\ preqLock = "free"
  /\ preqs' = CancelWaiting({i \in IntentIds : /\ preqs[i].state = "Waiting"
                                               /\ preqs[i].session = exit.session})
  /\ exit' = [exit EXCEPT !.pc = "done"]
  /\ UNCHANGED <<stores, pending, preqLock, current, lastGen, now, minted,
                 principal, worker, reload, revoke, history>>

-----------------------------------------------------------------------------
PrincipalStep == CreateIntent \/ (\E ttl \in GrantTtls : RequestGrant(ttl)) \/ InsertRequest

WorkerStep ==
  \/ PromptRefused \/ ResolveMatch \/ ResolveApprove
  \/ CheckGeneration \/ ClaimBound \/ PublishHandle \/ AuditRefuses
  \/ CheckHandle \/ ConsumeCheckGeneration \/ CheckGrant
  \/ ConsumeIntent \/ ConsumeGrantClaim \/ InvalidateCeremony \/ UseKey

ReloadStep(r) ==
  ReloadIntents(r) \/ ReloadPending(r) \/ ReloadRequests(r) \/ ReloadGrants(r) \/ ReloadCurrent(r)

ExitStep == ExitGrants \/ ExitPending \/ ExitRequests

Next ==
  \/ Tick
  \/ \E s \in Sessions, kind \in Kinds, op \in Ops, ttl \in Ttls : StartRequest(s, kind, op, ttl)
  \/ PrincipalStep
  \/ \E i \in IntentIds : CancelPending(i) \/ StartCeremony(i)
  \/ CleanupExpiredPending
  \/ \E s \in Sessions : CancelPendingForSession(s) \/ ExitIntents(s)
  \/ WorkerStep
  \/ \E s \in Sessions, op \in Ops : StartAuthorize(s, op)
  \/ \E s \in Sessions, op \in Ops, ttl \in Ttls : AdminCreate(s, op, ttl)
  \/ \E i \in IntentIds : AdminResolve(i, "Approved") \/ AdminResolve(i, "Denied")
  \/ \E r \in Reloaders : StartReload(r) \/ ReloadStep(r)
  \/ \E g \in IntentIds : AdminRevokeGrant(g) \/ RevokeGrantById(g)
  \/ RevokePending
  \/ ExitStep

Spec == Init /\ [][Next]_vars

\* Threads that are runnable run; the prompt always returns (it times out)
\* and the runtime loop sweeps the requests every 50 ms.
Fairness ==
  /\ WF_vars(Tick)
  /\ WF_vars(PrincipalStep)
  /\ WF_vars(WorkerStep)
  /\ WF_vars(CleanupExpiredPending)
  /\ \A r \in Reloaders : WF_vars(ReloadStep(r))

FairSpec == Spec /\ Fairness

-----------------------------------------------------------------------------
(* Properties *)

\* The shapes of the threads' records: a principal that is about to create its
\* intent, and one that has; a ceremony; a reload, a revocation, an exit.
Asking == [pc : {"create"}, session : Sessions, kind : {"isolated", "delegated"}, ttl : Nat,
           scope : Scope]
Asked == [pc : {"request", "insert"}, intent : IntentIds, preq : Preq]
WorkerStages == {"prompt", "approve", "bound", "claim", "publish", "consume", "checkGen",
                 "checkGrant", "consumeIntent", "consumeGrant", "finish", "abort", "use"}
Working == [pc : WorkerStages, request : IntentIds \cup {NoId}, session : Sessions, scope : Scope,
            intent : IntentIds \cup {NoId}, grant : IntentIds \cup {NoId},
            cer : CeremonyIds \cup {NoId}]
Reloading == [pc : {"intents", "pending", "preqs", "grants", "current"}, gen : Nat]
Revoking == [pc : {"pending"}, grant : IntentIds]
Exiting == [pc : {"grants", "pending", "preqs", "done"}, session : Sessions]

TypeOK ==
  /\ intents \in Store
  /\ grants \in GrantMap /\ greqs \in RequestMap /\ claims \in ClaimMap
  /\ regGen \in Nat /\ current \in Nat /\ lastGen \in Nat /\ now \in Nat
  /\ pending \in [CeremonyIds -> Auth \cup {NoAuth}]
  /\ preqs \in [IntentIds -> Preq \cup {NoPreq}]
  /\ preqLock \in {"free", "worker"}
  /\ minted \subseteq IntentIds \cup CeremonyIds
  /\ principal \in Asking \cup Asked \cup {IdlePrincipal}
  /\ worker \in Working \cup {IdleWorker}
  /\ reload \in [Reloaders -> Reloading \cup {IdleThread}]
  /\ revoke \in Revoking \cup {IdleThread} /\ exit \in Exiting \cup {IdleThread}
  /\ made \in [IntentIds -> [session : Sessions, scope : Scope] \cup {Unmade}]
  /\ approvals \subseteq IntentIds /\ wiped \subseteq IntentIds /\ revoked \subseteq IntentIds
  /\ keyUses \subseteq [cer : CeremonyIds, intent : IntentIds, session : Sessions, scope : Scope]

\* One approval, one use of the key: an intent is used by at most one
\* ceremony, and only after it was approved, although a ceremony claims by
\* tuple, may be rolled back, and competes with sweeps and reloads.
OneUsePerApproval ==
  \A u \in keyUses : /\ u.intent \in approvals
                     /\ \A v \in keyUses : u.intent = v.intent => u = v

\* The key is used for what was asked: session, operation and generation of
\* the ceremony are those the consumed intent was created with.
UsedAsAsked ==
  \A u \in keyUses : made[u.intent] = [session |-> u.session, scope |-> u.scope]

\* A request that was cancelled, denied or timed out before its approval is
\* never executed, whatever the worker was doing at that moment.
ClosedNeverUsed ==
  \A u \in keyUses :
    preqs[u.intent] # NoPreq /\ preqs[u.intent].kind = "isolated"
      => preqs[u.intent].state = "Approved"

\* A reload stops every ceremony whose intent it found unconsumed: between
\* claim and consumption the worker notices, whichever lock it holds.
ReloadStopsInFlight == \A u \in keyUses : u.intent \notin wiped

\* An intent backs at most one live authorization handle.
OneLiveHandle ==
  \A c, d \in CeremonyIds :
    (/\ pending[c].status = "valid" /\ pending[d].status = "valid"
     /\ pending[c].intent = pending[d].intent) => c = d

\* admin_revoke_grant is effective at once: a claim on the revoked grant is
\* not consumed, even by a ceremony that already checked the grant.
ConsumesLiveGrant ==
  \A c \in CeremonyIds :
    claims[c].consumed = "no" /\ claims'[c].consumed = "yes" => claims[c].grant \notin revoked
RevokedNeverConsumed == [][ConsumesLiveGrant]_vars

\* A request does not wait for ever: it is resolved, cancelled or timed out.
RequestsSettle ==
  \A i \in IntentIds : preqs[i].state = "Waiting" ~> preqs[i].state # "Waiting"

\* Ceremonies and reloads come to an end, lock waits included.
ThreadsFinish ==
  /\ worker.pc # "idle" ~> worker.pc = "idle"
  /\ \A r \in Reloaders : reload[r].pc # "idle" ~> reload[r].pc = "idle"

\* ADR 0007: "In-flight operations fail closed when their policy generation
\* or session validity changes before key use."
UseUnderCurrentGeneration ==
  [][keyUses' # keyUses => worker.scope.gen = current]_vars

\* A use of a key goes back to one approval: of that very operation, for that
\* session, of a request that was not closed before, and used up by it.
UsesApproved == OneUsePerApproval /\ UsedAsAsked /\ ClosedNeverUsed

-----------------------------------------------------------------------------
(* The inductive invariant behind them, in parts.                           *)

\* An intent in the store is the one that was asked for, no reload has removed
\* it, and beyond Pending it was approved.
IntentsKnown ==
  /\ \A i \in IntentIds : intents[i] # NoIntent =>
       /\ i \in minted \ wiped
       /\ made[i] = [session |-> intents[i].session, scope |-> intents[i].scope]
       /\ intents[i].state \in {"Approved", "Claimed", "Consumed"} => i \in approvals
  /\ wiped \subseteq minted /\ approvals \subseteq minted

\* An intent that backs a use of the key, made or about to be made, is consumed
\* for good: its id is not in the store in any other state.
Spent(i) == i \in approvals \ wiped /\ intents[i].state \in {"Consumed", "None"}
UsesSpent == \A u \in keyUses : Spent(u.intent)

\* What the worker has in hand at each stage.
Holding == {"publish", "consume", "checkGen", "checkGrant", "consumeIntent",
            "consumeGrant", "finish", "abort", "use"}
WorkerHolds ==
  /\ worker.pc \in Holding =>
       /\ worker.intent \in IntentIds \cap minted /\ worker.cer \in CeremonyIds \cap minted
       /\ made[worker.intent] = [session |-> worker.session, scope |-> worker.scope]
  /\ worker.pc \in {"consumeGrant", "finish", "use"} =>
       /\ Spent(worker.intent)
       /\ \A u \in keyUses : u.intent # worker.intent

\* A request is entered once, after its intent, and does not change while the
\* worker has it locked; when administrators approve no intents by hand, an
\* approved one has a request, which is closed with it.
RequestsSettled ==
  /\ worker.pc = "approve" =>
       /\ preqLock = "worker" /\ worker.intent \in IntentIds
       /\ preqs[worker.intent] # NoPreq
  /\ \A i \in IntentIds : preqs[i] # NoPreq => i \in minted
  /\ principal.pc \in {"request", "insert"} =>
       principal.intent \in minted /\ preqs[principal.intent] = NoPreq
  /\ "admin" \notin Actors =>
       \A i \in approvals : /\ preqs[i] # NoPreq
                            /\ preqs[i].kind = "isolated" => preqs[i].state = "Approved"

\* A grant is made of an open request, once; a revoked one is not made again
\* and no claim on it is left to consume.
GrantsOnce ==
  /\ \A i \in IntentIds :
       /\ greqs[i].status = "open" => grants[i] = NoGrant /\ i \notin revoked
       /\ i \in revoked => grants[i].state # "Active"
       /\ i \notin minted => grants[i] = NoGrant /\ greqs[i] = NoRequest
  /\ principal.pc = "request" =>
       grants[principal.intent] = NoGrant /\ principal.intent \notin revoked
  /\ \A c \in CeremonyIds : claims[c].consumed = "no" => claims[c].grant \notin revoked
  /\ revoked \subseteq minted

\* A live handle is that of an intent that is claimed, consumed or gone, and
\* the handle of the ceremony at work is its own.
HandlesHeld ==
  /\ \A c \in CeremonyIds : pending[c] # NoAuth => c \in minted
  /\ \A c \in CeremonyIds : pending[c].status = "valid" =>
       pending[c].intent \in minted /\ intents[pending[c].intent].state \in {"Claimed", "Consumed", "None"}
  /\ worker.pc = "publish" =>
       /\ pending[worker.cer] = NoAuth
       /\ intents[worker.intent].state \in {"Claimed", "None"}
       /\ \A c \in CeremonyIds : pending[c].status = "valid" => pending[c].intent # worker.intent
  /\ worker.pc \in Holding \ {"publish"} =>
       /\ pending[worker.cer] # NoAuth /\ pending[worker.cer].intent = worker.intent
       /\ \A c \in CeremonyIds :
            pending[c].status = "valid" /\ pending[c].intent = worker.intent => c = worker.cer

IInv ==
  /\ TypeOK /\ IntentsKnown /\ UsesSpent /\ WorkerHolds /\ RequestsSettled /\ GrantsOnce
  /\ HandlesHeld /\ OneLiveHandle /\ OneUsePerApproval /\ UsedAsAsked
=============================================================================
