----------------------------- MODULE SignService -----------------------------
(***************************************************************************)
(* The signing service of one profile (agent/sign.rs, agent/register.rs):  *)
(* browsers of the profile send POST /sign and POST /register with the     *)
(* bearer token of their lease.  A token's requests share one budget,      *)
(* which also answers repetitions; what it admits runs under the backend's *)
(* operation_lock and then its storage lock.                               *)
(*                                                                         *)
(*   conn    a connection thread (handle_http_connection)                  *)
(*   launch  a browser launch, with browser_manager locked throughout      *)
(*           (handle_launch_browser or handle_ensure_browser)              *)
(*                                                                         *)
(* The maps of SignContextRegistry and the grant registries have short     *)
(* locks of their own: one access is one action.  operation_lock, the      *)
(* storage lock and browser_manager are kept across accesses and are       *)
(* variables.  Requests name one relying party and one credential; policy, *)
(* origin and format checks are a choice to refuse.                        *)
(***************************************************************************)
EXTENDS Integers, FiniteSets, Sequences

CONSTANTS Tokens,      \* bearer tokens, one for each browser launched
          Bodies,      \* request bodies (their digests)
          Conns,       \* connection threads, at most MAX_CONNECTIONS
          Enrolments,  \* registration grants
          Kinds,       \* launches: subset of {"admin", "ensure"}
          MaxOps,      \* max_operations of the profile
          CacheSize,   \* MAX_COMPLETED_OUTCOMES
          MaxCount     \* the largest signature counter (u32::MAX)

ASSUME SignBoundsAssumption == /\ MaxOps \in Nat /\ MaxCount \in Nat \ {0}
                               /\ CacheSize \in Nat \ {0}
ASSUME ThreadsAssumption == Conns \cap {"free", "launch"} = {}

VARIABLES sign,     \* entries: token -> "none", or the kind of launch it is bound by
          reg,      \* registration_entries: the tokens in it
          budget,   \* token -> digests used and in flight, completed outcomes, oldest first
          lease,    \* token -> state of its browser lease
          grant,    \* token -> state of the grant it signs under
          enrol,    \* registration grants
          sec,      \* the second the last registration grant was issued in
          locks, conn, launch,
          count,    \* the stored signature counter
          uses,     \* history: signatures and credentials made
          answers   \* history: outcomes sent, by token and body

vars == <<sign, reg, budget, lease, grant, enrol, sec, locks, conn, launch, count, uses, answers>>
registry == <<sign, reg, lease, grant, launch>>
enrolment == <<enrol, sec>>
history == <<uses, answers>>

Idle == [pc |-> "idle"]
NoEnrol == [state |-> "none"]
EmptyBudget == [used |-> {}, flight |-> {}, done |-> <<>>]
Refused == [res |-> "refused", n |-> 0]
Locks == {"operation", "storage", "manager"}
Live == {"pending", "active"}

Init ==
  /\ sign = [t \in Tokens |-> "none"] /\ reg = {}
  /\ budget = [t \in Tokens |-> EmptyBudget]
  /\ lease = [t \in Tokens |-> "none"] /\ grant = [t \in Tokens |-> "none"]
  /\ enrol = [g \in Enrolments |-> NoEnrol] /\ sec = 0
  /\ locks = [l \in Locks |-> "free"]
  /\ conn = [c \in Conns |-> Idle] /\ launch = Idle
  /\ count \in 0 .. MaxCount      \* of the stored credential
  /\ uses = {} /\ answers = {}

Take(l, who) == locks[l] = "free" /\ locks' = [locks EXCEPT ![l] = who]
ReleaseBy(who) == locks' = [l \in Locks |-> IF locks[l] = who THEN "free" ELSE locks[l]]
Goto(c, rec) == conn' = [conn EXCEPT ![c] = rec]
At(c, pc) == Goto(c, [conn[c] EXCEPT !.pc = pc])
Answer(c, out) == answers' = answers \cup {[token |-> conn[c].token, body |-> conn[c].body, out |-> out]}

-----------------------------------------------------------------------------
(* A browser launch.                                                        *)

\* An administrator's launch reuses a live lease.  The registration entry is
\* made before the process, and when the process does not start only
\* handle_ensure_browser takes it back.
StartLaunch(t, kind) ==
  /\ launch = Idle /\ lease[t] = "none" /\ t \notin reg
  /\ kind = "admin" => \A o \in Tokens : lease[o] \notin Live
  /\ \/ /\ Take("manager", "launch")
        /\ reg' = reg \cup {t}
        /\ lease' = [lease EXCEPT ![t] = "pending"]
        /\ launch' = [pc |-> "scan", token |-> t, kind |-> kind]
     \/ /\ locks.manager = "free" /\ kind = "admin"
        /\ reg' = reg \cup {t}
        /\ UNCHANGED <<lease, launch, locks>>
  /\ UNCHANGED <<sign, grant, budget, enrolment, conn, count, history>>

\* The credentials in scope are listed under the storage lock.
LaunchScan ==
  /\ launch.pc = "scan" /\ locks.storage = "free"
  /\ launch' = [launch EXCEPT !.pc = "grant"]
  /\ UNCHANGED <<sign, reg, lease, grant, budget, enrolment, locks, conn, count, history>>

\* handle_ensure_browser fails after the process has started: it undoes the
\* entries and the lease; a grant that was approved stays.
LaunchFails ==
  LET t == launch.token IN
  /\ launch.pc \in {"grant", "finish"} /\ launch.kind = "ensure"
  /\ sign' = [sign EXCEPT ![t] = "none"] /\ reg' = reg \ {t}
  /\ lease' = [lease EXCEPT ![t] = "ended"]
  /\ launch' = Idle /\ ReleaseBy("launch")
  /\ UNCHANGED <<grant, budget, enrolment, conn, count, history>>

\* admin_request_grant, admin_approve_grant, register_pending, bind_lease; an
\* entry that is not bound is never found.
LaunchBind ==
  /\ launch.pc = "grant"
  /\ grant' = [grant EXCEPT ![launch.token] = "active"]
  /\ sign' = [sign EXCEPT ![launch.token] = launch.kind]
  /\ launch' = [launch EXCEPT !.pc = "finish"]
  /\ UNCHANGED <<reg, lease, budget, enrolment, locks, conn, count, history>>

\* The browser runs without a sign entry when no credential is in scope, and
\* after an administrator's launch that could not get a grant.
LaunchFinish ==
  /\ launch.pc \in {"grant", "finish"}
  /\ launch' = Idle /\ ReleaseBy("launch")
  /\ UNCHANGED <<sign, reg, lease, grant, budget, enrolment, conn, count, history>>

\* revoke_by_lease when a session ends or its browser exits.  The
\* registration entry of the token stays.
RevokeByLease(t) ==
  /\ lease[t] \in Live /\ sign[t] # "none"
  /\ launch # Idle => launch.token # t
  /\ sign' = [sign EXCEPT ![t] = "none"]
  /\ UNCHANGED <<reg, lease, grant, launch, budget, enrolment, locks, conn, count, history>>

\* revoke, terminate, cleanup and remove on the browser manager.
EndLease(t) ==
  /\ lease[t] \in Live /\ sign[t] = "none" /\ locks.manager = "free"
  /\ lease' = [lease EXCEPT ![t] = "ended"]
  /\ UNCHANGED <<sign, reg, grant, launch, budget, enrolment, locks, conn, count, history>>

\* The grant is revoked, expires or disappears with a reload.
EndGrant(t) ==
  /\ grant[t] = "active"
  /\ grant' = [grant EXCEPT ![t] = "ended"]
  /\ UNCHANGED <<sign, reg, lease, launch, budget, enrolment, locks, conn, count, history>>

-----------------------------------------------------------------------------
(* Registration grants: RegistrationGrantRegistry.                          *)

\* request_registration: a clock seen to run backwards revokes them all.
RequestRegistration(g) ==
  /\ enrol[g] = NoEnrol
  /\ \/ \E s \in IF \A h \in Enrolments : enrol[h] = NoEnrol THEN {sec} ELSE {sec, sec + 1} :
          /\ enrol' = [enrol EXCEPT ![g] = [state |-> "Active", issued |-> s, fresh |-> "yes"]]
          /\ sec' = s
     \/ /\ enrol' = [h \in Enrolments |-> IF enrol[h].state = "Active"
                                          THEN [enrol[h] EXCEPT !.state = "Revoked"] ELSE enrol[h]]
        /\ UNCHANGED sec
  /\ UNCHANGED <<registry, budget, locks, conn, count, history>>

RegistrationExpires(g) ==
  /\ enrol[g].state = "Active" /\ enrol[g].fresh = "yes"
  /\ enrol' = [enrol EXCEPT ![g] = [@ EXCEPT !.fresh = "no"]]
  /\ UNCHANGED <<sec, registry, budget, locks, conn, count, history>>

Usable == {g \in Enrolments : enrol[g].state = "Active" /\ enrol[g].fresh = "yes"}

\* active_registration_grant: a latest one; issue times are whole seconds.
ActiveRegistration == {g \in Usable : \A h \in Usable : enrol[h].issued <= enrol[g].issued}

-----------------------------------------------------------------------------
(* The budget: RequestBudget and InFlightGuard.                             *)

Cached(t, b) == {i \in DOMAIN budget[t].done : budget[t].done[i].body = b}

\* resolve: the oldest outcome makes room for the new one.
Completed(t, b, out) ==
  LET d == budget[t].done IN
  [budget[t] EXCEPT !.flight = @ \ {b},
                    !.done = Append(IF Len(d) >= CacheSize THEN Tail(d) ELSE d,
                                    [body |-> b, out |-> out])]

\* COMPLETED_OUTCOME_TTL has passed for the oldest outcome.
OutcomeExpires(t) ==
  /\ budget[t].done # <<>>
  /\ budget' = [budget EXCEPT ![t].done = Tail(@)]
  /\ UNCHANGED <<registry, enrolment, locks, conn, count, history>>

-----------------------------------------------------------------------------
(* A connection: handle_http_connection.                                    *)

\* The bearer token is looked up; the rest of the body is still to be read.
\* A token that is not found is a 401.
Accept(c, t, path, b) ==
  /\ conn[c] = Idle
  /\ IF path = "sign" THEN sign[t] # "none" ELSE t \in reg
  /\ Goto(c, [pc |-> "claim", token |-> t, path |-> path, body |-> b,
              via |-> sign[t], grant |-> t, out |-> Refused])
  /\ UNCHANGED <<registry, budget, enrolment, locks, count, history>>

\* Mutant: only a request in flight or in the cache counts as a repetition.
ClaimForgetful(c) ==
  LET t == conn[c].token  b == conn[c].body IN
  /\ conn[c].pc = "claim"
  /\ \/ /\ b \in budget[t].flight
        /\ At(c, "wait") /\ UNCHANGED <<budget, answers>>
     \/ /\ b \notin budget[t].flight
        /\ \E i \in Cached(t, b) : Answer(c, budget[t].done[i].out)
        /\ Goto(c, Idle) /\ UNCHANGED budget
     \/ /\ b \notin budget[t].flight /\ Cached(t, b) = {}
        /\ IF Cardinality(budget[t].used) >= MaxOps
           THEN Goto(c, Idle) /\ UNCHANGED budget
           ELSE /\ budget' = [budget EXCEPT ![t].used = @ \cup {b}, ![t].flight = @ \cup {b}]
                /\ At(c, "handle")
        /\ UNCHANGED answers
  /\ UNCHANGED <<registry, enrolment, locks, count, uses>>

\* claim: a repetition waits for the request in flight, gets its cached
\* outcome or is refused as replayed; a new request is within the limit or
\* refused as exhausted.
ClaimUpTo(c, max) ==
  LET t == conn[c].token  b == conn[c].body IN
  /\ conn[c].pc = "claim"
  /\ \/ /\ b \in budget[t].used /\ b \in budget[t].flight
        /\ At(c, "wait") /\ UNCHANGED <<budget, answers>>
     \/ /\ b \in budget[t].used /\ b \notin budget[t].flight
        /\ \/ Cached(t, b) = {} /\ UNCHANGED answers
           \/ \E i \in Cached(t, b) : Answer(c, budget[t].done[i].out)
        /\ Goto(c, Idle) /\ UNCHANGED budget
     \/ /\ b \notin budget[t].used
        /\ IF Cardinality(budget[t].used) >= max
           THEN Goto(c, Idle) /\ UNCHANGED budget
           ELSE /\ budget' = [budget EXCEPT ![t].used = @ \cup {b}, ![t].flight = @ \cup {b}]
                /\ At(c, "handle")
        /\ UNCHANGED answers
  /\ UNCHANGED <<registry, enrolment, locks, count, uses>>

\* Mutant: the limit is off by one.
ClaimOneMore(c) == ClaimUpTo(c, MaxOps + 1)

Claim(c) == ClaimUpTo(c, MaxOps)

\* InFlightEntry::wait gives up after thirty seconds.
WaitTimesOut(c) ==
  /\ conn[c].pc = "wait"
  /\ Goto(c, Idle)
  /\ UNCHANGED <<registry, budget, enrolment, locks, count, history>>

-----------------------------------------------------------------------------
(* SignHandler::sign and RegisterHandler::register.                         *)

\* The handler returns: its locks are dropped and the answer is sent.
Return(c, out) ==
  /\ Goto(c, [conn[c] EXCEPT !.pc = "resolve", !.out = out])
  /\ ReleaseBy(c) /\ Answer(c, out)

\* A check fails, with or without the locks: format and origin; the grant,
\* policy and verification; selection, exclusion, credProtect and the audit.
Refuse(c) ==
  /\ conn[c].pc \in {"handle", "grant", "storage"}
  /\ Return(c, Refused)
  /\ UNCHANGED <<registry, budget, enrolment, count, uses>>

LockOperation(c) ==
  /\ conn[c].pc = "handle"
  /\ Take("operation", c) /\ At(c, "grant")
  /\ UNCHANGED <<registry, budget, enrolment, count, history>>

\* Mutant: a grant that was active at the launch is taken to be so still.
CheckSignGrantNever(c) ==
  /\ conn[c].pc = "grant" /\ conn[c].path = "sign"
  /\ At(c, "storage")
  /\ UNCHANGED <<registry, budget, enrolment, locks, count, history>>

\* resolve_grant_for_sign
CheckSignGrant(c) ==
  /\ conn[c].pc = "grant" /\ conn[c].path = "sign"
  /\ grant[conn[c].token] = "active"
  /\ At(c, "storage")
  /\ UNCHANGED <<registry, budget, enrolment, locks, count, history>>

\* active_registration_grant
CheckRegistrationGrant(c) ==
  /\ conn[c].pc = "grant" /\ conn[c].path = "register"
  /\ \E g \in ActiveRegistration : Goto(c, [conn[c] EXCEPT !.pc = "storage", !.grant = g])
  /\ UNCHANGED <<registry, budget, enrolment, locks, count, history>>

\* The storage lock; then select_credential and the audit record.
SelectCredential(c) ==
  /\ conn[c].pc = "storage" /\ conn[c].path = "sign"
  /\ Take("storage", c) /\ At(c, "count")
  /\ UNCHANGED <<registry, budget, enrolment, count, history>>

\* The storage lock; then the exclude list and the audit record.
CheckExcluded(c) ==
  /\ conn[c].pc = "storage" /\ conn[c].path = "register"
  /\ Take("storage", c) /\ At(c, "consume")
  /\ UNCHANGED <<registry, budget, enrolment, count, history>>

\* Mutant: the counter does not saturate.
WriteCountPastMax(c) ==
  /\ conn[c].pc = "count"
  /\ count' = count + 1
  /\ Goto(c, [conn[c] EXCEPT !.pc = "key", !.out = [res |-> "signed", n |-> count + 1]])
  /\ UNCHANGED <<registry, budget, enrolment, locks, history>>

\* Mutant: a counter that cannot be stored is used all the same.
WriteCountBestEffort(c) ==
  /\ conn[c].pc = "count"
  /\ LET n == IF count < MaxCount THEN count + 1 ELSE MaxCount IN
     /\ count' \in {count, n}
     /\ Goto(c, [conn[c] EXCEPT !.pc = "key", !.out = [res |-> "signed", n |-> n]])
  /\ UNCHANGED <<registry, budget, enrolment, locks, history>>

\* The next counter (saturating) is stored before the signature is made.  A
\* store that fails may have replaced the file already.  The credential is
\* discoverable and the counter not configured constant: else it is always 0.
WriteCount(c) ==
  LET n == IF count < MaxCount THEN count + 1 ELSE MaxCount IN
  /\ conn[c].pc = "count"
  /\ \/ /\ count' = n
        /\ Goto(c, [conn[c] EXCEPT !.pc = "key", !.out = [res |-> "signed", n |-> n]])
        /\ UNCHANGED <<locks, answers>>
     \/ Return(c, Refused) /\ count' \in {count, n}
  /\ UNCHANGED <<registry, budget, enrolment, uses>>

\* The signature is handed to the handler and on to the browser.
Signed(c) ==
  LET t == conn[c].token IN
  /\ uses' = uses \cup {[token |-> t, body |-> conn[c].body, made |-> conn[c].out,
                        by |-> t, late |-> grant[t], nth |-> Cardinality(uses)]}
  /\ Return(c, conn[c].out)

\* The key signs, or fails to.  For a browser of handle_ensure_browser the
\* lease is looked at before the signature is handed out.
Sign(c) ==
  /\ conn[c].pc = "key"
  /\ \/ Return(c, Refused) /\ UNCHANGED uses
     \/ conn[c].via = "ensure" /\ At(c, "activate") /\ UNCHANGED <<locks, history>>
     \/ conn[c].via = "admin" /\ Signed(c)
  /\ UNCHANGED <<registry, budget, enrolment, count>>

\* AssertionActivatingKeyProvider: browser_manager, under the storage lock.
Activate(c) ==
  LET t == conn[c].token IN
  /\ conn[c].pc = "activate" /\ locks.manager = "free"
  /\ IF lease[t] \in Live
     THEN Signed(c) /\ lease' = [lease EXCEPT ![t] = "active"]
     ELSE Return(c, Refused) /\ UNCHANGED <<lease, uses>>
  /\ UNCHANGED <<sign, reg, grant, launch, budget, enrolment, count>>

\* Mutant: the registration grant is checked and not consumed.
ConsumeKeeping(c) ==
  /\ conn[c].pc = "consume"
  /\ enrol[conn[c].grant].state = "Active" /\ At(c, "write")
  /\ UNCHANGED <<registry, budget, enrolment, locks, count, history>>

\* consume_registration_grant, whatever its deadline by now.
Consume(c) ==
  LET g == conn[c].grant IN
  /\ conn[c].pc = "consume"
  /\ IF enrol[g].state = "Active"
     THEN /\ enrol' = [enrol EXCEPT ![g] = [@ EXCEPT !.state = "Revoked"]]
          /\ At(c, "write") /\ UNCHANGED <<locks, answers>>
     ELSE Return(c, Refused) /\ UNCHANGED enrol
  /\ UNCHANGED <<sec, registry, budget, count, uses>>

\* Key generation and the write of the credential, or the failure of either.
WriteCredential(c) ==
  LET new == [res |-> "registered", n |-> Cardinality(uses)] IN
  /\ conn[c].pc = "write"
  /\ \/ Return(c, Refused) /\ UNCHANGED uses
     \/ /\ uses' = uses \cup {[token |-> conn[c].token, body |-> conn[c].body, made |-> new,
                              by |-> conn[c].grant, late |-> "active", nth |-> Cardinality(uses)]}
        /\ Return(c, new)
  /\ UNCHANGED <<registry, budget, enrolment, count>>

\* Mutant: waiters are told that the operation failed.
ResolveFailing(c) ==
  LET t == conn[c].token  b == conn[c].body
      waiting == {d \in Conns : conn[d].pc = "wait" /\ conn[d].token = t /\ conn[d].body = b} IN
  /\ conn[c].pc = "resolve"
  /\ budget' = [budget EXCEPT ![t] = Completed(t, b, conn[c].out)]
  /\ conn' = [d \in Conns |-> IF d = c \/ d \in waiting THEN Idle ELSE conn[d]]
  /\ answers' = IF waiting = {} THEN answers
                ELSE answers \cup {[token |-> t, body |-> b, out |-> Refused]}
  /\ UNCHANGED <<registry, enrolment, locks, count, uses>>

\* InFlightGuard::resolve: the outcome is kept and those who wait for it are
\* answered with it.
Resolve(c) ==
  LET t == conn[c].token  b == conn[c].body
      waiting == {d \in Conns : conn[d].pc = "wait" /\ conn[d].token = t /\ conn[d].body = b} IN
  /\ conn[c].pc = "resolve"
  /\ budget' = [budget EXCEPT ![t] = Completed(t, b, conn[c].out)]
  /\ conn' = [d \in Conns |-> IF d = c \/ d \in waiting THEN Idle ELSE conn[d]]
  /\ answers' = IF waiting = {} THEN answers
                ELSE answers \cup {[token |-> t, body |-> b, out |-> conn[c].out]}
  /\ UNCHANGED <<registry, enrolment, locks, count, uses>>

-----------------------------------------------------------------------------
LaunchStep == LaunchScan \/ LaunchFails \/ LaunchBind \/ LaunchFinish
SignStep(c) == CheckSignGrant(c) \/ SelectCredential(c) \/ WriteCount(c) \/ Sign(c) \/ Activate(c)
RegisterStep(c) == \/ CheckRegistrationGrant(c) \/ CheckExcluded(c)
                   \/ Consume(c) \/ WriteCredential(c)
ConnStep(c) == \/ Claim(c) \/ WaitTimesOut(c) \/ Refuse(c) \/ LockOperation(c)
               \/ SignStep(c) \/ RegisterStep(c) \/ Resolve(c)

Next ==
  \/ \E t \in Tokens : \/ \E k \in Kinds : StartLaunch(t, k)
                       \/ RevokeByLease(t) \/ EndLease(t) \/ EndGrant(t) \/ OutcomeExpires(t)
  \/ LaunchStep
  \/ \E g \in Enrolments : RequestRegistration(g) \/ RegistrationExpires(g)
  \/ \E c \in Conns : \/ \E t \in Tokens, p \in {"sign", "register"}, b \in Bodies : Accept(c, t, p, b)
                      \/ ConnStep(c)

Spec == Init /\ [][Next]_vars

-----------------------------------------------------------------------------
(* Properties *)

Outcome == [res : {"refused", "signed", "registered"}, n : Nat]

Result == [body : Bodies, out : Outcome]
Stages == {"claim", "wait", "handle", "grant", "storage", "count", "key", "activate",
           "consume", "write", "resolve"}
Request == [pc : Stages, token : Tokens, path : {"sign", "register"}, body : Bodies,
            via : Kinds \cup {"none"}, grant : Tokens \cup Enrolments, out : Outcome]
Said == [token : Tokens, body : Bodies, out : Outcome]
Enrolment == [state : {"Active", "Revoked"}, issued : Nat, fresh : {"yes", "no"}]

TypeOK ==
  /\ sign \in [Tokens -> Kinds \cup {"none"}] /\ reg \subseteq Tokens
  /\ budget \in [Tokens -> [used : SUBSET Bodies, flight : SUBSET Bodies, done : Seq(Result)]]
  /\ lease \in [Tokens -> Live \cup {"none", "ended"}]
  /\ grant \in [Tokens -> {"none", "active", "ended"}]
  /\ enrol \in [Enrolments -> Enrolment \cup {NoEnrol}] /\ sec \in Nat
  /\ locks \in [Locks -> Conns \cup {"free", "launch"}]
  /\ conn \in [Conns -> Request \cup {Idle}]
  /\ launch \in [pc : {"scan", "grant", "finish"}, token : Tokens, kind : Kinds] \cup {Idle}
  /\ count \in 0 .. MaxCount /\ IsFiniteSet(uses) /\ answers \subseteq Said

\* A body is executed once for its token: repetitions that find no cached
\* outcome any more, because it has expired or was evicted, are refused and
\* not signed again.
OneUsePerBody == \A u, v \in uses : (u.token = v.token /\ u.body = v.body) => u = v

\* Everyone who is told the outcome of a body sent with a token is told the
\* same: the one who ran it, those who waited for it (and did not give up) and
\* those answered from the cache.
SameAnswer == \A a, b \in answers : (a.token = b.token /\ a.body = b.body) => a = b

\* The operations of a browser, signatures and registrations together, stay
\* within max_operations, whatever failed in between.
WithinBudget == \A t \in Tokens : Cardinality({u \in uses : u.token = t}) <= MaxOps

\* Two signatures never carry the same counter before the counter saturates,
\* although counters are lost to failed signatures.
CountersDistinct ==
  \A u, v \in uses :
    (u.made.res = "signed" /\ u.made = v.made /\ u.made.n < MaxCount) => u = v

\* A registration grant makes one credential, with several requests of the
\* profile's browsers under way at once.
OneCredentialPerGrant ==
  \A u, v \in uses : (u.made.res = "registered" /\ v.made.res = "registered" /\ u.by = v.by) => u = v

\* Once a grant has ended at most one signature is still made under it, the
\* one that had passed its check: the others wait for operation_lock first.
RevocationLeavesOne ==
  \A t \in Tokens :
    Cardinality({u \in uses : u.token = t /\ u.made.res = "signed" /\ u.late # "active"}) <= 1

\* Signing with a token: a body is signed once, every time it is asked it gets
\* the same answer, and no more bodies are signed than the profile allows,
\* whichever connections carry them at once.
UsesBounded == OneUsePerBody /\ SameAnswer /\ WithinBudget

\* Keys: no two signatures carry one counter, a registration grant makes one
\* credential, and a revocation leaves at most the one on its way.
KeysAccounted == CountersDistinct /\ OneCredentialPerGrant /\ RevocationLeavesOne

-----------------------------------------------------------------------------
(* The inductive invariant behind the two, in parts.                        *)

\* Which threads hold which lock.
HasOperation == {"grant", "storage", "count", "key", "activate", "consume", "write"}
HasStorage == {"count", "key", "activate", "consume", "write"}
LocksHeld ==
  \A c \in Conns : /\ conn[c].pc \in HasOperation => locks.operation = c
                   /\ conn[c].pc \in HasStorage => locks.storage = c

\* A request that was admitted and has not been resolved is the only one with
\* its token and body, and until it returns nothing was made or said for it.
Running == {"handle", "grant", "storage", "count", "key", "activate", "consume", "write"}
Admitted == Running \cup {"resolve"}
Owned ==
  \A c \in Conns : conn[c].pc \in Admitted =>
    LET t == conn[c].token  b == conn[c].body IN
    /\ b \in budget[t].flight
    /\ \A d \in Conns \ {c} : conn[d].pc \in Admitted => conn[d].token # t \/ conn[d].body # b
    /\ conn[c].pc \in Running =>
         /\ \A u \in uses : u.token # t \/ u.body # b
         /\ \A a \in answers : a.token # t \/ a.body # b
    /\ conn[c].pc = "resolve" => \A a \in answers : a.token = t /\ a.body = b => a.out = conn[c].out

\* What the budget of a token remembers covers everything that was made, said
\* or kept for the token, and what is kept agrees with what was said.
Remembered ==
  /\ \A t \in Tokens :
       /\ budget[t].flight \subseteq budget[t].used
       /\ IsFiniteSet(budget[t].used) /\ Cardinality(budget[t].used) <= MaxOps
       /\ \A i \in DOMAIN budget[t].done :
            /\ budget[t].done[i].body \in budget[t].used \ budget[t].flight
            /\ \A j \in DOMAIN budget[t].done :
                 budget[t].done[j].body = budget[t].done[i].body => budget[t].done[j] = budget[t].done[i]
            /\ \A a \in answers : a.token = t /\ a.body = budget[t].done[i].body
                                    => a.out = budget[t].done[i].out
  /\ \A u \in uses : u.token \in Tokens /\ u.body \in budget[u.token].used
  /\ \A a \in answers : a.token \in Tokens /\ a.body \in budget[a.token].used

\* The counter is ahead of every signature that was handed out, and of the one
\* that is being made.
CountAhead ==
  /\ \A u \in uses : u.made.res = "signed" => u.made.n \in 0 .. count
  /\ \A c \in Conns : conn[c].pc \in {"key", "activate"} =>
       /\ conn[c].out.res = "signed" /\ conn[c].out.n \in 0 .. count
       /\ conn[c].out.n < MaxCount =>
            \A u \in uses : u.made.res = "signed" => u.made.n < conn[c].out.n

\* A registration grant that made a credential, or is about to, is spent.
EnrolmentsSpent ==
  /\ \A u \in uses : u.made.res = "registered" => u.by \in Enrolments /\ enrol[u.by].state = "Revoked"
  /\ \A c \in Conns :
       /\ conn[c].pc \in {"consume", "write"} \/ (conn[c].pc = "storage" /\ conn[c].path = "register")
            => conn[c].grant \in Enrolments
       /\ conn[c].pc = "write" =>
            /\ enrol[conn[c].grant].state = "Revoked"
            /\ \A u \in uses : u.made.res = "registered" => u.by # conn[c].grant

\* A grant that has ended never comes back, because a token is launched once;
\* who has passed the check of a grant holds operation_lock, and no late
\* signature was made under that grant before.
LateUse(u) == u.made.res = "signed" /\ u.late # "active"
GrantsEnd ==
  /\ \A t \in Tokens : lease[t] = "none" => grant[t] = "none"
  /\ launch # Idle => lease[launch.token] # "none"
  /\ launch.pc \in {"scan", "grant"} => grant[launch.token] = "none"
  /\ \A u \in uses : LateUse(u) => grant[u.token] = "ended"
  /\ \A u, v \in uses : LateUse(u) /\ LateUse(v) /\ u.token = v.token => u = v
  /\ \A c \in Conns :
       conn[c].pc \in {"count", "key", "activate"} \/ (conn[c].pc = "storage" /\ conn[c].path = "sign") =>
         /\ grant[conn[c].token] # "none"
         /\ \A u \in uses : LateUse(u) => u.token # conn[c].token

IInv ==
  /\ TypeOK /\ LocksHeld /\ Owned /\ Remembered /\ CountAhead /\ EnrolmentsSpent /\ GrantsEnd
  /\ OneUsePerBody /\ SameAnswer /\ CountersDistinct /\ OneCredentialPerGrant
=============================================================================
