------------------------- MODULE SignServiceProofs -------------------------
(***************************************************************************)
(* Proofs about the signing service, for every number of browsers, bodies, *)
(* connections and registration grants, every budget and every size of the *)
(* cache of outcomes.                                                      *)
(***************************************************************************)
EXTENDS SignService, FiniteSetTheorems, TLAPS

-----------------------------------------------------------------------------
(* How a connection moves.                                                  *)

\* A connection goes from one stage to another with its request.
Moves(c, r) ==
  /\ conn[c] \in Request /\ r \in Request
  /\ r.token = conn[c].token /\ r.body = conn[c].body /\ r.path = conn[c].path
  /\ r.via = conn[c].via
  /\ conn' = [conn EXCEPT ![c] = r]

\* A step of the handler that neither makes nor says anything.
Progress(c, r) ==
  /\ conn[c].pc \in Running /\ r.pc \in Running
  /\ Moves(c, r)
  /\ UNCHANGED <<budget, uses, answers>>

\* What a handler makes: a signature once the counter is stored, or a credential.
Makes(c, u) ==
  /\ u.token = conn[c].token /\ u.body = conn[c].body
  /\ \/ /\ conn[c].pc \in {"key", "activate"}
        /\ u.made = conn[c].out /\ u.late = grant[conn[c].token]
     \/ /\ conn[c].pc = "write"
        /\ u.made.res = "registered" /\ u.by = conn[c].grant

\* The handler returns; made is what it made, at most one thing.
Returns(c, r, made) ==
  /\ conn[c].pc \in Running /\ r.pc = "resolve"
  /\ Moves(c, r)
  /\ answers' = answers \cup {[token |-> conn[c].token, body |-> conn[c].body, out |-> r.out]}
  /\ uses' = uses \cup made
  /\ \A u \in made : Makes(c, u)
  /\ \A u, v \in made : u = v
  /\ ReleaseBy(c)
  /\ UNCHANGED <<budget, enrol, grant, launch>>

\* A connection that is not idle carries a request.
LEMMA Carries ==
  ASSUME TypeOK, NEW c \in Conns, conn[c].pc # "idle"
  PROVE  conn[c] \in Request
BY DEF TypeOK, Idle

\* Changing the stage of a request leaves the rest of it alone.
LEMMA StageSet ==
  ASSUME NEW q \in Request, NEW pc \in Stages
  PROVE  LET r == [q EXCEPT !.pc = pc] IN
         /\ r \in Request /\ r.pc = pc /\ r.token = q.token /\ r.body = q.body
         /\ r.path = q.path /\ r.via = q.via /\ r.out = q.out /\ r.grant = q.grant
BY DEF Request

\* At moves a connection and keeps its outcome and grant.
LEMMA AtMoves ==
  ASSUME TypeOK, NEW c \in Conns, conn[c].pc # "idle", NEW pc \in Stages, At(c, pc)
  PROVE  \E r : Moves(c, r) /\ r.pc = pc /\ r.out = conn[c].out /\ r.grant = conn[c].grant
<1>1. conn[c] \in Request
  BY Carries
<1> DEFINE r == [conn[c] EXCEPT !.pc = pc]
<1>3. /\ r \in Request /\ r.pc = pc /\ r.token = conn[c].token /\ r.body = conn[c].body
      /\ r.path = conn[c].path /\ r.via = conn[c].via /\ r.out = conn[c].out
      /\ r.grant = conn[c].grant
  BY <1>1, StageSet
<1>4. conn' = [conn EXCEPT ![c] = r]
  BY DEF At, Goto
<1>5. Moves(c, r)
  BY <1>1, <1>3, <1>4 DEF Moves
<1> HIDE DEF r
<1> QED BY <1>3, <1>5

\* Return moves a connection to resolve, with the outcome it sends.
LEMMA ReturnMoves ==
  ASSUME TypeOK, NEW c \in Conns, conn[c].pc \in Running, NEW out \in Outcome, Return(c, out),
         NEW made, uses' = uses \cup made,
         \A u \in made : Makes(c, u),
         \A u, v \in made : u = v, UNCHANGED <<budget, enrol, grant, launch>>
  PROVE  \E r : Returns(c, r, made) /\ r.out = out
<1>1. conn[c] \in Request
  BY Carries DEF Running
<1> DEFINE r == [conn[c] EXCEPT !.pc = "resolve", !.out = out]
<1>3. /\ r \in Request /\ r.pc = "resolve" /\ r.token = conn[c].token /\ r.body = conn[c].body
      /\ r.path = conn[c].path /\ r.via = conn[c].via /\ r.out = out
  BY <1>1 DEF Request, Stages
<1>4. conn' = [conn EXCEPT ![c] = r] /\ ReleaseBy(c)
      /\ answers' = answers \cup {[token |-> conn[c].token, body |-> conn[c].body, out |-> out]}
  BY DEF Return, Goto, Answer
<1>5. Moves(c, r)
  BY <1>1, <1>3, <1>4 DEF Moves
<1>6. r.out = out /\ r.pc = "resolve"
  BY <1>3
<1> HIDE DEF r
<1>7. Returns(c, r, made)
  BY <1>4, <1>5, <1>6 DEF Returns
<1> QED BY <1>6, <1>7

\* The handler's quiet steps.
LEMMA ProgressSteps ==
  ASSUME TypeOK, NEW c \in Conns,
         \/ LockOperation(c) \/ CheckSignGrant(c) \/ SelectCredential(c) \/ CheckExcluded(c)
         \/ CheckRegistrationGrant(c)
         \/ WriteCount(c) /\ conn'[c].pc = "key"
         \/ Sign(c) /\ conn'[c].pc = "activate"
         \/ Consume(c) /\ conn'[c].pc = "write"
  PROVE  \E r : Progress(c, r)
<1> USE DEF Running, Stages
<1>a. conn \in [Conns -> Request \cup {Idle}]
  BY DEF TypeOK
<1>1. CASE \/ LockOperation(c) \/ CheckSignGrant(c) \/ SelectCredential(c) \/ CheckExcluded(c)
           \/ Sign(c) /\ conn'[c].pc = "activate"
           \/ Consume(c) /\ conn'[c].pc = "write"
  <2>1. /\ conn[c].pc \in {"handle", "grant", "storage", "key", "consume"}
        /\ UNCHANGED <<budget, uses, answers>>
        /\ \E pc \in {"grant", "storage", "count", "consume", "activate", "write"} : At(c, pc)
    <3>1. CASE LockOperation(c) \/ CheckSignGrant(c) \/ SelectCredential(c) \/ CheckExcluded(c)
      BY <3>1 DEF LockOperation, CheckSignGrant, SelectCredential, CheckExcluded, history
    <3>2. CASE Sign(c) /\ conn'[c].pc = "activate"
      <4>1. conn'[c].pc = "resolve" => conn'[c].pc # "activate"
        OBVIOUS
      <4>2. ~Return(c, Refused) /\ ~Signed(c)
        <5>1. conn[c] \in Request
          BY <1>a, <3>2, Carries DEF Sign
        <5>2. ASSUME NEW out, Return(c, out) PROVE conn'[c].pc = "resolve"
          BY <1>a, <5>1, <5>2 DEF Return, Goto, Request
        <5> QED BY <3>2, <5>2 DEF Signed
      <4> QED BY <3>2, <4>2 DEF Sign, history
    <3>3. CASE Consume(c) /\ conn'[c].pc = "write"
      <4>1. ~Return(c, Refused)
        <5>1. conn[c] \in Request
          BY <1>a, <3>3, Carries DEF Consume
        <5>2. ASSUME Return(c, Refused) PROVE conn'[c].pc = "resolve"
          BY <1>a, <5>1, <5>2 DEF Return, Goto, Request
        <5> QED BY <3>3, <5>2
      <4> QED BY <3>3, <4>1 DEF Consume
    <3> QED BY <1>1, <3>1, <3>2, <3>3
  <2>2. PICK pc \in {"grant", "storage", "count", "consume", "activate", "write"} : At(c, pc)
    BY <2>1
  <2>3. PICK r : Moves(c, r) /\ r.pc = pc
    BY <2>1, <2>2, AtMoves
  <2> QED BY <2>1, <2>2, <2>3 DEF Progress
<1>2. CASE CheckRegistrationGrant(c)
  <2>1. PICK g \in Enrolments : conn' = [conn EXCEPT ![c] = [conn[c] EXCEPT !.pc = "storage", !.grant = g]]
    BY <1>2 DEF CheckRegistrationGrant, Goto, ActiveRegistration, Usable
  <2>2. conn[c] \in Request /\ conn[c].pc = "grant" /\ UNCHANGED <<budget, uses, answers>>
    BY <1>2, Carries DEF CheckRegistrationGrant, history
  <2> DEFINE r == [conn[c] EXCEPT !.pc = "storage", !.grant = g]
  <2>3. /\ r \in Request /\ r.pc = "storage" /\ r.token = conn[c].token /\ r.body = conn[c].body
        /\ r.path = conn[c].path /\ r.via = conn[c].via
    BY <2>2 DEF Request
  <2>4. Moves(c, r) /\ r.pc = "storage"
    BY <2>1, <2>2, <2>3 DEF Moves
  <2> HIDE DEF r
  <2>5. Progress(c, r)
    BY <2>2, <2>4 DEF Progress
  <2> QED BY <2>5
<1>3. CASE WriteCount(c) /\ conn'[c].pc = "key"
  <2> DEFINE n == IF count < MaxCount THEN count + 1 ELSE MaxCount
             r == [conn[c] EXCEPT !.pc = "key", !.out = [res |-> "signed", n |-> n]]
  <2>1. conn[c] \in Request /\ conn[c].pc = "count" /\ n \in Nat
    BY <1>3, Carries, SignBoundsAssumption DEF WriteCount, TypeOK
  <2>2. ~Return(c, Refused)
    BY <1>a, <1>3, <2>1 DEF Return, Goto, Request
  <2>3. conn' = [conn EXCEPT ![c] = r] /\ UNCHANGED <<budget, uses, answers>>
    BY <1>3, <2>2 DEF WriteCount, Goto
  <2>4. [res |-> "signed", n |-> n] \in Outcome
    BY <2>1 DEF Outcome
  <2> HIDE DEF n
  <2>5. /\ r \in Request /\ r.pc = "key" /\ r.token = conn[c].token /\ r.body = conn[c].body
        /\ r.path = conn[c].path /\ r.via = conn[c].via
    BY <2>1, <2>4 DEF Request
  <2>6. Moves(c, r) /\ r.pc = "key"
    BY <2>1, <2>3, <2>5 DEF Moves
  <2> HIDE DEF r
  <2>7. Progress(c, r)
    BY <2>1, <2>3, <2>6 DEF Progress
  <2> QED BY <2>7
<1> QED BY <1>1, <1>2, <1>3

\* The steps with which a handler returns.
LEMMA ReturnSteps ==
  ASSUME TypeOK, NEW c \in Conns,
         \/ Refuse(c) \/ Activate(c) \/ WriteCredential(c)
         \/ WriteCount(c) /\ conn'[c].pc # "key"
         \/ Sign(c) /\ conn'[c].pc # "activate"
         \/ Consume(c) /\ conn'[c].pc # "write"
  PROVE  \E r, made : Returns(c, r, made)
<1> USE DEF Running
<1>a. conn \in [Conns -> Request \cup {Idle}] /\ Refused \in Outcome
  BY DEF TypeOK, Refused, Outcome
<1>b. conn[c].pc \in Running /\ conn[c] \in Request
  <2>1. conn[c].pc \in Running
    BY DEF Refuse, Activate, WriteCredential, WriteCount, Sign, Consume
  <2> QED BY <2>1, Carries
<1>c. conn[c].out \in Outcome
  BY <1>b DEF Request
<1>d. \A pc \in Stages : At(c, pc) => conn'[c].pc = pc
  BY <1>a, <1>b DEF At, Goto, Request
<1>1. CASE Return(c, Refused) /\ UNCHANGED <<uses, budget, enrol, grant, launch>>
  <2>1. uses' = uses \cup {}
    BY <1>1
  <2>2. \E r : Returns(c, r, {})
    BY <1>a, <1>b, <1>1, <2>1, ReturnMoves
  <2> QED BY <2>2
<1>2. CASE Signed(c) /\ conn[c].pc \in {"key", "activate"} /\ UNCHANGED <<budget, enrol, grant, launch>>
  <2> DEFINE u == [token |-> conn[c].token, body |-> conn[c].body, made |-> conn[c].out,
                   by |-> conn[c].token, late |-> grant[conn[c].token], nth |-> Cardinality(uses)]
  <2>1. uses' = uses \cup {u} /\ Return(c, conn[c].out)
    BY <1>2 DEF Signed
  <2>2. Makes(c, u)
    BY <1>2 DEF Makes
  <2> HIDE DEF u
  <2>3. \E r : Returns(c, r, {u})
    BY <1>b, <1>c, <1>2, <2>1, <2>2, ReturnMoves
  <2> QED BY <2>3
<1>3. CASE WriteCredential(c)
  <2> DEFINE new == [res |-> "registered", n |-> Cardinality(uses)]
             u == [token |-> conn[c].token, body |-> conn[c].body, made |-> new,
                   by |-> conn[c].grant, late |-> "active", nth |-> Cardinality(uses)]
  <2>1. UNCHANGED <<budget, enrol, grant, launch>> /\ conn[c].pc = "write"
    BY <1>3 DEF WriteCredential, registry, enrolment
  <2>2. CASE Return(c, Refused) /\ UNCHANGED uses
    BY <1>1, <2>1, <2>2
  <2>3. CASE uses' = uses \cup {u} /\ Return(c, new)
    <3>0. new.res = "registered" /\ u.made = new
      OBVIOUS
    <3>1. Makes(c, u)
      BY <2>1, <3>0 DEF Makes
    <3>2. Cardinality(uses) \in Nat
      BY FS_CardinalityType DEF TypeOK
    <3>3. new \in Outcome
      BY <3>2 DEF Outcome
    <3> HIDE DEF u, new
    <3>4. \E r : Returns(c, r, {u})
      BY <1>b, <2>1, <2>3, <3>1, <3>3, ReturnMoves
    <3> QED BY <3>4
  <2> QED BY <1>3, <2>2, <2>3 DEF WriteCredential
<1>4. CASE Refuse(c)
  BY <1>1, <1>4 DEF Refuse, registry, enrolment
<1>5. CASE Activate(c)
  <2>1. UNCHANGED <<budget, enrol, grant, launch>> /\ conn[c].pc = "activate"
    BY <1>5 DEF Activate, enrolment
  <2> QED BY <1>1, <1>2, <1>5, <2>1 DEF Activate
<1>6. CASE WriteCount(c) /\ conn'[c].pc # "key"
  <2>1. UNCHANGED <<uses, budget, enrol, grant, launch>>
    BY <1>6 DEF WriteCount, registry, enrolment
  <2>2. Return(c, Refused)
    <3> DEFINE o == [res |-> "signed", n |-> IF count < MaxCount THEN count + 1 ELSE MaxCount]
    <3>1. ASSUME Goto(c, [conn[c] EXCEPT !.pc = "key", !.out = o]) PROVE FALSE
      <4> HIDE DEF o
      <4> QED BY <1>a, <1>b, <1>6, <3>1 DEF Goto, Request
    <3> QED BY <1>6, <3>1 DEF WriteCount
  <2> QED BY <1>1, <2>1, <2>2
<1>7. CASE Sign(c) /\ conn'[c].pc # "activate"
  <2>1. UNCHANGED <<budget, enrol, grant, launch>> /\ conn[c].pc = "key" /\ ~At(c, "activate")
    BY <1>7, <1>d DEF Sign, registry, enrolment, Stages
  <2> QED BY <1>1, <1>2, <1>7, <2>1 DEF Sign
<1>8. CASE Consume(c) /\ conn'[c].pc # "write"
  <2>1. ~At(c, "write") /\ UNCHANGED <<uses, budget, grant, launch>>
    BY <1>8, <1>d DEF Stages, Consume, registry
  <2>2. Return(c, Refused) /\ UNCHANGED enrol
    BY <1>8, <2>1 DEF Consume
  <2> QED BY <1>1, <2>1, <2>2
<1> QED BY <1>3, <1>4, <1>5, <1>6, <1>7, <1>8

\* What a connection may do.
LEMMA ConnEffects ==
  ASSUME TypeOK, NEW c \in Conns, ConnStep(c)
  PROVE  \/ Claim(c) \/ WaitTimesOut(c) \/ Resolve(c)
         \/ \E r : Progress(c, r)
         \/ \E r, made : Returns(c, r, made)
<1>1. \/ Claim(c) \/ WaitTimesOut(c) \/ Resolve(c)
      \/ LockOperation(c) \/ CheckSignGrant(c) \/ SelectCredential(c) \/ CheckExcluded(c)
      \/ CheckRegistrationGrant(c)
      \/ WriteCount(c) \/ Sign(c) \/ Consume(c)
      \/ Refuse(c) \/ Activate(c) \/ WriteCredential(c)
  BY DEF ConnStep, SignStep, RegisterStep
<1> QED BY <1>1, ProgressSteps, ReturnSteps

\* What is no step of a connection.
Others ==
  \/ \E t \in Tokens : \/ \E k \in Kinds : StartLaunch(t, k)
                       \/ RevokeByLease(t) \/ EndLease(t) \/ EndGrant(t)
  \/ LaunchStep
  \/ \E g \in Enrolments : RequestRegistration(g) \/ RegistrationExpires(g)

\* Everything that is no step of a connection leaves the connections, what
\* they made and what they said alone.
LEMMA OthersLeave ==
  ASSUME Others \/ UNCHANGED vars
  PROVE  UNCHANGED <<conn, budget, uses, answers, count>>
BY DEF Others, StartLaunch, RevokeByLease, EndLease, EndGrant, LaunchStep, LaunchScan,
       LaunchFails, LaunchBind, LaunchFinish, RequestRegistration, RegistrationExpires,
       history, vars

\* The steps of the service.
LEMMA NextSplit ==
  ASSUME [Next]_vars
  PROVE  \/ Others \/ UNCHANGED vars
         \/ \E t \in Tokens : OutcomeExpires(t)
         \/ \E c \in Conns : \/ \E t \in Tokens, p \in {"sign", "register"}, b \in Bodies : Accept(c, t, p, b)
                             \/ ConnStep(c)
BY DEF Next, Others

-----------------------------------------------------------------------------
(* Types.                                                                   *)

\* Taking and releasing keeps the type of the locks.
LEMMA LockTypes ==
  ASSUME locks \in [Locks -> Conns \cup {"free", "launch"}],
         NEW who \in Conns \cup {"launch"},
         ReleaseBy(who) \/ \E l \in Locks : Take(l, who)
  PROVE  locks' \in [Locks -> Conns \cup {"free", "launch"}]
BY DEF ReleaseBy, Take

\* What a step of a connection does outside the connections.
LEMMA ConnStepWorld ==
  ASSUME TypeOK, NEW c \in Conns, ConnStep(c)
  PROVE  /\ UNCHANGED <<sign, reg, grant, launch, sec>>
         /\ lease' \in [Tokens -> Live \cup {"none", "ended"}]
         /\ \A t \in Tokens : lease'[t] = "none" <=> lease[t] = "none"
         /\ enrol' \in [Enrolments -> Enrolment \cup {NoEnrol}]
         /\ \A g \in Enrolments : enrol[g].state = "Revoked" => enrol'[g].state = "Revoked"
         /\ locks' \in [Locks -> Conns \cup {"free", "launch"}]
         /\ count' \in 0 .. MaxCount /\ count <= count'
<1> USE DEF registry, enrolment, history
<1>a. /\ lease \in [Tokens -> Live \cup {"none", "ended"}]
      /\ enrol \in [Enrolments -> Enrolment \cup {NoEnrol}]
      /\ locks \in [Locks -> Conns \cup {"free", "launch"}]
      /\ count \in 0 .. MaxCount /\ MaxCount \in Nat
      /\ conn \in [Conns -> Request \cup {Idle}]
  BY SignBoundsAssumption DEF TypeOK
<1>b. {"operation", "storage", "manager"} = Locks
  BY DEF Locks
<1>1. CASE \/ Claim(c) \/ WaitTimesOut(c) \/ Resolve(c) \/ CheckSignGrant(c) \/ CheckRegistrationGrant(c)
  <2>1. UNCHANGED <<sign, reg, grant, launch, sec, lease, enrol, locks, count>>
    BY <1>1 DEF Claim, ClaimUpTo, WaitTimesOut, Resolve, CheckSignGrant, CheckRegistrationGrant
  <2> QED BY <1>a, <2>1
<1>2. CASE LockOperation(c) \/ SelectCredential(c) \/ CheckExcluded(c)
  <2>1. \E l \in Locks : Take(l, c)
    BY <1>b, <1>2 DEF LockOperation, SelectCredential, CheckExcluded
  <2> QED BY <1>a, <1>2, <2>1, LockTypes DEF LockOperation, SelectCredential, CheckExcluded
<1>3. CASE WriteCount(c)
  <2>1. locks' \in [Locks -> Conns \cup {"free", "launch"}]
    <3>1. ReleaseBy(c) \/ UNCHANGED locks
      BY <1>3 DEF WriteCount, Return
    <3> QED BY <1>a, <3>1, LockTypes
  <2>2. count' = count \/ count' = IF count < MaxCount THEN count + 1 ELSE MaxCount
    BY <1>3 DEF WriteCount
  <2> QED BY <1>a, <1>3, <2>1, <2>2 DEF WriteCount
<1>4. CASE Sign(c) \/ Refuse(c) \/ WriteCredential(c)
  <2>1. ReleaseBy(c) \/ UNCHANGED locks
    BY <1>4 DEF Sign, Refuse, WriteCredential, Return, Signed
  <2> QED BY <1>a, <1>4, <2>1, LockTypes DEF Sign, Refuse, WriteCredential
<1>5. CASE Activate(c)
  <2>1. ReleaseBy(c)
    BY <1>5 DEF Activate, Return, Signed
  <2>2. locks' \in [Locks -> Conns \cup {"free", "launch"}]
    BY <1>a, <2>1, LockTypes
  <2>3. /\ lease' \in [Tokens -> Live \cup {"none", "ended"}]
        /\ \A t \in Tokens : lease'[t] = "none" <=> lease[t] = "none"
    <3>1. \/ UNCHANGED lease
          \/ /\ lease[conn[c].token] \in Live
             /\ lease' = [lease EXCEPT ![conn[c].token] = "active"]
      BY <1>5 DEF Activate
    <3> QED BY <1>a, <3>1 DEF Live
  <2> QED BY <1>a, <1>5, <2>2, <2>3 DEF Activate
<1>6. CASE Consume(c)
  <2>1. ReleaseBy(c) \/ UNCHANGED locks
    BY <1>6 DEF Consume, Return
  <2>2. locks' \in [Locks -> Conns \cup {"free", "launch"}]
    BY <1>a, <2>1, LockTypes
  <2>3. /\ enrol' \in [Enrolments -> Enrolment \cup {NoEnrol}]
        /\ \A g \in Enrolments : enrol[g].state = "Revoked" => enrol'[g].state = "Revoked"
    <3> DEFINE h == conn[c].grant
    <3>1. \/ UNCHANGED enrol
          \/ /\ enrol[h].state = "Active"
             /\ enrol' = [enrol EXCEPT ![h] = [enrol[h] EXCEPT !.state = "Revoked"]]
      BY <1>6 DEF Consume
    <3>2. ASSUME h \in Enrolments, enrol[h].state = "Active"
          PROVE  [enrol[h] EXCEPT !.state = "Revoked"] \in Enrolment
      BY <1>a, <3>2 DEF Enrolment, NoEnrol
    <3>3. ASSUME h \in Enrolments, enrol[h].state = "Active"
          PROVE  [enrol[h] EXCEPT !.state = "Revoked"].state = "Revoked"
      BY <1>a, <3>3 DEF Enrolment, NoEnrol
    <3> QED BY <1>a, <3>1, <3>2, <3>3
  <2> QED BY <1>a, <1>6, <2>2, <2>3 DEF Consume
<1> QED BY <1>1, <1>2, <1>3, <1>4, <1>5, <1>6 DEF ConnStep, SignStep, RegisterStep

\* Revoking or ageing an active registration grant.
LEMMA EnrolmentSet ==
  ASSUME NEW e \in Enrolment \cup {NoEnrol}, e.state = "Active"
  PROVE  /\ e \in Enrolment
         /\ [e EXCEPT !.state = "Revoked"] \in Enrolment
         /\ [e EXCEPT !.state = "Revoked"].state = "Revoked"
         /\ [e EXCEPT !.fresh = "no"] \in Enrolment
         /\ [e EXCEPT !.fresh = "no"].state = "Active"
<1>1. e \in Enrolment
  BY DEF NoEnrol
<1> QED BY <1>1 DEF Enrolment

\* Launches, ends of leases and grants, and registration grants keep the types;
\* a spent registration grant stays spent and no lock of a connection is lost.
LEMMA OthersWorld ==
  ASSUME TypeOK, Others \/ UNCHANGED vars
  PROVE  /\ TypeOK'
         /\ \A g \in Enrolments : enrol[g].state = "Revoked" => enrol'[g].state = "Revoked"
         /\ \A l \in Locks, c \in Conns : locks[l] = c => locks'[l] = c
<1> USE DEF TypeOK, registry, enrolment, history, Live
<1>a. UNCHANGED <<conn, budget, uses, answers, count>>
  BY OthersLeave
<1>b. "launch" \notin Conns /\ "free" \notin Conns
  BY ThreadsAssumption
<1>1. ASSUME NEW t \in Tokens, NEW k \in Kinds, StartLaunch(t, k)
      PROVE  TypeOK' /\ UNCHANGED enrol /\ \A l \in Locks, c \in Conns : locks[l] = c => locks'[l] = c
  <2>1. /\ reg' \subseteq Tokens /\ UNCHANGED <<sign, grant, enrol, sec>>
        /\ lease' = lease \/ lease' = [lease EXCEPT ![t] = "pending"]
        /\ launch' = launch \/ launch' = [pc |-> "scan", token |-> t, kind |-> k]
    BY <1>1 DEF StartLaunch
  <2>2. UNCHANGED locks \/ (locks["manager"] = "free" /\ locks' = [locks EXCEPT !["manager"] = "launch"])
    BY <1>1 DEF StartLaunch, Take
  <2>3. /\ locks' \in [Locks -> Conns \cup {"free", "launch"}]
        /\ \A l \in Locks, c \in Conns : locks[l] = c => locks'[l] = c
    BY <1>b, <2>2
  <2>4. lease' \in [Tokens -> Live \cup {"none", "ended"}]
    BY <2>1
  <2>5. launch' \in [pc : {"scan", "grant", "finish"}, token : Tokens, kind : Kinds] \cup {Idle}
    BY <2>1
  <2> QED BY <1>a, <2>1, <2>3, <2>4, <2>5
<1>2. CASE LaunchStep
  <2>1. /\ \/ UNCHANGED launch \/ launch' = Idle
           \/ /\ launch # Idle
              /\ \E pc \in {"grant", "finish"} : launch' = [launch EXCEPT !.pc = pc]
        /\ UNCHANGED <<enrol, sec>>
        /\ \/ UNCHANGED locks \/ ReleaseBy("launch")
        /\ launch # Idle
    BY <1>2 DEF LaunchStep, LaunchScan, LaunchFails, LaunchBind, LaunchFinish, Idle
  <2>2. launch \in [pc : {"scan", "grant", "finish"}, token : Tokens, kind : Kinds]
    BY <2>1
  <2>3. launch' \in [pc : {"scan", "grant", "finish"}, token : Tokens, kind : Kinds] \cup {Idle}
    BY <2>1, <2>2
  <2>4. /\ locks' \in [Locks -> Conns \cup {"free", "launch"}]
        /\ \A l \in Locks, c \in Conns : locks[l] = c => locks'[l] = c
    BY <1>b, <2>1 DEF ReleaseBy
  <2>5. /\ sign' \in [Tokens -> Kinds \cup {"none"}] /\ reg' \subseteq Tokens
        /\ lease' \in [Tokens -> Live \cup {"none", "ended"}]
        /\ grant' \in [Tokens -> {"none", "active", "ended"}]
    <3>1. launch.token \in Tokens /\ launch.kind \in Kinds
      BY <2>2
    <3>2. CASE LaunchScan \/ LaunchFinish
      BY <3>2 DEF LaunchScan, LaunchFinish
    <3>3. CASE LaunchFails
      BY <3>1, <3>3 DEF LaunchFails
    <3>4. CASE LaunchBind
      BY <3>1, <3>4 DEF LaunchBind
    <3> QED BY <1>2, <3>2, <3>3, <3>4 DEF LaunchStep
  <2> QED BY <1>a, <2>1, <2>3, <2>4, <2>5
<1>3. ASSUME NEW t \in Tokens, RevokeByLease(t) \/ EndLease(t) \/ EndGrant(t)
      PROVE  TypeOK' /\ UNCHANGED <<enrol, locks>>
  BY <1>a, <1>3 DEF RevokeByLease, EndLease, EndGrant
<1>4. ASSUME NEW g \in Enrolments, RequestRegistration(g) \/ RegistrationExpires(g)
      PROVE  /\ TypeOK' /\ UNCHANGED locks
             /\ \A h \in Enrolments : enrol[h].state = "Revoked" => enrol'[h].state = "Revoked"
  <2>1. UNCHANGED <<sign, reg, lease, grant, launch, locks>>
    BY <1>4 DEF RequestRegistration, RegistrationExpires
  <2>2. ASSUME NEW h \in Enrolments, enrol[h].state = "Active"
        PROVE  /\ enrol[h] \in Enrolment
               /\ [enrol[h] EXCEPT !.state = "Revoked"] \in Enrolment
               /\ [enrol[h] EXCEPT !.fresh = "no"] \in Enrolment
               /\ [enrol[h] EXCEPT !.fresh = "no"].state = "Active"
    BY <2>2, EnrolmentSet
  <2> DEFINE Kept ==
        /\ enrol' \in [Enrolments -> Enrolment \cup {NoEnrol}] /\ sec' \in Nat
        /\ \A h \in Enrolments : enrol[h].state = "Revoked" => enrol'[h].state = "Revoked"
  <2>3. Kept
    <3>1. CASE RegistrationExpires(g)
      BY <2>2, <3>1 DEF RegistrationExpires
    <3>2. ASSUME NEW s \in {sec, sec + 1},
                 enrol[g] = NoEnrol, sec' = s,
                 enrol' = [enrol EXCEPT ![g] = [state |-> "Active", issued |-> s, fresh |-> "yes"]]
          PROVE  Kept
      <4>1. [state |-> "Active", issued |-> s, fresh |-> "yes"] \in Enrolment
        BY DEF Enrolment
      <4> QED BY <3>2, <4>1 DEF NoEnrol
    <3>3. CASE /\ enrol' = [h \in Enrolments |-> IF enrol[h].state = "Active"
                                 THEN [enrol[h] EXCEPT !.state = "Revoked"] ELSE enrol[h]]
               /\ UNCHANGED sec
      BY <2>2, <3>3
    <3>4. CASE RequestRegistration(g)
      BY <3>2, <3>3, <3>4 DEF RequestRegistration
    <3> QED BY <1>4, <3>1, <3>4
  <2> QED BY <1>a, <2>1, <2>3
<1>5. CASE UNCHANGED vars
  BY <1>5 DEF vars
<1> QED BY <1>1, <1>2, <1>3, <1>4, <1>5 DEF Others

\* The cache after one more outcome holds that outcome and old ones.
LEMMA CompletedCache ==
  ASSUME NEW d \in Seq(Result), NEW e \in Result
  PROVE  LET new == Append(IF Len(d) >= CacheSize THEN Tail(d) ELSE d, e) IN
         /\ new \in Seq(Result)
         /\ \A i \in DOMAIN new : new[i] = e \/ \E j \in DOMAIN d : new[i] = d[j]
<1> DEFINE kept == IF Len(d) >= CacheSize THEN Tail(d) ELSE d
<1>1. /\ kept \in Seq(Result)
      /\ \A i \in DOMAIN kept : \E j \in DOMAIN d : kept[i] = d[j]
  <2>1. CASE Len(d) >= CacheSize
    <3>1. Len(d) > 0 /\ d # <<>>
      BY <2>1, SignBoundsAssumption
    <3>2. /\ Tail(d) \in Seq(Result)
          /\ DOMAIN Tail(d) = 1 .. Len(d) - 1
          /\ \A i \in 1 .. Len(d) - 1 : Tail(d)[i] = d[i + 1]
      BY <3>1
    <3>3. \A i \in 1 .. Len(d) - 1 : i + 1 \in DOMAIN d
      BY <3>1
    <3> QED BY <2>1, <3>2, <3>3
  <2>2. CASE ~(Len(d) >= CacheSize)
    BY <2>2
  <2> QED BY <2>1, <2>2
<1> HIDE DEF kept
<1>2. /\ Append(kept, e) \in Seq(Result)
      /\ DOMAIN Append(kept, e) = 1 .. Len(kept) + 1
      /\ \A i \in 1 .. Len(kept) : Append(kept, e)[i] = kept[i]
      /\ Append(kept, e)[Len(kept) + 1] = e
      /\ Len(kept) \in Nat /\ DOMAIN kept = 1 .. Len(kept)
  BY <1>1
<1>3. ASSUME NEW i \in DOMAIN Append(kept, e)
      PROVE  Append(kept, e)[i] = e \/ \E j \in DOMAIN d : Append(kept, e)[i] = d[j]
  <2>1. i \in 1 .. Len(kept) \/ i = Len(kept) + 1
    BY <1>2
  <2> QED BY <1>1, <1>2, <2>1
<1> QED BY <1>2, <1>3 DEF kept

\* A request that is made of the parts of a connection.
LEMMA AcceptMoves ==
  ASSUME TypeOK, NEW c \in Conns, NEW t \in Tokens, NEW p \in {"sign", "register"}, NEW b \in Bodies,
         Accept(c, t, p, b)
  PROVE  \E r \in Request : conn' = [conn EXCEPT ![c] = r] /\ r.pc = "claim"
<1> DEFINE r == [pc |-> "claim", token |-> t, path |-> p, body |-> b,
                 via |-> sign[t], grant |-> t, out |-> Refused]
<1>1. conn' = [conn EXCEPT ![c] = r]
  BY DEF Accept, Goto
<1>2. r \in Request
  BY DEF Request, Stages, TypeOK, Refused, Outcome
<1>3. r.pc = "claim"
  OBVIOUS
<1> QED BY <1>1, <1>2, <1>3

\* What claim does: wait, answer from the cache or refuse, or admit.
LEMMA ClaimMoves ==
  ASSUME TypeOK, NEW c \in Conns, Claim(c)
  PROVE  LET t == conn[c].token  b == conn[c].body IN
         /\ conn[c] \in Request /\ conn[c].pc = "claim" /\ UNCHANGED uses
         /\ \/ /\ \E r : Moves(c, r) /\ r.pc = "wait"
               /\ UNCHANGED <<budget, answers>>
            \/ /\ conn' = [conn EXCEPT ![c] = Idle]
               /\ UNCHANGED budget
               /\ \/ UNCHANGED answers
                  \/ \E i \in DOMAIN budget[t].done :
                       /\ budget[t].done[i].body = b
                       /\ answers' = answers \cup {[token |-> t, body |-> b, out |-> budget[t].done[i].out]}
            \/ /\ \E r : Moves(c, r) /\ r.pc = "handle"
               /\ b \notin budget[t].used
               /\ ~(Cardinality(budget[t].used) >= MaxOps)
               /\ budget' = [budget EXCEPT ![t].used = @ \cup {b}, ![t].flight = @ \cup {b}]
               /\ UNCHANGED answers
<1> DEFINE t == conn[c].token
           b == conn[c].body
<1>1. conn[c].pc = "claim" /\ conn[c] \in Request /\ UNCHANGED uses
  BY Carries DEF Claim, ClaimUpTo
<1>2. ASSUME NEW pc \in {"wait", "handle"}, At(c, pc) PROVE \E r : Moves(c, r) /\ r.pc = pc
  BY <1>1, <1>2, AtMoves DEF Stages
<1>3. CASE /\ At(c, "wait") /\ UNCHANGED <<budget, answers>>
  BY <1>1, <1>2, <1>3
<1>4. CASE /\ Goto(c, Idle) /\ UNCHANGED budget
           /\ \/ UNCHANGED answers
              \/ \E i \in Cached(t, b) : Answer(c, budget[t].done[i].out)
  BY <1>1, <1>4 DEF Goto, Cached, Answer
<1>5. CASE /\ b \notin budget[t].used /\ ~(Cardinality(budget[t].used) >= MaxOps)
           /\ budget' = [budget EXCEPT ![t].used = @ \cup {b}, ![t].flight = @ \cup {b}]
           /\ At(c, "handle") /\ UNCHANGED answers
  BY <1>1, <1>2, <1>5
<1> QED BY <1>3, <1>4, <1>5 DEF Claim, ClaimUpTo

\* Every step keeps the types.
LEMMA TypeNext == ASSUME TypeOK, [Next]_vars PROVE TypeOK'
<1>a. /\ conn \in [Conns -> Request \cup {Idle}] /\ IsFiniteSet(uses) /\ answers \subseteq Said
      /\ budget \in [Tokens -> [used : SUBSET Bodies, flight : SUBSET Bodies, done : Seq(Result)]]
  BY DEF TypeOK
<1>1. CASE Others \/ UNCHANGED vars
  BY <1>1, OthersWorld
<1>2. ASSUME NEW t \in Tokens, OutcomeExpires(t) PROVE TypeOK'
  <2>1. /\ budget[t] \in [used : SUBSET Bodies, flight : SUBSET Bodies, done : Seq(Result)]
        /\ budget[t].done # <<>>
        /\ budget' = [budget EXCEPT ![t].done = Tail(budget[t].done)]
    BY <1>a, <1>2 DEF OutcomeExpires
  <2>2. Tail(budget[t].done) \in Seq(Result)
    BY <2>1
  <2>4. budget' \in [Tokens -> [used : SUBSET Bodies, flight : SUBSET Bodies, done : Seq(Result)]]
    BY <1>a, <2>1, <2>2
  <2> QED BY <1>2, <2>4 DEF TypeOK, OutcomeExpires, registry, enrolment, history
<1>3. ASSUME NEW c \in Conns, NEW t \in Tokens, NEW p \in {"sign", "register"}, NEW b \in Bodies,
             Accept(c, t, p, b)
      PROVE  TypeOK'
  <2>1. conn' \in [Conns -> Request \cup {Idle}]
    BY <1>a, <1>3, AcceptMoves
  <2> QED BY <1>3, <2>1 DEF TypeOK, Accept, registry, enrolment, history
<1>4. ASSUME NEW c \in Conns, ConnStep(c) PROVE TypeOK'
  <2> DEFINE Typed ==
        /\ conn' \in [Conns -> Request \cup {Idle}] /\ IsFiniteSet(uses') /\ answers' \subseteq Said
        /\ budget' \in [Tokens -> [used : SUBSET Bodies, flight : SUBSET Bodies, done : Seq(Result)]]
  <2>1. Typed
    <3>1. CASE Claim(c)
      <4>1. conn[c] \in Request /\ UNCHANGED uses
        BY <3>1, ClaimMoves
      <4>2. conn' \in [Conns -> Request \cup {Idle}]
        BY <1>a, <3>1, ClaimMoves DEF Moves
      <4> DEFINE t == conn[c].token
                 b == conn[c].body
      <4>3. \/ UNCHANGED budget
            \/ budget' = [budget EXCEPT ![t].used = @ \cup {b}, ![t].flight = @ \cup {b}]
        BY <3>1, ClaimMoves
      <4>4. t \in Tokens /\ b \in Bodies
        BY <4>1 DEF Request
      <4> HIDE DEF t, b
      <4>5. budget' \in [Tokens -> [used : SUBSET Bodies, flight : SUBSET Bodies, done : Seq(Result)]]
        BY <1>a, <4>3, <4>4
      <4>6. answers' \subseteq Said
        <5>1. CASE UNCHANGED answers
          BY <1>a, <5>1
        <5>2. ASSUME NEW i \in DOMAIN budget[t].done,
                     answers' = answers \cup {[token |-> t, body |-> b, out |-> budget[t].done[i].out]}
              PROVE  answers' \subseteq Said
          <6>1. budget[t].done \in Seq(Result)
            BY <1>a, <4>4
          <6>2. budget[t].done[i] \in Result
            BY <5>2, <6>1
          <6>3. budget[t].done[i].out \in Outcome
            BY <6>2 DEF Result
          <6> QED BY <1>a, <4>4, <5>2, <6>3 DEF Said
        <5> QED BY <3>1, <5>1, <5>2, ClaimMoves DEF t, b
      <4> QED BY <1>a, <4>1, <4>2, <4>5, <4>6
    <3>2. CASE WaitTimesOut(c)
      BY <1>a, <3>2 DEF WaitTimesOut, Goto, history
    <3>3. CASE Resolve(c)
      <4>1. conn[c] \in Request /\ UNCHANGED uses
        BY <3>3, Carries DEF Resolve
      <4>2. conn' \in [Conns -> Request \cup {Idle}]
        BY <1>a, <3>3 DEF Resolve
      <4> DEFINE t == conn[c].token
                 e == [body |-> conn[c].body, out |-> conn[c].out]
                 d == budget[t].done
                 new == Append(IF Len(d) >= CacheSize THEN Tail(d) ELSE d, e)
      <4>3. t \in Tokens /\ e \in Result /\ d \in Seq(Result)
        BY <1>a, <4>1 DEF Request, Result
      <4>4. new \in Seq(Result)
        BY <4>3, CompletedCache
      <4>5. budget' = [budget EXCEPT ![t] = [budget[t] EXCEPT !.flight = @ \ {conn[c].body}, !.done = new]]
        BY <3>3 DEF Resolve, Completed
      <4> HIDE DEF new
      <4>6. [budget[t] EXCEPT !.flight = @ \ {conn[c].body}, !.done = new]
               \in [used : SUBSET Bodies, flight : SUBSET Bodies, done : Seq(Result)]
        BY <1>a, <4>3, <4>4
      <4>7. answers' \subseteq Said
        <5>1. conn[c].token \in Tokens /\ conn[c].body \in Bodies /\ conn[c].out \in Outcome
          BY <4>1 DEF Request
        <5>2. [token |-> conn[c].token, body |-> conn[c].body, out |-> conn[c].out] \in Said
          BY <5>1 DEF Said
        <5> QED BY <1>a, <3>3, <5>2 DEF Resolve
      <4> QED BY <1>a, <4>1, <4>2, <4>3, <4>5, <4>6, <4>7
    <3>4. ASSUME NEW r, Progress(c, r) PROVE Typed
      BY <1>a, <3>4 DEF Progress, Moves
    <3>5. ASSUME NEW r, NEW made, Returns(c, r, made) PROVE Typed
      <4>1. conn' \in [Conns -> Request \cup {Idle}] /\ UNCHANGED budget /\ uses' = uses \cup made
        BY <1>a, <3>5 DEF Returns, Moves
      <4>2. made = {} \/ \E u : made = {u}
        <5>1. \A u, v \in made : u = v
          BY <3>5 DEF Returns
        <5>2. ASSUME NEW u \in made PROVE made = {u}
          BY <5>1
        <5> QED BY <5>2
      <4>3. IsFiniteSet(uses')
        <5>1. CASE made = {}
          BY <1>a, <4>1, <5>1
        <5>2. ASSUME NEW u, made = {u} PROVE IsFiniteSet(uses')
          BY <1>a, <4>1, <5>2, FS_AddElement
        <5> QED BY <4>2, <5>1, <5>2
      <4>4. answers' \subseteq Said
        <5>1. /\ conn[c].token \in Tokens /\ conn[c].body \in Bodies /\ r.out \in Outcome
              /\ answers' = answers \cup {[token |-> conn[c].token, body |-> conn[c].body, out |-> r.out]}
          BY <3>5 DEF Returns, Moves, Request
        <5> QED BY <1>a, <5>1 DEF Said
      <4> QED BY <1>a, <4>1, <4>3, <4>4
    <3> QED BY <1>4, <3>1, <3>2, <3>3, <3>4, <3>5, ConnEffects
  <2> QED BY <1>4, <2>1, ConnStepWorld DEF TypeOK
<1> QED BY <1>1, <1>2, <1>3, <1>4, NextSplit

-----------------------------------------------------------------------------
(* Locks.                                                                   *)

\* A handler that returns is at its last stage.
LEMMA ReturnStage ==
  ASSUME TypeOK, NEW c \in Conns, conn[c] \in Request, NEW out, Return(c, out)
  PROVE  conn'[c].pc = "resolve"
BY DEF TypeOK, Return, Goto, Request

\* A step of one connection takes no lock away from another.
LEMMA LocksOfOthers ==
  ASSUME TypeOK, NEW c \in Conns, ConnStep(c)
  PROVE  \A l \in Locks, d \in Conns \ {c} : locks[l] = d => locks'[l] = d
<1>a. locks \in [Locks -> Conns \cup {"free", "launch"}] /\ "free" \notin Conns
  BY ThreadsAssumption DEF TypeOK
<1>1. UNCHANGED locks \/ ReleaseBy(c) \/ Take("operation", c) \/ Take("storage", c)
  BY DEF ConnStep, SignStep, RegisterStep, Claim, ClaimUpTo, WaitTimesOut, Refuse, LockOperation,
         CheckSignGrant, SelectCredential, WriteCount, Sign, Signed, Activate, CheckRegistrationGrant,
         CheckExcluded, Consume, WriteCredential, Resolve, Return
<1> QED BY <1>a, <1>1 DEF ReleaseBy, Take

\* The other connections stay as they are, or are answered and are idle.
LEMMA OtherConns ==
  ASSUME TypeOK, NEW c \in Conns, ConnStep(c), NEW d \in Conns \ {c}
  PROVE  conn'[d] = conn[d] \/ conn'[d] = Idle
<1>a. conn \in [Conns -> Request \cup {Idle}]
  BY DEF TypeOK
<1>1. CASE Claim(c)
  BY <1>a, <1>1, ClaimMoves DEF Moves
<1>2. CASE WaitTimesOut(c)
  BY <1>a, <1>2 DEF WaitTimesOut, Goto
<1>3. CASE Resolve(c)
  BY <1>a, <1>3 DEF Resolve
<1>4. ASSUME NEW r, Progress(c, r) PROVE conn'[d] = conn[d]
  BY <1>a, <1>4 DEF Progress, Moves
<1>5. ASSUME NEW r, NEW made, Returns(c, r, made) PROVE conn'[d] = conn[d]
  BY <1>a, <1>5 DEF Returns, Moves
<1> QED BY <1>1, <1>2, <1>3, <1>4, <1>5, ConnEffects

\* The locks are held by the threads that are between taking and releasing them.
LEMMA LocksNext == ASSUME TypeOK, LocksHeld, [Next]_vars PROVE LocksHeld'
<1> USE DEF HasOperation, HasStorage
<1>a. /\ conn \in [Conns -> Request \cup {Idle}]
      /\ locks \in [Locks -> Conns \cup {"free", "launch"}]
      /\ "operation" \in Locks /\ "storage" \in Locks
  BY DEF TypeOK, Locks
<1>1. CASE Others \/ UNCHANGED vars
  BY <1>a, <1>1, OthersWorld, OthersLeave DEF LocksHeld
<1>2. ASSUME NEW t \in Tokens, OutcomeExpires(t) PROVE LocksHeld'
  BY <1>2 DEF LocksHeld, OutcomeExpires
<1>3. ASSUME NEW c \in Conns, NEW t \in Tokens, NEW p \in {"sign", "register"}, NEW b \in Bodies,
             Accept(c, t, p, b)
      PROVE  LocksHeld'
  <2>1. PICK r \in Request : conn' = [conn EXCEPT ![c] = r] /\ r.pc = "claim"
    BY <1>3, AcceptMoves
  <2>2. UNCHANGED locks
    BY <1>3 DEF Accept
  <2> QED BY <1>a, <2>1, <2>2 DEF LocksHeld
<1>4. ASSUME NEW c \in Conns, ConnStep(c) PROVE LocksHeld'
  <2>1. ASSUME NEW d \in Conns \ {c}
        PROVE  /\ conn'[d].pc \in HasOperation => locks'["operation"] = d
               /\ conn'[d].pc \in HasStorage => locks'["storage"] = d
    <3>1. conn'[d] = conn[d] \/ conn'[d] = Idle
      BY <1>4, <2>1, OtherConns
    <3> QED BY <1>a, <1>4, <2>1, <3>1, LocksOfOthers DEF LocksHeld, Idle
  <2>2. /\ conn'[c].pc \in HasOperation => locks'["operation"] = c
        /\ conn'[c].pc \in HasStorage => locks'["storage"] = c
    <3>0. ASSUME NEW pc \in Stages, At(c, pc), conn[c].pc # "idle" PROVE conn'[c].pc = pc
      BY <1>a, <3>0, AtMoves DEF Moves
    <3>1. CASE Claim(c)
      <4>1. conn'[c].pc \in {"wait", "idle", "handle"}
        <5>1. \/ conn' = [conn EXCEPT ![c] = Idle]
              \/ \E r : Moves(c, r) /\ r.pc \in {"wait", "handle"}
          BY <3>1, ClaimMoves
        <5> QED BY <1>a, <5>1 DEF Moves, Idle
      <4> QED BY <4>1
    <3>2. CASE WaitTimesOut(c) \/ Resolve(c)
      BY <1>a, <3>2 DEF WaitTimesOut, Resolve, Goto, Idle
    <3>3. ASSUME NEW r, NEW made, Returns(c, r, made) PROVE conn'[c].pc = "resolve"
      BY <1>a, <3>3 DEF Returns, Moves
    <3>4. CASE LockOperation(c)
      BY <1>a, <3>0, <3>4 DEF LockOperation, Take, Stages
    <3>5. CASE CheckSignGrant(c)
      BY <1>a, <3>0, <3>5 DEF CheckSignGrant, Stages, LocksHeld
    <3>6. CASE CheckRegistrationGrant(c)
      <4>1. PICK r : Progress(c, r)
        BY <3>6, ProgressSteps
      <4>2. conn[c].pc = "grant" /\ UNCHANGED locks
        BY <3>6 DEF CheckRegistrationGrant
      <4>3. conn'[c].pc = "storage"
        <5>1. conn[c] \in Request
          BY <4>1 DEF Progress, Moves
        <5> QED BY <1>a, <3>6, <5>1 DEF CheckRegistrationGrant, Goto, Request
      <4> QED BY <4>2, <4>3 DEF LocksHeld
    <3>7. CASE SelectCredential(c) \/ CheckExcluded(c)
      <4>1. conn[c].pc = "storage" /\ Take("storage", c) /\ (At(c, "count") \/ At(c, "consume"))
        BY <3>7 DEF SelectCredential, CheckExcluded
      <4>2. conn'[c].pc \in {"count", "consume"}
        BY <3>0, <4>1 DEF Stages
      <4>3. locks["operation"] = c
        BY <4>1 DEF LocksHeld
      <4> QED BY <1>a, <4>1, <4>2, <4>3 DEF Take
    <3>8. CASE WriteCount(c) /\ conn'[c].pc = "key"
      <4>1. conn[c] \in Request /\ conn[c].pc = "count"
        BY <3>8, Carries DEF WriteCount
      <4>2. ~Return(c, Refused)
        BY <3>8, <4>1, ReturnStage
      <4>3. UNCHANGED locks
        BY <3>8, <4>2 DEF WriteCount
      <4> QED BY <4>1, <4>3 DEF LocksHeld
    <3>9. CASE Sign(c) /\ conn'[c].pc = "activate"
      <4>1. conn[c] \in Request /\ conn[c].pc = "key"
        BY <3>9, Carries DEF Sign
      <4>2. ASSUME NEW out, Return(c, out) PROVE FALSE
        BY <3>9, <4>1, <4>2, ReturnStage
      <4>3. UNCHANGED locks
        BY <3>9, <4>2 DEF Sign, Signed
      <4> QED BY <4>1, <4>3 DEF LocksHeld
    <3>10. CASE Consume(c) /\ conn'[c].pc = "write"
      <4>1. conn[c] \in Request /\ conn[c].pc = "consume"
        BY <3>10, Carries DEF Consume
      <4>2. ~Return(c, Refused)
        BY <3>10, <4>1, ReturnStage
      <4>3. UNCHANGED locks
        BY <3>10, <4>2 DEF Consume
      <4> QED BY <4>1, <4>3 DEF LocksHeld
    <3>11. CASE \/ Refuse(c) \/ Activate(c) \/ WriteCredential(c)
                \/ WriteCount(c) /\ conn'[c].pc # "key"
                \/ Sign(c) /\ conn'[c].pc # "activate"
                \/ Consume(c) /\ conn'[c].pc # "write"
      BY <3>3, <3>11, ReturnSteps
    <3> QED BY <1>4, <3>1, <3>2, <3>4, <3>5, <3>6, <3>7, <3>8, <3>9, <3>10, <3>11
         DEF ConnStep, SignStep, RegisterStep
  <2> QED BY <2>1, <2>2 DEF LocksHeld
<1> QED BY <1>1, <1>2, <1>3, <1>4, NextSplit

-----------------------------------------------------------------------------
(* The budget: what is admitted, made, said and kept.                       *)

Account == Owned /\ Remembered /\ OneUsePerBody /\ SameAnswer

\* A step that makes and says nothing, admits nothing and at most forgets
\* outcomes keeps the account.
LEMMA AccountQuiet ==
  ASSUME TypeOK, Account, UNCHANGED <<uses, answers>>,
         \A t \in Tokens :
           /\ budget'[t].used = budget[t].used /\ budget'[t].flight = budget[t].flight
           /\ \A i \in DOMAIN budget'[t].done :
                \E j \in DOMAIN budget[t].done : budget'[t].done[i] = budget[t].done[j],
         \A d \in Conns :
           \/ conn'[d] = conn[d] \/ conn'[d].pc \notin Admitted
           \/ /\ conn[d].pc \in Running /\ conn'[d].pc \in Running
              /\ conn[d] \in Request
              /\ conn'[d].token = conn[d].token /\ conn'[d].body = conn[d].body
  PROVE  Account'
<1>1. \A d \in Conns : conn'[d].pc \in Admitted =>
        /\ conn[d].pc \in Admitted
        /\ conn'[d].token = conn[d].token /\ conn'[d].body = conn[d].body
        /\ conn'[d].pc \in Running => conn[d].pc \in Running
        /\ conn'[d].pc = "resolve" => conn'[d] = conn[d]
  BY DEF Admitted, Running
<1>2. \A d \in Conns : conn[d].pc \in Admitted => conn[d].token \in Tokens
  BY Carries DEF Admitted, Running, Request
<1>3. Remembered'
  BY DEF Account, Remembered
<1>4. Owned'
  <2> SUFFICES ASSUME NEW c \in Conns, conn'[c].pc \in Admitted
               PROVE  LET t == conn'[c].token  b == conn'[c].body IN
                      /\ b \in budget'[t].flight
                      /\ \A d \in Conns \ {c} : conn'[d].pc \in Admitted => conn'[d].token # t \/ conn'[d].body # b
                      /\ conn'[c].pc \in Running =>
                           /\ \A u \in uses' : u.token # t \/ u.body # b
                           /\ \A a \in answers' : a.token # t \/ a.body # b
                      /\ conn'[c].pc = "resolve" =>
                           \A a \in answers' : a.token = t /\ a.body = b => a.out = conn'[c].out
    BY DEF Owned
  <2>1. /\ conn[c].pc \in Admitted /\ conn[c].token \in Tokens
        /\ conn'[c].token = conn[c].token /\ conn'[c].body = conn[c].body
    BY <1>1, <1>2
  <2>2. conn[c].body \in budget'[conn[c].token].flight
    BY <2>1 DEF Account, Owned
  <2>3. \A d \in Conns \ {c} : conn'[d].pc \in Admitted
          => conn'[d].token # conn[c].token \/ conn'[d].body # conn[c].body
    BY <1>1, <2>1 DEF Account, Owned
  <2>4. conn'[c].pc \in Running =>
          /\ \A u \in uses' : u.token # conn[c].token \/ u.body # conn[c].body
          /\ \A a \in answers' : a.token # conn[c].token \/ a.body # conn[c].body
    BY <1>1, <2>1 DEF Account, Owned
  <2>5. conn'[c].pc = "resolve" =>
          \A a \in answers' : a.token = conn[c].token /\ a.body = conn[c].body => a.out = conn'[c].out
    BY <1>1, <2>1 DEF Account, Owned
  <2> QED BY <2>1, <2>2, <2>3, <2>4, <2>5
<1> QED BY <1>3, <1>4 DEF Account, OneUsePerBody, SameAnswer

\* An answer from the cache agrees with everything said before.
LEMMA AccountCached ==
  ASSUME TypeOK, Account, NEW c \in Conns, NEW t \in Tokens, NEW b, NEW out,
         \A d \in Conns : conn'[d].pc \in Admitted => conn'[d] = conn[d],
         UNCHANGED <<budget, uses>>,
         \E i \in DOMAIN budget[t].done : budget[t].done[i].body = b /\ budget[t].done[i].out = out,
         answers' = answers \cup {[token |-> t, body |-> b, out |-> out]}
  PROVE  Account'
<1> DEFINE a0 == [token |-> t, body |-> b, out |-> out]
<1>1. a0.token = t /\ a0.body = b /\ a0.out = out /\ answers' = answers \cup {a0}
  OBVIOUS
<1> HIDE DEF a0
<1>2. /\ b \in budget[t].used /\ b \notin budget[t].flight
      /\ \A j \in DOMAIN budget[t].done : budget[t].done[j].body = b => budget[t].done[j].out = out
      /\ \A a \in answers : a.token = t /\ a.body = b => a.out = out
  BY DEF Account, Remembered
<1>3. \A a \in answers : a.token = t /\ a.body = b => a = a0
  <2>1. answers \subseteq Said
    BY DEF TypeOK
  <2> QED BY <1>2, <2>1 DEF Said, a0
<1>4. \A d \in Conns : conn[d].pc \in Admitted => conn[d].token # t \/ conn[d].body # b
  BY <1>2 DEF Account, Owned
<1>5. Remembered'
  BY <1>1, <1>2 DEF Account, Remembered
<1>6. Owned'
  BY <1>1, <1>4 DEF Account, Owned
<1>7. SameAnswer'
  BY <1>1, <1>3 DEF Account, SameAnswer
<1> QED BY <1>5, <1>6, <1>7 DEF Account, OneUsePerBody

\* A body that is new for its token is admitted within the limit, and nothing
\* was made, said or kept for it.
LEMMA AccountAdmits ==
  ASSUME TypeOK, Account, NEW c \in Conns, NEW t \in Tokens, NEW b \in Bodies,
         conn'[c].token = t, conn'[c].body = b, conn'[c].pc = "handle",
         \A d \in Conns \ {c} : conn'[d] = conn[d],
         b \notin budget[t].used, ~(Cardinality(budget[t].used) >= MaxOps),
         budget'[t].used = budget[t].used \cup {b}, budget'[t].flight = budget[t].flight \cup {b},
         budget'[t].done = budget[t].done,
         \A s \in Tokens \ {t} : budget'[s] = budget[s],
         UNCHANGED <<uses, answers>>
  PROVE  Account'
<1>4. /\ \A u \in uses : u.token # t \/ u.body # b
      /\ \A a \in answers : a.token # t \/ a.body # b
      /\ \A d \in Conns : conn[d].pc \in Admitted => conn[d].token # t \/ conn[d].body # b
      /\ \A i \in DOMAIN budget[t].done : budget[t].done[i].body # b
  BY DEF Account, Owned, Remembered
<1>7. \A d \in Conns : conn[d].pc \in Admitted => conn[d].token \in Tokens
  BY Carries DEF Admitted, Running, Request
<1>8. Owned'
  <2> SUFFICES ASSUME NEW e \in Conns, conn'[e].pc \in Admitted
               PROVE  LET s == conn'[e].token  x == conn'[e].body IN
                      /\ x \in budget'[s].flight
                      /\ \A d \in Conns \ {e} : conn'[d].pc \in Admitted => conn'[d].token # s \/ conn'[d].body # x
                      /\ conn'[e].pc \in Running =>
                           /\ \A u \in uses' : u.token # s \/ u.body # x
                           /\ \A a \in answers' : a.token # s \/ a.body # x
                      /\ conn'[e].pc = "resolve" =>
                           \A a \in answers' : a.token = s /\ a.body = x => a.out = conn'[e].out
    BY DEF Owned
  <2>1. CASE e = c
    BY <1>4, <2>1
  <2>2. CASE e # c
    BY <1>4, <1>7, <2>2 DEF Account, Owned
  <2> QED BY <2>1, <2>2
<1>9. Remembered'
  <2>1. \A s \in Tokens : IsFiniteSet(budget'[s].used) /\ Cardinality(budget'[s].used) <= MaxOps
    <3>1. /\ IsFiniteSet(budget[t].used \cup {b})
          /\ Cardinality(budget[t].used \cup {b}) = Cardinality(budget[t].used) + 1
          /\ Cardinality(budget[t].used) \in Nat
      BY FS_AddElement, FS_CardinalityType DEF Account, Remembered
    <3>2. Cardinality(budget[t].used \cup {b}) <= MaxOps
      BY <3>1, SignBoundsAssumption
    <3>3. \A s \in Tokens \ {t} : IsFiniteSet(budget'[s].used) /\ Cardinality(budget'[s].used) <= MaxOps
      BY DEF Account, Remembered
    <3>4. IsFiniteSet(budget'[t].used) /\ Cardinality(budget'[t].used) <= MaxOps
      BY <3>1, <3>2
    <3> QED BY <3>3, <3>4
  <2>2. \A s \in Tokens : budget'[s].flight \subseteq budget'[s].used
    BY DEF Account, Remembered
  <2>3. \A s \in Tokens : \A i \in DOMAIN budget'[s].done :
            /\ budget'[s].done[i].body \in budget'[s].used \ budget'[s].flight
            /\ \A j \in DOMAIN budget'[s].done :
                 budget'[s].done[j].body = budget'[s].done[i].body => budget'[s].done[j] = budget'[s].done[i]
            /\ \A a \in answers' : a.token = s /\ a.body = budget'[s].done[i].body
                                    => a.out = budget'[s].done[i].out
    BY <1>4 DEF Account, Remembered
  <2>4. /\ \A u \in uses' : u.token \in Tokens /\ u.body \in budget'[u.token].used
        /\ \A a \in answers' : a.token \in Tokens /\ a.body \in budget'[a.token].used
    BY DEF Account, Remembered
  <2> QED BY <2>1, <2>2, <2>3, <2>4 DEF Remembered
<1> QED BY <1>8, <1>9 DEF Account, OneUsePerBody, SameAnswer

\* The handler of an admitted request makes and says the first and only thing
\* for its body.
LEMMA AccountReturns ==
  ASSUME TypeOK, Account, NEW c \in Conns, NEW r, NEW made, Returns(c, r, made)
  PROVE  Account'
<1> DEFINE t == conn[c].token
           b == conn[c].body
           a0 == [token |-> t, body |-> b, out |-> r.out]
<1>1. /\ t \in Tokens /\ conn \in [Conns -> Request \cup {Idle}]
      /\ conn' = [conn EXCEPT ![c] = r] /\ r.token = t /\ r.body = b /\ r.pc = "resolve"
      /\ UNCHANGED budget /\ conn[c].pc \in Running
  BY DEF TypeOK, Returns, Moves, Request
<1>2. /\ a0.token = t /\ a0.body = b /\ a0.out = r.out
      /\ answers' = answers \cup {a0} /\ uses' = uses \cup made
      /\ \A u \in made : u.token = t /\ u.body = b
      /\ \A u, v \in made : u = v
  BY DEF Returns, Makes
<1> HIDE DEF a0, t, b
<1>3. /\ b \in budget[t].flight /\ b \in budget[t].used
      /\ \A d \in Conns \ {c} : conn[d].pc \in Admitted => conn[d].token # t \/ conn[d].body # b
      /\ \A u \in uses : u.token # t \/ u.body # b
      /\ \A a \in answers : a.token # t \/ a.body # b
  <2>1. conn[c].token = t /\ conn[c].body = b
    BY DEF t, b
  <2> QED BY <1>1, <2>1 DEF Account, Owned, Remembered, Admitted
<1>4. \A d \in Conns \ {c} : conn'[d] = conn[d]
  BY <1>1
<1>5. conn'[c].token = t /\ conn'[c].body = b /\ conn'[c].pc = "resolve" /\ conn'[c].out = r.out
  BY <1>1
<1>6. Owned'
  <2> SUFFICES ASSUME NEW e \in Conns, conn'[e].pc \in Admitted
               PROVE  LET s == conn'[e].token  x == conn'[e].body IN
                      /\ x \in budget'[s].flight
                      /\ \A d \in Conns \ {e} : conn'[d].pc \in Admitted => conn'[d].token # s \/ conn'[d].body # x
                      /\ conn'[e].pc \in Running =>
                           /\ \A u \in uses' : u.token # s \/ u.body # x
                           /\ \A a \in answers' : a.token # s \/ a.body # x
                      /\ conn'[e].pc = "resolve" =>
                           \A a \in answers' : a.token = s /\ a.body = x => a.out = conn'[e].out
    BY DEF Owned
  <2>1. CASE e = c
    BY <1>1, <1>2, <1>3, <1>4, <1>5, <2>1 DEF Running
  <2>2. CASE e # c
    <3>1. conn'[e] = conn[e] /\ conn[e].pc \in Admitted
      BY <1>4, <2>2
    <3>2. conn[e].token # t \/ conn[e].body # b
      BY <1>3, <2>2, <3>1
    <3>3. \A d \in Conns \ {e} : conn'[d].pc \in Admitted =>
             conn'[d].token # conn[e].token \/ conn'[d].body # conn[e].body
      BY <1>4, <1>5, <3>1, <3>2 DEF Account, Owned
    <3> QED BY <1>1, <1>2, <3>1, <3>2, <3>3 DEF Account, Owned
  <2> QED BY <2>1, <2>2
<1>7. Remembered'
  <2>1. \A i \in DOMAIN budget[t].done : budget[t].done[i].body # b
    BY <1>1, <1>3 DEF Account, Remembered
  <2> QED BY <1>1, <1>2, <1>3, <2>1 DEF Account, Remembered
<1>8. OneUsePerBody' /\ SameAnswer'
  BY <1>2, <1>3 DEF Account, OneUsePerBody, SameAnswer
<1> QED BY <1>6, <1>7, <1>8 DEF Account

\* resolve keeps the outcome that was sent and answers the waiting with it.
LEMMA AccountResolves ==
  ASSUME TypeOK, Account, NEW c \in Conns, NEW t \in Tokens, NEW b \in Bodies, NEW out,
         conn[c].token = t, conn[c].body = b, conn[c].out = out, conn[c].pc = "resolve",
         \A d \in Conns : conn'[d].pc \in Admitted => d # c /\ conn'[d] = conn[d],
         budget'[t].used = budget[t].used, budget'[t].flight = budget[t].flight \ {b},
         \A i \in DOMAIN budget'[t].done :
            \/ budget'[t].done[i] = [body |-> b, out |-> out]
            \/ \E j \in DOMAIN budget[t].done : budget'[t].done[i] = budget[t].done[j],
         \A s \in Tokens \ {t} : budget'[s] = budget[s],
         answers' \subseteq answers \cup {[token |-> t, body |-> b, out |-> out]},
         answers \subseteq answers',
         UNCHANGED uses
  PROVE  Account'
<1>1. /\ b \in budget[t].flight /\ b \in budget[t].used
      /\ \A d \in Conns \ {c} : conn[d].pc \in Admitted => conn[d].token # t \/ conn[d].body # b
      /\ \A a \in answers : a.token = t /\ a.body = b => a.out = out
  BY DEF Account, Owned, Remembered, Admitted
<1>2. \A a \in answers' : a \in answers \/ (a.token = t /\ a.body = b /\ a.out = out)
  OBVIOUS
<1>3. \A a \in answers' : a.token = t /\ a.body = b => a.out = out
  BY <1>1, <1>2
<1>4. \A i \in DOMAIN budget'[t].done :
         \/ budget'[t].done[i].body = b /\ budget'[t].done[i] = [body |-> b, out |-> out]
         \/ budget'[t].done[i].body # b /\ \E j \in DOMAIN budget[t].done : budget'[t].done[i] = budget[t].done[j]
  <2>1. \A j \in DOMAIN budget[t].done : budget[t].done[j].body # b
    BY <1>1 DEF Account, Remembered
  <2> QED BY <2>1
<1>5. \A d \in Conns : conn[d].pc \in Admitted => conn[d].token \in Tokens
  BY Carries DEF Admitted, Running, Request
<1>6. Owned'
  <2> SUFFICES ASSUME NEW e \in Conns, conn'[e].pc \in Admitted
               PROVE  LET s == conn'[e].token  x == conn'[e].body IN
                      /\ x \in budget'[s].flight
                      /\ \A d \in Conns \ {e} : conn'[d].pc \in Admitted => conn'[d].token # s \/ conn'[d].body # x
                      /\ conn'[e].pc \in Running =>
                           /\ \A u \in uses' : u.token # s \/ u.body # x
                           /\ \A a \in answers' : a.token # s \/ a.body # x
                      /\ conn'[e].pc = "resolve" =>
                           \A a \in answers' : a.token = s /\ a.body = x => a.out = conn'[e].out
    BY DEF Owned
  <2>1. /\ e # c /\ conn'[e] = conn[e] /\ conn[e].pc \in Admitted /\ conn[e].token \in Tokens
        /\ conn[e].token # t \/ conn[e].body # b
    BY <1>1, <1>5
  <2>2. conn[e].body \in budget'[conn[e].token].flight
    BY <2>1 DEF Account, Owned
  <2>3. \A d \in Conns \ {e} : conn'[d].pc \in Admitted =>
           conn'[d].token # conn[e].token \/ conn'[d].body # conn[e].body
    BY <2>1 DEF Account, Owned
  <2>4. \A a \in answers' : a.token = conn[e].token /\ a.body = conn[e].body => a \in answers
    BY <1>2, <2>1
  <2> QED BY <2>1, <2>2, <2>3, <2>4 DEF Account, Owned
<1>7. Remembered'
  <2>1. \A s \in Tokens : /\ budget'[s].flight \subseteq budget'[s].used
                          /\ IsFiniteSet(budget'[s].used) /\ Cardinality(budget'[s].used) <= MaxOps
                          /\ budget'[s].used = budget[s].used
    BY DEF Account, Remembered
  <2>2. ASSUME NEW s \in Tokens, NEW i \in DOMAIN budget'[s].done
        PROVE  /\ budget'[s].done[i].body \in budget'[s].used \ budget'[s].flight
               /\ \A j \in DOMAIN budget'[s].done :
                    budget'[s].done[j].body = budget'[s].done[i].body => budget'[s].done[j] = budget'[s].done[i]
               /\ \A a \in answers' : a.token = s /\ a.body = budget'[s].done[i].body
                                       => a.out = budget'[s].done[i].out
    <3>1. CASE s # t
      <4>1. \A a \in answers' : a.token = s => a \in answers
        BY <1>2, <3>1
      <4> QED BY <2>2, <3>1, <4>1 DEF Account, Remembered
    <3>2. CASE s = t /\ budget'[t].done[i].body = b
      <4>1. budget'[t].done[i] = [body |-> b, out |-> out]
        BY <1>4, <2>2, <3>2
      <4>2. budget'[t].done[i].out = out
        BY <4>1
      <4>3. \A j \in DOMAIN budget'[t].done : budget'[t].done[j].body = b => budget'[t].done[j] = budget'[t].done[i]
        BY <1>4, <4>1
      <4> QED BY <1>1, <1>3, <3>2, <4>2, <4>3
    <3>3. CASE s = t /\ budget'[t].done[i].body # b
      <4>1. PICK k \in DOMAIN budget[t].done : budget'[t].done[i] = budget[t].done[k]
        BY <1>4, <2>2, <3>3
      <4>2. \A j \in DOMAIN budget'[t].done : budget'[t].done[j].body = budget'[t].done[i].body
              => budget'[t].done[j] = budget'[t].done[i]
        <5>1. ASSUME NEW j \in DOMAIN budget'[t].done, budget'[t].done[j].body = budget'[t].done[i].body
              PROVE  budget'[t].done[j] = budget'[t].done[i]
          <6>1. PICK l \in DOMAIN budget[t].done : budget'[t].done[j] = budget[t].done[l]
            BY <1>4, <3>3, <5>1
          <6> QED BY <4>1, <5>1, <6>1 DEF Account, Remembered
        <5> QED BY <5>1
      <4>3. \A a \in answers' : a.token = t /\ a.body = budget'[t].done[i].body => a \in answers
        BY <1>2, <3>3
      <4>4. budget[t].done[k].body \in budget[t].used \ budget[t].flight
        BY <4>1 DEF Account, Remembered
      <4>5. \A a \in answers : a.token = t /\ a.body = budget[t].done[k].body => a.out = budget[t].done[k].out
        BY <4>1 DEF Account, Remembered
      <4> QED BY <3>3, <4>1, <4>2, <4>3, <4>4, <4>5
    <3> QED BY <3>1, <3>2, <3>3
  <2>3. \A u \in uses' : u.token \in Tokens /\ u.body \in budget'[u.token].used
    BY <2>1 DEF Account, Remembered
  <2>4. \A a \in answers' : a.token \in Tokens /\ a.body \in budget'[a.token].used
    BY <1>1, <1>2, <2>1 DEF Account, Remembered
  <2> QED BY <2>1, <2>2, <2>3, <2>4 DEF Remembered
<1>8. SameAnswer'
  <2>1. \A a \in answers' : a \in answers \/ a = [token |-> t, body |-> b, out |-> out]
    OBVIOUS
  <2>2. \A a \in answers' : a.token = t /\ a.body = b => a = [token |-> t, body |-> b, out |-> out]
    <3>1. \A a \in answers : a.token = t /\ a.body = b => a = [token |-> t, body |-> b, out |-> out]
      BY <1>1 DEF TypeOK, Said
    <3> QED BY <2>1, <3>1
  <2> QED BY <1>2, <2>2 DEF Account, SameAnswer
<1> QED BY <1>6, <1>7, <1>8 DEF Account, OneUsePerBody

\* Every step keeps the account.
LEMMA AccountNext == ASSUME TypeOK, Account, [Next]_vars PROVE Account'
<1>a. /\ conn \in [Conns -> Request \cup {Idle}] /\ Idle.pc \notin Admitted
      /\ budget \in [Tokens -> [used : SUBSET Bodies, flight : SUBSET Bodies, done : Seq(Result)]]
  BY DEF TypeOK, Idle, Admitted, Running
<1>b. ASSUME UNCHANGED <<budget, uses, answers>>, NEW c \in Conns, NEW q, q.pc \notin Admitted,
             conn' = [conn EXCEPT ![c] = q]
      PROVE  Account'
  <2>1. \A d \in Conns : conn'[d] = conn[d] \/ conn'[d].pc \notin Admitted
    BY <1>a, <1>b
  <2> QED BY <1>b, <2>1, AccountQuiet
<1>1. CASE Others \/ UNCHANGED vars
  <2>1. UNCHANGED <<conn, budget, uses, answers>>
    BY <1>1, OthersLeave
  <2> QED BY <2>1, AccountQuiet
<1>2. ASSUME NEW t \in Tokens, OutcomeExpires(t) PROVE Account'
  <2>1. /\ budget[t] \in [used : SUBSET Bodies, flight : SUBSET Bodies, done : Seq(Result)]
        /\ budget[t].done # <<>> /\ UNCHANGED <<conn, uses, answers>>
        /\ budget' = [budget EXCEPT ![t].done = Tail(budget[t].done)]
    BY <1>a, <1>2 DEF OutcomeExpires, history
  <2> DEFINE d == budget[t].done
  <2>2. d \in Seq(Result) /\ d # <<>>
    BY <2>1
  <2>3. \A i \in DOMAIN Tail(d) : \E j \in DOMAIN d : Tail(d)[i] = d[j]
    <3> HIDE DEF d
    <3>1. Len(d) \in Nat /\ Len(d) > 0 /\ DOMAIN d = 1 .. Len(d) /\ DOMAIN Tail(d) = 1 .. Len(d) - 1
      BY <2>2
    <3>2. \A i \in 1 .. Len(d) - 1 : Tail(d)[i] = d[i + 1] /\ i + 1 \in 1 .. Len(d)
      BY <2>2, <3>1
    <3> QED BY <3>1, <3>2
  <2>4. \A s \in Tokens :
           /\ budget'[s].used = budget[s].used /\ budget'[s].flight = budget[s].flight
           /\ budget'[s].done = IF s = t THEN Tail(d) ELSE budget[s].done
    BY <1>a, <2>1
  <2>5. \A s \in Tokens : \A i \in DOMAIN budget'[s].done :
           \E j \in DOMAIN budget[s].done : budget'[s].done[i] = budget[s].done[j]
    <3>1. \A s \in Tokens \ {t} : budget'[s].done = budget[s].done
      BY <2>4
    <3>2. budget'[t].done = Tail(d)
      BY <2>4
    <3>3. \A i \in DOMAIN budget'[t].done :
            \E j \in DOMAIN budget[t].done : budget'[t].done[i] = budget[t].done[j]
      BY <2>3, <3>2
    <3> HIDE DEF d
    <3> QED BY <3>1, <3>3
  <2> QED BY <2>1, <2>4, <2>5, AccountQuiet
<1>3. ASSUME NEW c \in Conns, NEW t \in Tokens, NEW p \in {"sign", "register"}, NEW b \in Bodies,
             Accept(c, t, p, b)
      PROVE  Account'
  <2>1. PICK r \in Request : conn' = [conn EXCEPT ![c] = r] /\ r.pc = "claim"
    BY <1>3, AcceptMoves
  <2>2. UNCHANGED <<budget, uses, answers>>
    BY <1>3 DEF Accept, history
  <2> QED BY <1>b, <2>1, <2>2 DEF Admitted, Running
<1>4. ASSUME NEW c \in Conns, ConnStep(c) PROVE Account'
  <2>1. CASE Claim(c)
    <3> DEFINE t == conn[c].token
               b == conn[c].body
    <3>1. conn[c] \in Request /\ conn[c].pc = "claim" /\ UNCHANGED uses /\ t \in Tokens /\ b \in Bodies
      BY <2>1, ClaimMoves DEF Request
    <3>2. ASSUME NEW r, Moves(c, r), r.pc = "wait", UNCHANGED <<budget, answers>> PROVE Account'
      BY <1>b, <3>1, <3>2 DEF Moves, Admitted, Running
    <3>3. ASSUME conn' = [conn EXCEPT ![c] = Idle], UNCHANGED <<budget, answers>> PROVE Account'
      BY <1>a, <1>b, <3>1, <3>3
    <3>4. ASSUME conn' = [conn EXCEPT ![c] = Idle], UNCHANGED budget,
                 NEW i \in DOMAIN budget[t].done, budget[t].done[i].body = b,
                 answers' = answers \cup {[token |-> t, body |-> b, out |-> budget[t].done[i].out]}
          PROVE  Account'
      <4> DEFINE out == budget[t].done[i].out
      <4>1. \A d \in Conns : conn'[d].pc \in Admitted => conn'[d] = conn[d]
        BY <1>a, <3>4 DEF Idle, Admitted, Running
      <4>2. /\ \E k \in DOMAIN budget[t].done : budget[t].done[k].body = b /\ budget[t].done[k].out = out
            /\ answers' = answers \cup {[token |-> t, body |-> b, out |-> out]}
        BY <3>4
      <4> HIDE DEF t, b, out
      <4> QED BY <3>1, <3>4, <4>1, <4>2, AccountCached
    <3>5. ASSUME NEW r, Moves(c, r), r.pc = "handle", b \notin budget[t].used,
                 ~(Cardinality(budget[t].used) >= MaxOps),
                 budget' = [budget EXCEPT ![t].used = @ \cup {b}, ![t].flight = @ \cup {b}],
                 UNCHANGED answers
          PROVE  Account'
      <4> HIDE DEF t, b
      <4>1. /\ budget'[t].used = budget[t].used \cup {b} /\ budget'[t].flight = budget[t].flight \cup {b}
            /\ budget'[t].done = budget[t].done
            /\ \A s \in Tokens \ {t} : budget'[s] = budget[s]
        BY <1>a, <3>1, <3>5
      <4>2. /\ conn'[c].token = t /\ conn'[c].body = b /\ conn'[c].pc = "handle"
            /\ \A d \in Conns \ {c} : conn'[d] = conn[d]
        BY <1>a, <3>5 DEF Moves, t, b
      <4>3. PICK t0 \in Tokens, b0 \in Bodies : t0 = t /\ b0 = b
        BY <3>1
      <4>4. /\ b0 \notin budget[t0].used /\ ~(Cardinality(budget[t0].used) >= MaxOps)
            /\ budget'[t0].used = budget[t0].used \cup {b0} /\ budget'[t0].flight = budget[t0].flight \cup {b0}
            /\ budget'[t0].done = budget[t0].done
            /\ \A s \in Tokens \ {t0} : budget'[s] = budget[s]
            /\ UNCHANGED <<uses, answers>>
            /\ conn'[c].token = t0 /\ conn'[c].body = b0 /\ conn'[c].pc = "handle"
            /\ \A d \in Conns \ {c} : conn'[d] = conn[d]
        BY <3>1, <3>5, <4>1, <4>2, <4>3
      <4> QED BY <4>4, AccountAdmits
    <3> QED BY <2>1, <3>2, <3>3, <3>4, <3>5, ClaimMoves
  <2>2. CASE WaitTimesOut(c)
    BY <1>a, <1>b, <2>2 DEF WaitTimesOut, Goto, history
  <2>3. CASE Resolve(c)
    <3>1. conn[c] \in Request /\ conn[c].pc = "resolve" /\ UNCHANGED uses
      BY <2>3, Carries DEF Resolve
    <3> DEFINE t == conn[c].token
               b == conn[c].body
               out == conn[c].out
               d == budget[t].done
               e == [body |-> b, out |-> out]
               new == Append(IF Len(d) >= CacheSize THEN Tail(d) ELSE d, e)
    <3>2. t \in Tokens /\ b \in Bodies /\ e \in Result /\ d \in Seq(Result)
      BY <1>a, <3>1 DEF Request, Result
    <3>3. \A i \in DOMAIN new : new[i] = e \/ \E j \in DOMAIN d : new[i] = d[j]
      BY <3>2, CompletedCache
    <3>4. budget' = [budget EXCEPT ![t] = [budget[t] EXCEPT !.flight = @ \ {b}, !.done = new]]
      BY <2>3 DEF Resolve, Completed
    <3> HIDE DEF new, t, b, d
    <3>5. /\ budget'[t].used = budget[t].used /\ budget'[t].flight = budget[t].flight \ {b}
          /\ budget'[t].done = new
          /\ \A s \in Tokens \ {t} : budget'[s] = budget[s]
      BY <1>a, <3>2, <3>4
    <3>6. \A x \in Conns : conn'[x].pc \in Admitted => x # c /\ conn'[x] = conn[x]
      BY <1>a, <2>3 DEF Resolve
    <3>7. /\ answers' \subseteq answers \cup {[token |-> t, body |-> b, out |-> out]}
          /\ answers \subseteq answers'
      BY <2>3 DEF Resolve, t, b
    <3>8. /\ conn[c].token = t /\ conn[c].body = b /\ conn[c].out = out
          /\ \A i \in DOMAIN budget'[t].done :
                \/ budget'[t].done[i] = [body |-> b, out |-> out]
                \/ \E j \in DOMAIN budget[t].done : budget'[t].done[i] = budget[t].done[j]
      BY <3>3, <3>5 DEF t, b, d
    <3> HIDE DEF out, e
    <3>9. PICK t0, b0, o0 :
            t0 \in Tokens /\ b0 \in Bodies /\ t0 = t /\ b0 = b /\ o0 = out
      BY <3>2
    <3>10. /\ conn[c].token = t0 /\ conn[c].body = b0 /\ conn[c].out = o0 /\ conn[c].pc = "resolve"
           /\ budget'[t0].used = budget[t0].used /\ budget'[t0].flight = budget[t0].flight \ {b0}
           /\ \A i \in DOMAIN budget'[t0].done :
                 \/ budget'[t0].done[i] = [body |-> b0, out |-> o0]
                 \/ \E j \in DOMAIN budget[t0].done : budget'[t0].done[i] = budget[t0].done[j]
           /\ \A s \in Tokens \ {t0} : budget'[s] = budget[s]
           /\ answers' \subseteq answers \cup {[token |-> t0, body |-> b0, out |-> o0]}
           /\ answers \subseteq answers'
           /\ UNCHANGED uses
      BY <3>1, <3>5, <3>7, <3>8, <3>9
    <3> QED BY <3>6, <3>9, <3>10, AccountResolves
  <2>4. ASSUME NEW r, Progress(c, r) PROVE Account'
    <3>1. /\ UNCHANGED <<budget, uses, answers>> /\ conn[c].pc \in Running /\ r.pc \in Running
          /\ conn[c] \in Request /\ r.token = conn[c].token /\ r.body = conn[c].body
          /\ conn' = [conn EXCEPT ![c] = r]
      BY <2>4 DEF Progress, Moves
    <3>2. \A d \in Conns :
           \/ conn'[d] = conn[d]
           \/ /\ conn[d].pc \in Running /\ conn'[d].pc \in Running /\ conn[d] \in Request
              /\ conn'[d].token = conn[d].token /\ conn'[d].body = conn[d].body
      BY <1>a, <3>1
    <3> QED BY <3>1, <3>2, AccountQuiet
  <2>5. ASSUME NEW r, NEW made, Returns(c, r, made) PROVE Account'
    BY <2>5, AccountReturns
  <2> QED BY <1>4, <2>1, <2>2, <2>3, <2>4, <2>5, ConnEffects
<1> QED BY <1>1, <1>2, <1>3, <1>4, NextSplit

-----------------------------------------------------------------------------
(* The stages of a handler.                                                 *)

\* What one step of a handler does to its stage.
Stepwise(c) ==
  /\ conn[c] \in Request /\ conn'[c] \in Request
  /\ conn'[c].token = conn[c].token /\ conn'[c].path = conn[c].path
  /\ \/ conn[c].pc \in {"claim", "handle"} /\ conn'[c].pc \in {"handle", "grant"}
     \/ /\ CheckSignGrant(c) /\ conn'[c].pc = "storage" /\ conn[c].path = "sign"
     \/ /\ CheckRegistrationGrant(c) /\ conn'[c].pc = "storage" /\ conn[c].path = "register"
        /\ conn'[c].grant \in Enrolments
     \/ /\ conn[c].pc = "storage" /\ conn[c].path = "sign" /\ conn'[c].pc = "count"
     \/ /\ conn[c].pc = "storage" /\ conn[c].path = "register" /\ conn'[c].pc = "consume"
        /\ conn'[c].grant = conn[c].grant
     \/ /\ WriteCount(c) /\ conn'[c].pc = "key"
        /\ count' = IF count < MaxCount THEN count + 1 ELSE MaxCount
        /\ conn'[c].out.res = "signed" /\ conn'[c].out.n = count'
     \/ /\ conn[c].pc = "key" /\ conn'[c].pc = "activate" /\ conn'[c].out = conn[c].out
     \/ /\ Consume(c) /\ conn'[c].pc = "write"
        /\ conn'[c].grant = conn[c].grant /\ enrol[conn[c].grant].state = "Active"
        /\ enrol' = [enrol EXCEPT ![conn[c].grant] = [enrol[conn[c].grant] EXCEPT !.state = "Revoked"]]

\* A step of a connection leaves the handler, returns from it or is one of its
\* quiet steps.
LEMMA StepKinds ==
  ASSUME TypeOK, NEW c \in Conns, ConnStep(c)
  PROVE  \/ conn'[c].pc \notin Running /\ UNCHANGED uses
         \/ \E r, made : Returns(c, r, made)
         \/ Stepwise(c) /\ UNCHANGED uses
<1>a. conn \in [Conns -> Request \cup {Idle}]
  BY DEF TypeOK
<1>0. ASSUME NEW pc \in Stages, At(c, pc), conn[c].pc # "idle"
      PROVE  /\ conn[c] \in Request /\ conn'[c] \in Request /\ conn'[c].pc = pc
             /\ conn'[c].token = conn[c].token /\ conn'[c].path = conn[c].path
             /\ conn'[c].out = conn[c].out /\ conn'[c].grant = conn[c].grant
  BY <1>a, <1>0, AtMoves DEF Moves
<1>1. CASE Claim(c)
  <2>1. conn[c].pc = "claim" /\ UNCHANGED uses
    BY <1>1 DEF Claim, ClaimUpTo
  <2>2. conn' = [conn EXCEPT ![c] = Idle] \/ \E r : Moves(c, r) /\ r.pc \in {"wait", "handle"}
    BY <1>1, ClaimMoves
  <2>3. CASE conn' = [conn EXCEPT ![c] = Idle]
    BY <1>a, <2>1, <2>3 DEF Idle, Running
  <2>4. ASSUME NEW r, Moves(c, r), r.pc = "wait" PROVE conn'[c].pc \notin Running
    BY <1>a, <2>4 DEF Moves, Running
  <2>5. ASSUME NEW r, Moves(c, r), r.pc = "handle" PROVE Stepwise(c)
    BY <1>a, <2>1, <2>5 DEF Moves, Stepwise
  <2> QED BY <2>1, <2>2, <2>3, <2>4, <2>5
<1>2. CASE WaitTimesOut(c) \/ Resolve(c)
  BY <1>a, <1>2 DEF WaitTimesOut, Resolve, Goto, Idle, Running, history
<1>3. CASE LockOperation(c)
  BY <1>0, <1>3 DEF LockOperation, Stages, Stepwise, history
<1>4. CASE CheckSignGrant(c)
  BY <1>0, <1>4 DEF CheckSignGrant, Stages, Stepwise, history
<1>5. CASE CheckRegistrationGrant(c)
  <2>1. PICK g \in Enrolments : conn' = [conn EXCEPT ![c] = [conn[c] EXCEPT !.pc = "storage", !.grant = g]]
    BY <1>5 DEF CheckRegistrationGrant, Goto, ActiveRegistration, Usable
  <2>2. conn[c] \in Request /\ conn[c].path = "register" /\ UNCHANGED uses
    BY <1>5, Carries DEF CheckRegistrationGrant, history
  <2>3. /\ conn'[c] \in Request /\ conn'[c].pc = "storage" /\ conn'[c].token = conn[c].token
        /\ conn'[c].path = conn[c].path /\ conn'[c].grant = g
    BY <1>a, <2>1, <2>2 DEF Request, Stages
  <2> QED BY <1>5, <2>2, <2>3 DEF Stepwise
<1>6. CASE SelectCredential(c)
  BY <1>0, <1>6 DEF SelectCredential, Stages, Stepwise, history
<1>7. CASE CheckExcluded(c)
  BY <1>0, <1>7 DEF CheckExcluded, Stages, Stepwise, history
<1>8. CASE WriteCount(c) /\ conn'[c].pc = "key"
  <2> DEFINE n == IF count < MaxCount THEN count + 1 ELSE MaxCount
  <2>1. conn[c] \in Request /\ conn[c].pc = "count" /\ UNCHANGED uses /\ n \in Nat
    BY <1>8, Carries, SignBoundsAssumption DEF WriteCount, TypeOK
  <2>2. ~Return(c, Refused)
    BY <1>8, <2>1, ReturnStage
  <2>3. count' = n /\ conn' = [conn EXCEPT ![c] = [conn[c] EXCEPT !.pc = "key", !.out = [res |-> "signed", n |-> n]]]
    BY <1>8, <2>2 DEF WriteCount, Goto
  <2> HIDE DEF n
  <2>4. [res |-> "signed", n |-> n] \in Outcome
    BY <2>1 DEF Outcome
  <2>5. /\ conn'[c] \in Request /\ conn'[c].pc = "key" /\ conn'[c].token = conn[c].token
        /\ conn'[c].path = conn[c].path /\ conn'[c].out = [res |-> "signed", n |-> n]
    BY <1>a, <2>1, <2>3, <2>4 DEF Request, Stages
  <2>6. conn'[c].out.res = "signed" /\ conn'[c].out.n = n
    BY <2>5
  <2> QED BY <1>8, <2>1, <2>3, <2>5, <2>6 DEF Stepwise, n
<1>9. CASE Sign(c) /\ conn'[c].pc = "activate"
  <2>1. conn[c] \in Request /\ conn[c].pc = "key"
    BY <1>9, Carries DEF Sign
  <2>2. ASSUME NEW out, Return(c, out) PROVE FALSE
    BY <1>9, <2>1, <2>2, ReturnStage
  <2>3. At(c, "activate") /\ UNCHANGED uses
    BY <1>9, <2>2 DEF Sign, Signed, history
  <2> QED BY <1>0, <2>1, <2>3 DEF Stages, Stepwise
<1>10. CASE Consume(c) /\ conn'[c].pc = "write"
  <2>1. conn[c] \in Request /\ conn[c].pc = "consume"
    BY <1>10, Carries DEF Consume
  <2>2. ~Return(c, Refused)
    BY <1>10, <2>1, ReturnStage
  <2>3. /\ At(c, "write") /\ UNCHANGED uses /\ enrol[conn[c].grant].state = "Active"
        /\ enrol' = [enrol EXCEPT ![conn[c].grant] = [enrol[conn[c].grant] EXCEPT !.state = "Revoked"]]
    BY <1>10, <2>2 DEF Consume
  <2> QED BY <1>0, <1>10, <2>1, <2>3 DEF Stages, Stepwise
<1>11. CASE \/ Refuse(c) \/ Activate(c) \/ WriteCredential(c)
            \/ WriteCount(c) /\ conn'[c].pc # "key"
            \/ Sign(c) /\ conn'[c].pc # "activate"
            \/ Consume(c) /\ conn'[c].pc # "write"
  BY <1>11, ReturnSteps
<1> QED BY <1>1, <1>2, <1>3, <1>4, <1>5, <1>6, <1>7, <1>8, <1>9, <1>10, <1>11
     DEF ConnStep, SignStep, RegisterStep

-----------------------------------------------------------------------------
(* Counters, registration grants and ended grants.                          *)

Counting == CountAhead /\ CountersDistinct

\* A signature carries a counter that no signature before it carried.
LEMMA CountingNext == ASSUME TypeOK, LocksHeld, Counting, [Next]_vars PROVE Counting'
<1>a. count \in 0 .. MaxCount /\ MaxCount \in Nat /\ conn \in [Conns -> Request \cup {Idle}]
  BY SignBoundsAssumption DEF TypeOK
<1>b. ASSUME UNCHANGED uses, count' \in 0 .. MaxCount, count <= count',
             \A d \in Conns : conn'[d].pc \in {"key", "activate"} =>
                 conn[d].pc \in {"key", "activate"} /\ conn'[d].out = conn[d].out
      PROVE  Counting'
  <2>1. \A n : n \in 0 .. count => n \in 0 .. count'
    BY <1>a, <1>b
  <2>2. CountAhead'
    BY <1>b, <2>1 DEF Counting, CountAhead
  <2> QED BY <1>b, <2>2 DEF Counting, CountersDistinct
<1>1. CASE Others \/ UNCHANGED vars
  BY <1>a, <1>b, <1>1, OthersLeave
<1>2. ASSUME NEW t \in Tokens, OutcomeExpires(t) PROVE Counting'
  BY <1>a, <1>b, <1>2 DEF OutcomeExpires, history
<1>3. ASSUME NEW c \in Conns, NEW t \in Tokens, NEW p \in {"sign", "register"}, NEW b \in Bodies,
             Accept(c, t, p, b)
      PROVE  Counting'
  <2>1. PICK r \in Request : conn' = [conn EXCEPT ![c] = r] /\ r.pc = "claim"
    BY <1>3, AcceptMoves
  <2>2. UNCHANGED <<uses, count>>
    BY <1>3 DEF Accept, history
  <2>3. \A d \in Conns : conn'[d].pc \in {"key", "activate"} => conn'[d] = conn[d]
    BY <1>a, <2>1
  <2> QED BY <1>a, <1>b, <2>2, <2>3
<1>4. ASSUME NEW c \in Conns, ConnStep(c) PROVE Counting'
  <2>0. /\ count' \in 0 .. MaxCount /\ count <= count'
        /\ \A d \in Conns \ {c} : conn'[d] = conn[d] \/ conn'[d].pc = "idle"
    BY <1>4, ConnStepWorld, OtherConns DEF Idle
  <2>1. CASE conn'[c].pc \notin Running /\ UNCHANGED uses
    <3>1. \A d \in Conns : conn'[d].pc \in {"key", "activate"} => conn'[d] = conn[d]
      BY <2>0, <2>1 DEF Running
    <3> QED BY <1>b, <2>0, <2>1, <3>1
  <2>2. CASE Stepwise(c) /\ conn'[c].pc # "key" /\ UNCHANGED uses
    <3>1. conn'[c].pc = "activate" => conn[c].pc = "key" /\ conn'[c].out = conn[c].out
      BY <2>2 DEF Stepwise
    <3>2. \A d \in Conns \ {c} : conn'[d].pc \in {"key", "activate"} => conn'[d] = conn[d]
      BY <2>0
    <3>3. \A d \in Conns : conn'[d].pc \in {"key", "activate"} =>
            conn[d].pc \in {"key", "activate"} /\ conn'[d].out = conn[d].out
      BY <2>2, <3>1, <3>2
    <3> QED BY <1>b, <2>0, <2>2, <3>3
  <2>3. CASE Stepwise(c) /\ conn'[c].pc = "key" /\ UNCHANGED uses
    <3>1. /\ conn[c].pc = "count"
          /\ count' = IF count < MaxCount THEN count + 1 ELSE MaxCount
          /\ conn'[c].out.res = "signed" /\ conn'[c].out.n = count'
      BY <2>3 DEF Stepwise, WriteCount
    <3>2. \A d \in Conns \ {c} : conn'[d].pc \notin {"key", "activate"}
      <4>1. \A d \in Conns \ {c} : conn[d].pc \notin {"key", "activate"}
        BY <3>1 DEF LocksHeld, HasStorage
      <4> QED BY <2>0, <4>1
    <3>3. \A u \in uses : u.made.res = "signed" => u.made.n \in 0 .. count
      BY DEF Counting, CountAhead
    <3>4. count' < MaxCount => \A n \in 0 .. count : n < count'
      BY <1>a, <3>1
    <3>5. \A n : n \in 0 .. count => n \in 0 .. count'
      BY <1>a, <2>0
    <3>6. count' \in 0 .. count'
      BY <2>0
    <3>7. CountAhead'
      BY <2>3, <3>1, <3>2, <3>3, <3>4, <3>5, <3>6 DEF CountAhead
    <3> QED BY <2>3, <3>7 DEF Counting, CountersDistinct
  <2>4. ASSUME NEW r, NEW made, Returns(c, r, made) PROVE Counting'
    <3>1. /\ uses' = uses \cup made /\ \A u, v \in made : u = v
          /\ conn'[c].pc = "resolve"
          /\ \A u \in made : u.made.res = "signed" =>
               conn[c].pc \in {"key", "activate"} /\ u.made = conn[c].out
          /\ \A u \in made : conn[c].pc \in HasStorage
      BY <1>a, <2>4 DEF Returns, Moves, Makes, HasStorage
    <3>2. \A d \in Conns : conn'[d].pc \in {"key", "activate"} => d # c /\ conn'[d] = conn[d]
      BY <2>0, <3>1
    <3>3. CASE made = {}
      <4>1. UNCHANGED uses
        BY <3>1, <3>3
      <4> QED BY <1>b, <2>0, <3>2, <4>1
    <3>4. CASE made # {}
      <4>1. conn[c].pc \in HasStorage
        BY <3>1, <3>4
      <4>2. \A d \in Conns : conn'[d].pc \notin {"key", "activate"}
        BY <3>2, <4>1 DEF LocksHeld, HasStorage
      <4>3. \A u \in made : u.made.res = "signed" =>
              /\ u.made.n \in 0 .. count
              /\ u.made.n < MaxCount => \A v \in uses : v.made.res = "signed" => v.made.n < u.made.n
        BY <3>1 DEF Counting, CountAhead
      <4>4. \A n : n \in 0 .. count => n \in 0 .. count'
        BY <1>a, <2>0
      <4>5. CountAhead'
        BY <3>1, <4>2, <4>3, <4>4 DEF Counting, CountAhead
      <4>6. ASSUME NEW u \in uses', NEW v \in uses', u.made.res = "signed", u.made = v.made, u.made.n < MaxCount
            PROVE  u = v
        <5>0. ~(u.made.n < u.made.n)
          <6>1. u.made.n \in 0 .. count
            BY <3>1, <4>3, <4>6 DEF Counting, CountAhead
          <6> QED BY <1>a, <6>1
        <5>1. CASE u \in uses /\ v \in uses
          BY <4>6, <5>1 DEF Counting, CountersDistinct
        <5>2. CASE u \in made /\ v \in made
          BY <3>1, <5>2
        <5>3. CASE u \in made /\ v \in uses
          BY <4>3, <4>6, <5>0, <5>3
        <5>4. CASE u \in uses /\ v \in made
          BY <4>3, <4>6, <5>0, <5>4
        <5> QED BY <3>1, <5>1, <5>2, <5>3, <5>4
      <4>7. CountersDistinct'
        BY <4>6 DEF CountersDistinct
      <4> QED BY <4>5, <4>7 DEF Counting
    <3> QED BY <3>3, <3>4
  <2> QED BY <1>4, <2>1, <2>2, <2>3, <2>4, StepKinds
<1> QED BY <1>1, <1>2, <1>3, <1>4, NextSplit

Enrolling == EnrolmentsSpent /\ OneCredentialPerGrant

\* A registration grant is spent before its credential is made, and by one
\* request.
LEMMA EnrollingNext == ASSUME TypeOK, LocksHeld, Counting, Enrolling, [Next]_vars PROVE Enrolling'
<1> DEFINE Bound(p, path) == p \in {"consume", "write"} \/ (p = "storage" /\ path = "register")
<1>a. conn \in [Conns -> Request \cup {Idle}] /\ enrol \in [Enrolments -> Enrolment \cup {NoEnrol}]
  BY DEF TypeOK
<1>b. ASSUME UNCHANGED uses,
             \A g \in Enrolments : enrol[g].state = "Revoked" => enrol'[g].state = "Revoked",
             \A d \in Conns :
               \/ conn'[d] = conn[d]
               \/ ~Bound(conn'[d].pc, conn'[d].path)
      PROVE  Enrolling'
  <2>1. \A u \in uses' : u.made.res = "registered" => u.by \in Enrolments /\ enrol'[u.by].state = "Revoked"
    BY <1>b DEF Enrolling, EnrolmentsSpent
  <2>2. ASSUME NEW d \in Conns
        PROVE  /\ Bound(conn'[d].pc, conn'[d].path) => conn'[d].grant \in Enrolments
               /\ conn'[d].pc = "write" =>
                    /\ enrol'[conn'[d].grant].state = "Revoked"
                    /\ \A u \in uses' : u.made.res = "registered" => u.by # conn'[d].grant
    <3>1. CASE conn'[d] = conn[d]
      BY <1>b, <3>1 DEF Enrolling, EnrolmentsSpent
    <3>2. CASE ~Bound(conn'[d].pc, conn'[d].path)
      BY <3>2
    <3> QED BY <1>b, <3>1, <3>2
  <2>3. EnrolmentsSpent'
    BY <2>1, <2>2 DEF EnrolmentsSpent
  <2> QED BY <1>b, <2>3 DEF Enrolling, OneCredentialPerGrant
<1>1. CASE Others \/ UNCHANGED vars
  BY <1>b, <1>1, OthersLeave, OthersWorld
<1>2. ASSUME NEW t \in Tokens, OutcomeExpires(t) PROVE Enrolling'
  BY <1>b, <1>2 DEF OutcomeExpires, history, enrolment
<1>3. ASSUME NEW c \in Conns, NEW t \in Tokens, NEW p \in {"sign", "register"}, NEW b \in Bodies,
             Accept(c, t, p, b)
      PROVE  Enrolling'
  <2>1. PICK r \in Request : conn' = [conn EXCEPT ![c] = r] /\ r.pc = "claim"
    BY <1>3, AcceptMoves
  <2>2. UNCHANGED <<uses, enrol>>
    BY <1>3 DEF Accept, history, enrolment
  <2>3. \A d \in Conns : conn'[d] = conn[d] \/ ~Bound(conn'[d].pc, conn'[d].path)
    BY <1>a, <2>1
  <2> QED BY <1>b, <2>2, <2>3
<1>4. ASSUME NEW c \in Conns, ConnStep(c) PROVE Enrolling'
  <2>0. /\ \A g \in Enrolments : enrol[g].state = "Revoked" => enrol'[g].state = "Revoked"
        /\ \A d \in Conns \ {c} : conn'[d] = conn[d] \/ conn'[d].pc = "idle"
    BY <1>4, ConnStepWorld, OtherConns DEF Idle
  <2>1. CASE UNCHANGED uses /\ ~Bound(conn'[c].pc, conn'[c].path)
    <3>1. \A d \in Conns : conn'[d] = conn[d] \/ ~Bound(conn'[d].pc, conn'[d].path)
      BY <2>0, <2>1
    <3> QED BY <1>b, <2>0, <2>1, <3>1
  <2>2. CASE Stepwise(c) /\ UNCHANGED uses /\ Bound(conn'[c].pc, conn'[c].path)
    <3>1. /\ conn'[c].grant \in Enrolments
          /\ conn'[c].pc = "write" =>
               /\ enrol[conn'[c].grant].state = "Active"
               /\ enrol'[conn'[c].grant].state = "Revoked"
      <4>1. CASE conn'[c].pc \in {"storage", "consume"}
        BY <2>2, <4>1 DEF Stepwise, Enrolling, EnrolmentsSpent
      <4>2. CASE conn'[c].pc = "write"
        <5>1. /\ conn[c].pc = "consume" /\ conn'[c].grant = conn[c].grant
              /\ enrol[conn[c].grant].state = "Active"
              /\ enrol' = [enrol EXCEPT ![conn[c].grant] = [enrol[conn[c].grant] EXCEPT !.state = "Revoked"]]
          BY <2>2, <4>2 DEF Stepwise, Consume
        <5>2. conn[c].grant \in Enrolments
          BY <5>1 DEF Enrolling, EnrolmentsSpent
        <5>3. enrol[conn[c].grant] \in Enrolment
          BY <1>a, <5>1, <5>2 DEF NoEnrol
        <5>4. [enrol[conn[c].grant] EXCEPT !.state = "Revoked"].state = "Revoked"
          BY <5>3 DEF Enrolment
        <5> QED BY <1>a, <5>1, <5>2, <5>4
      <4> QED BY <2>2, <4>1, <4>2
    <3>2. \A u \in uses : u.made.res = "registered" =>
            u.by \in Enrolments /\ enrol[u.by].state = "Revoked" /\ enrol'[u.by].state = "Revoked"
      BY <2>0 DEF Enrolling, EnrolmentsSpent
    <3>3. conn'[c].pc = "write" => \A u \in uses : u.made.res = "registered" => u.by # conn'[c].grant
      BY <3>1, <3>2
    <3>4. ASSUME NEW d \in Conns \ {c}
          PROVE  /\ Bound(conn'[d].pc, conn'[d].path) => conn'[d].grant \in Enrolments
                 /\ conn'[d].pc = "write" =>
                      /\ enrol'[conn'[d].grant].state = "Revoked"
                      /\ \A u \in uses : u.made.res = "registered" => u.by # conn'[d].grant
      <4>1. CASE conn'[d] = conn[d]
        BY <2>0, <4>1 DEF Enrolling, EnrolmentsSpent
      <4> QED BY <2>0, <4>1
    <3>5. EnrolmentsSpent'
      BY <2>2, <3>1, <3>2, <3>3, <3>4 DEF EnrolmentsSpent
    <3> QED BY <2>2, <3>5 DEF Enrolling, OneCredentialPerGrant
  <2>3. ASSUME NEW r, NEW made, Returns(c, r, made) PROVE Enrolling'
    <3>1. /\ uses' = uses \cup made /\ (\A u, v \in made : u = v) /\ UNCHANGED enrol
          /\ conn'[c].pc = "resolve"
          /\ \A u \in made : \/ conn[c].pc \in {"key", "activate"} /\ u.made = conn[c].out
                             \/ conn[c].pc = "write" /\ u.made.res = "registered" /\ u.by = conn[c].grant
      BY <1>a, <2>3 DEF Returns, Moves, Makes
    <3>2. \A u \in made : u.made.res = "registered" => conn[c].pc = "write" /\ u.by = conn[c].grant
      BY <3>1 DEF Counting, CountAhead
    <3>3. conn[c].pc = "write" =>
            /\ conn[c].grant \in Enrolments /\ enrol[conn[c].grant].state = "Revoked"
            /\ \A u \in uses : u.made.res = "registered" => u.by # conn[c].grant
            /\ \A d \in Conns \ {c} : conn[d].pc # "write"
      BY DEF Enrolling, EnrolmentsSpent, LocksHeld, HasStorage
    <3>4. \A u \in uses' : u.made.res = "registered" => u.by \in Enrolments /\ enrol'[u.by].state = "Revoked"
      BY <3>1, <3>2, <3>3 DEF Enrolling, EnrolmentsSpent
    <3>5. ASSUME NEW d \in Conns
          PROVE  /\ Bound(conn'[d].pc, conn'[d].path) => conn'[d].grant \in Enrolments
                 /\ conn'[d].pc = "write" =>
                      /\ enrol'[conn'[d].grant].state = "Revoked"
                      /\ \A u \in uses' : u.made.res = "registered" => u.by # conn'[d].grant
      <4>1. CASE d # c /\ conn'[d] = conn[d]
        BY <3>1, <3>2, <3>3, <4>1 DEF Enrolling, EnrolmentsSpent
      <4> QED BY <2>0, <3>1, <4>1
    <3>6. EnrolmentsSpent'
      BY <3>4, <3>5 DEF EnrolmentsSpent
    <3>7. OneCredentialPerGrant'
      BY <3>1, <3>2, <3>3 DEF Enrolling, OneCredentialPerGrant
    <3> QED BY <3>6, <3>7 DEF Enrolling
  <2>4. conn'[c].pc \notin Running => ~Bound(conn'[c].pc, conn'[c].path)
    BY DEF Running
  <2> QED BY <1>4, <2>1, <2>2, <2>3, <2>4, StepKinds
<1> QED BY <1>1, <1>2, <1>3, <1>4, NextSplit

\* What a launch, a revocation and the end of a lease or a grant do to grants.
LEMMA OthersGrants ==
  ASSUME TypeOK, GrantsEnd, Others \/ UNCHANGED vars
  PROVE  /\ \A t \in Tokens : lease'[t] = "none" => grant'[t] = "none"
         /\ launch' # Idle => lease'[launch'.token] # "none"
         /\ launch'.pc \in {"scan", "grant"} => grant'[launch'.token] = "none"
         /\ \A t \in Tokens : /\ grant[t] # "none" => grant'[t] # "none"
                              /\ grant[t] = "ended" => grant'[t] = "ended"
<1>a. /\ lease \in [Tokens -> Live \cup {"none", "ended"}] /\ Idle.pc = "idle"
      /\ grant \in [Tokens -> {"none", "active", "ended"}]
      /\ launch # Idle => /\ launch \in [pc : {"scan", "grant", "finish"}, token : Tokens, kind : Kinds]
                          /\ launch.token \in Tokens
  BY DEF TypeOK, Idle
<1>b. /\ \A t \in Tokens : lease[t] = "none" => grant[t] = "none"
      /\ launch # Idle => lease[launch.token] # "none"
      /\ launch.pc \in {"scan", "grant"} => grant[launch.token] = "none"
  BY DEF GrantsEnd
<1>c. ASSUME NEW pc \in {"grant", "finish"}, launch # Idle, launch' = [launch EXCEPT !.pc = pc]
      PROVE  launch'.token = launch.token /\ launch'.pc = pc /\ launch' # Idle
  <2>1. launch' \in [pc : {"scan", "grant", "finish"}, token : Tokens, kind : Kinds]
    BY <1>a, <1>c
  <2> QED BY <1>a, <1>c, <2>1
<1>1. ASSUME NEW t \in Tokens, NEW k \in Kinds, StartLaunch(t, k)
      PROVE  /\ UNCHANGED grant
             /\ \A s \in Tokens : lease'[s] = "none" => lease[s] = "none"
             /\ \/ UNCHANGED <<launch, lease>>
                \/ launch'.token = t /\ lease'[t] # "none" /\ grant[t] = "none"
  <2>1. UNCHANGED grant /\ lease[t] = "none"
    BY <1>1 DEF StartLaunch
  <2>2. \/ UNCHANGED <<launch, lease>>
        \/ launch' = [pc |-> "scan", token |-> t, kind |-> k] /\ lease' = [lease EXCEPT ![t] = "pending"]
    BY <1>1 DEF StartLaunch
  <2> QED BY <1>a, <1>b, <2>1, <2>2
<1>2. ASSUME NEW t \in Tokens, \E k \in Kinds : StartLaunch(t, k)
      PROVE  /\ \A s \in Tokens : lease'[s] = "none" => grant'[s] = "none"
             /\ launch' # Idle => lease'[launch'.token] # "none"
             /\ launch'.pc \in {"scan", "grant"} => grant'[launch'.token] = "none"
             /\ UNCHANGED grant
  BY <1>b, <1>1, <1>2
<1>3. CASE \E t \in Tokens : RevokeByLease(t) \/ EndLease(t) \/ EndGrant(t)
  <2>1. PICK t \in Tokens : RevokeByLease(t) \/ EndLease(t) \/ EndGrant(t)
    BY <1>3
  <2>2. UNCHANGED launch
    BY <2>1 DEF RevokeByLease, EndLease, EndGrant
  <2>3. \/ UNCHANGED <<lease, grant>>
        \/ lease' = [lease EXCEPT ![t] = "ended"] /\ UNCHANGED grant
        \/ UNCHANGED lease /\ grant[t] = "active" /\ grant' = [grant EXCEPT ![t] = "ended"]
    BY <2>1 DEF RevokeByLease, EndLease, EndGrant
  <2> QED BY <1>a, <1>b, <2>2, <2>3
<1>4. CASE LaunchScan
  <2>1. UNCHANGED <<lease, grant>> /\ launch.pc = "scan" /\ launch' = [launch EXCEPT !.pc = "grant"]
    BY <1>4 DEF LaunchScan
  <2>2. launch # Idle
    BY <1>a, <2>1
  <2> QED BY <1>b, <1>c, <2>1, <2>2
<1>5. CASE LaunchFails \/ LaunchFinish
  <2>1. launch' = Idle /\ UNCHANGED grant /\ launch # Idle
    BY <1>a, <1>5 DEF LaunchFails, LaunchFinish
  <2>2. UNCHANGED lease \/ lease' = [lease EXCEPT ![launch.token] = "ended"]
    BY <1>5 DEF LaunchFails, LaunchFinish
  <2> QED BY <1>a, <1>b, <2>1, <2>2
<1>6. CASE LaunchBind
  <2>1. /\ launch.pc = "grant" /\ UNCHANGED lease /\ launch' = [launch EXCEPT !.pc = "finish"]
        /\ grant' = [grant EXCEPT ![launch.token] = "active"]
    BY <1>6 DEF LaunchBind
  <2>2. launch # Idle /\ launch.token \in Tokens
    BY <1>a, <2>1
  <2>3. launch'.token = launch.token /\ launch'.pc = "finish"
    BY <1>c, <2>1, <2>2
  <2> QED BY <1>a, <1>b, <2>1, <2>2, <2>3
<1>7. CASE UNCHANGED vars \/ \E g \in Enrolments : RequestRegistration(g) \/ RegistrationExpires(g)
  <2>1. UNCHANGED <<lease, grant, launch>>
    BY <1>7 DEF vars, RequestRegistration, RegistrationExpires, registry
  <2> QED BY <1>b, <2>1
<1> QED BY <1>2, <1>3, <1>4, <1>5, <1>6, <1>7 DEF Others, LaunchStep

\* A grant that ended leaves at most the signature that had passed its check.
LEMMA GrantsNext ==
  ASSUME TypeOK, LocksHeld, Account, GrantsEnd, [Next]_vars
  PROVE  GrantsEnd'
<1> DEFINE Past(p, path) == p \in {"count", "key", "activate"} \/ (p = "storage" /\ path = "sign")
           World == /\ \A t \in Tokens : lease'[t] = "none" => grant'[t] = "none"
                    /\ launch' # Idle => lease'[launch'.token] # "none"
                    /\ launch'.pc \in {"scan", "grant"} => grant'[launch'.token] = "none"
                    /\ \A t \in Tokens : /\ grant[t] # "none" => grant'[t] # "none"
                                         /\ grant[t] = "ended" => grant'[t] = "ended"
<1>a. /\ conn \in [Conns -> Request \cup {Idle}] /\ grant \in [Tokens -> {"none", "active", "ended"}]
      /\ launch # Idle => launch.token \in Tokens
  BY DEF TypeOK
<1>b. /\ \A u \in uses : u.token \in Tokens
      /\ \A u \in uses : LateUse(u) => grant[u.token] = "ended"
      /\ \A u, v \in uses : LateUse(u) /\ LateUse(v) /\ u.token = v.token => u = v
  BY DEF GrantsEnd, Account, Remembered
<1>c. \A d \in Conns : Past(conn[d].pc, conn[d].path) =>
        /\ conn[d].token \in Tokens /\ grant[conn[d].token] # "none"
        /\ \A u \in uses : LateUse(u) => u.token # conn[d].token
  <2>1. \A d \in Conns : Past(conn[d].pc, conn[d].path) => conn[d].token \in Tokens
    BY Carries DEF Request
  <2> QED BY <2>1 DEF GrantsEnd
<1>d. ASSUME World, UNCHANGED uses,
             \A d \in Conns : Past(conn'[d].pc, conn'[d].path) =>
               /\ conn'[d].token \in Tokens /\ grant[conn'[d].token] # "none"
               /\ \A u \in uses : LateUse(u) => u.token # conn'[d].token
      PROVE  GrantsEnd'
  <2>1. \A d \in Conns : Past(conn'[d].pc, conn'[d].path) =>
          /\ grant'[conn'[d].token] # "none"
          /\ \A u \in uses' : LateUse(u) => u.token # conn'[d].token
    BY <1>d
  <2>2. /\ \A u \in uses' : LateUse(u) => grant'[u.token] = "ended"
        /\ \A u, v \in uses' : LateUse(u) /\ LateUse(v) /\ u.token = v.token => u = v
    BY <1>b, <1>d
  <2> QED BY <1>d, <2>1, <2>2 DEF GrantsEnd, LateUse
<1>1. CASE Others \/ UNCHANGED vars
  <2>1. World
    BY <1>1, OthersGrants
  <2>2. UNCHANGED <<conn, uses>>
    BY <1>1, OthersLeave
  <2> HIDE DEF World
  <2> QED BY <1>c, <1>d, <2>1, <2>2
<1>e. ASSUME UNCHANGED <<grant, launch>>, \A t \in Tokens : lease'[t] = "none" <=> lease[t] = "none"
      PROVE  World
  BY <1>a, <1>e DEF GrantsEnd
<1>2. ASSUME NEW t \in Tokens, OutcomeExpires(t) PROVE GrantsEnd'
  <2>1. UNCHANGED <<conn, uses, grant, launch, lease>>
    BY <1>2 DEF OutcomeExpires, history, registry
  <2> HIDE DEF World
  <2> QED BY <1>c, <1>d, <1>e, <2>1
<1>3. ASSUME NEW c \in Conns, NEW t \in Tokens, NEW p \in {"sign", "register"}, NEW b \in Bodies,
             Accept(c, t, p, b)
      PROVE  GrantsEnd'
  <2>1. PICK r \in Request : conn' = [conn EXCEPT ![c] = r] /\ r.pc = "claim"
    BY <1>3, AcceptMoves
  <2>2. UNCHANGED <<uses, grant, launch, lease>>
    BY <1>3 DEF Accept, history, registry
  <2>3. \A d \in Conns : Past(conn'[d].pc, conn'[d].path) => conn'[d] = conn[d]
    BY <1>a, <2>1
  <2> HIDE DEF World
  <2> QED BY <1>c, <1>d, <1>e, <2>2, <2>3
<1>4. ASSUME NEW c \in Conns, ConnStep(c) PROVE GrantsEnd'
  <2>0. World /\ UNCHANGED <<grant, launch>>
    <3> HIDE DEF World
    <3> QED BY <1>4, <1>e, ConnStepWorld
  <2>1. \A d \in Conns \ {c} : Past(conn'[d].pc, conn'[d].path) => conn'[d] = conn[d]
    BY <1>4, OtherConns DEF Idle
  <2>2. CASE UNCHANGED uses /\ ~Past(conn'[c].pc, conn'[c].path)
    <3>1. \A d \in Conns : Past(conn'[d].pc, conn'[d].path) => conn'[d] = conn[d]
      BY <2>1, <2>2
    <3> HIDE DEF World
    <3> QED BY <1>c, <1>d, <2>0, <2>2, <3>1
  <2>3. CASE Stepwise(c) /\ UNCHANGED uses /\ Past(conn'[c].pc, conn'[c].path)
    <3>1. /\ conn'[c].token \in Tokens /\ grant[conn'[c].token] # "none"
          /\ \A u \in uses : LateUse(u) => u.token # conn'[c].token
      <4>1. CASE conn'[c].pc = "storage"
        <5>1. CheckSignGrant(c) /\ conn'[c].token = conn[c].token /\ conn[c] \in Request
          BY <2>3, <4>1 DEF Stepwise
        <5>2. grant[conn[c].token] = "active" /\ conn[c].token \in Tokens
          BY <5>1 DEF CheckSignGrant, Request
        <5> QED BY <1>b, <5>1, <5>2
      <4>2. CASE conn'[c].pc # "storage"
        <5>1. conn'[c].token = conn[c].token /\ Past(conn[c].pc, conn[c].path)
          BY <2>3, <4>2 DEF Stepwise, WriteCount
        <5> QED BY <1>c, <5>1
      <4> QED BY <4>1, <4>2
    <3>2. \A d \in Conns : Past(conn'[d].pc, conn'[d].path) =>
               /\ conn'[d].token \in Tokens /\ grant[conn'[d].token] # "none"
               /\ \A u \in uses : LateUse(u) => u.token # conn'[d].token
      BY <1>c, <2>1, <3>1
    <3> HIDE DEF World
    <3> QED BY <1>d, <2>0, <2>3, <3>2
  <2>4. ASSUME NEW r, NEW made, Returns(c, r, made) PROVE GrantsEnd'
    <3>1. /\ uses' = uses \cup made /\ (\A u, v \in made : u = v)
          /\ conn'[c].pc = "resolve"
          /\ \A u \in made : /\ u.token = conn[c].token /\ conn[c].pc \in {"key", "activate", "write"}
                             /\ conn[c].pc # "write" => u.late = grant[conn[c].token]
                             /\ conn[c].pc = "write" => u.made.res = "registered"
      BY <1>a, <2>4 DEF Returns, Moves, Makes
    <3>2. \A u \in made : LateUse(u) =>
            /\ Past(conn[c].pc, conn[c].path) /\ u.token = conn[c].token
            /\ grant[conn[c].token] = "ended" /\ conn[c].token \in Tokens
      <4>1. \A u \in made : LateUse(u) => conn[c].pc # "write" /\ u.late # "active"
        BY <3>1 DEF LateUse
      <4>2. \A u \in made : LateUse(u) => Past(conn[c].pc, conn[c].path) /\ u.late = grant[conn[c].token]
        BY <3>1, <4>1
      <4> QED BY <1>a, <1>c, <3>1, <4>1, <4>2
    <3>3. \A u \in uses' : LateUse(u) => grant'[u.token] = "ended"
      BY <1>b, <2>0, <3>1, <3>2
    <3>4. \A u, v \in uses' : LateUse(u) /\ LateUse(v) /\ u.token = v.token => u = v
      BY <1>b, <1>c, <3>1, <3>2
    <3>5. ASSUME NEW d \in Conns, Past(conn'[d].pc, conn'[d].path)
          PROVE  /\ grant'[conn'[d].token] # "none"
                 /\ \A u \in uses' : LateUse(u) => u.token # conn'[d].token
      <4>1. d # c /\ conn'[d] = conn[d] /\ Past(conn[d].pc, conn[d].path)
        BY <2>1, <3>1, <3>5
      <4>2. CASE conn[d].pc = "storage"
        BY <1>c, <2>0, <3>1, <4>1, <4>2 DEF LocksHeld, HasOperation
      <4>3. CASE conn[d].pc # "storage"
        BY <1>c, <2>0, <3>1, <4>1, <4>3 DEF LocksHeld, HasOperation
      <4> QED BY <4>2, <4>3
    <3> QED BY <2>0, <3>3, <3>4, <3>5 DEF GrantsEnd, LateUse
  <2>5. conn'[c].pc \notin Running => ~Past(conn'[c].pc, conn'[c].path)
    BY DEF Running
  <2> HIDE DEF World
  <2> QED BY <1>4, <2>2, <2>3, <2>4, <2>5, StepKinds
<1> QED BY <1>1, <1>2, <1>3, <1>4, NextSplit

-----------------------------------------------------------------------------
(* The service as a whole.                                                  *)

\* A daemon that has just started satisfies the invariant.
LEMMA InitInv == Init => IInv
<1> SUFFICES ASSUME Init PROVE IInv
  OBVIOUS
<1>1. /\ uses = {} /\ answers = {} /\ conn = [c \in Conns |-> Idle] /\ launch = Idle
      /\ lease = [t \in Tokens |-> "none"] /\ grant = [t \in Tokens |-> "none"]
      /\ budget = [t \in Tokens |-> EmptyBudget]
  BY DEF Init
<1>2. /\ EmptyBudget.used = {} /\ EmptyBudget.flight = {} /\ EmptyBudget.done = <<>>
      /\ EmptyBudget \in [used : SUBSET Bodies, flight : SUBSET Bodies, done : Seq(Result)]
  BY DEF EmptyBudget
<1>3. \A c \in Conns : conn[c].pc = "idle"
  BY <1>1 DEF Idle
<1>4. IsFiniteSet({}) /\ Cardinality({}) = 0 /\ MaxOps \in Nat
  BY FS_EmptySet, SignBoundsAssumption
<1>5. TypeOK
  BY <1>1, <1>2, <1>4 DEF Init, TypeOK, Live
<1>6. LocksHeld
  BY <1>3 DEF LocksHeld, HasOperation, HasStorage
<1>7. Owned /\ CountAhead /\ EnrolmentsSpent
  BY <1>1, <1>3 DEF Owned, CountAhead, EnrolmentsSpent, Admitted, Running
<1>8. Remembered
  <2>1. \A t \in Tokens : budget[t].used = {} /\ budget[t].flight = {} /\ DOMAIN budget[t].done = {}
    BY <1>1, <1>2
  <2> QED BY <1>1, <1>4, <2>1 DEF Remembered
<1>9. GrantsEnd
  BY <1>1, <1>3 DEF GrantsEnd, Idle
<1> QED BY <1>1, <1>5, <1>6, <1>7, <1>8, <1>9
     DEF IInv, OneUsePerBody, SameAnswer, CountersDistinct, OneCredentialPerGrant

\* Every step keeps it: types, locks, budget, counters, registration grants
\* and grants in turn.
LEMMA NextInv == IInv /\ [Next]_vars => IInv'
BY TypeNext, LocksNext, AccountNext, CountingNext, EnrollingNext, GrantsNext
   DEF IInv, Account, Counting, Enrolling

\* The operations of a token are at most as many as the bodies its budget
\* remembers: each has a body of its own.
LEMMA UsesWithinBudget == IInv => WithinBudget
<1> SUFFICES ASSUME IInv, NEW t \in Tokens
             PROVE  Cardinality({u \in uses : u.token = t}) <= MaxOps
  BY DEF WithinBudget
<1> DEFINE S == {u \in uses : u.token = t}
           f == [u \in S |-> u.body]
<1>1. /\ IsFiniteSet(budget[t].used) /\ Cardinality(budget[t].used) <= MaxOps
      /\ \A u \in S : u.body \in budget[t].used
      /\ \A u, v \in S : u.body = v.body => u = v
  BY DEF IInv, Remembered, OneUsePerBody
<1>2. f \in Injection(S, budget[t].used)
  BY <1>1 DEF Injection, IsInjective
<1>3. Cardinality(S) <= Cardinality(budget[t].used) /\ IsFiniteSet(S)
  BY <1>1, <1>2, FS_Injection
<1>4. Cardinality(S) \in Nat /\ Cardinality(budget[t].used) \in Nat
  BY <1>1, <1>3, FS_CardinalityType
<1> QED BY <1>1, <1>3, <1>4, SignBoundsAssumption

\* The late signatures of a token are at most one.
LEMMA LateUsesOne == IInv => RevocationLeavesOne
<1> SUFFICES ASSUME IInv, NEW t \in Tokens
             PROVE  Cardinality({u \in uses : u.token = t /\ u.made.res = "signed" /\ u.late # "active"}) <= 1
  BY DEF RevocationLeavesOne
<1> DEFINE S == {u \in uses : u.token = t /\ u.made.res = "signed" /\ u.late # "active"}
<1>1. \A u, v \in S : u = v
  BY DEF IInv, GrantsEnd, LateUse
<1>2. CASE S = {}
  BY <1>2, FS_EmptySet
<1>3. ASSUME NEW u \in S PROVE Cardinality(S) <= 1
  <2>1. S = {u}
    BY <1>1, <1>3
  <2> HIDE DEF S
  <2> QED BY <2>1, FS_Singleton
<1> QED BY <1>2, <1>3

\* The inductive invariant holds throughout, for every number of browsers,
\* connections and registration grants and every budget and cache.
THEOREM InvHolds == Spec => []IInv
<1>1. Init => IInv
  BY InitInv
<1>2. IInv /\ [Next]_vars => IInv'
  BY NextInv
<1> QED BY <1>1, <1>2, PTL DEF Spec

\* Whatever the connections of a browser send at once, a body is executed once
\* for its token, everyone who is answered is told the same, and the token
\* makes no more than max_operations signatures and credentials.
THEOREM UsesBoundedHolds == Spec => []UsesBounded
<1>1. IInv => UsesBounded
  BY UsesWithinBudget DEF IInv, UsesBounded
<1> QED BY <1>1, InvHolds, PTL

\* No two signatures carry one counter before it saturates, a registration
\* grant makes one credential, and after a grant has ended at most the one
\* signature that had passed its check is still made.
THEOREM KeysAccountedHolds == Spec => []KeysAccounted
<1>1. IInv => KeysAccounted
  BY LateUsesOne DEF IInv, KeysAccounted
<1> QED BY <1>1, InvHolds, PTL
=============================================================================
