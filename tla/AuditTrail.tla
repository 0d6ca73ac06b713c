----------------------------- MODULE AuditTrail ------------------------------
(***************************************************************************)
(* What the audit log says of a daemon's life (agent/audit_events.rs), and *)
(* where the daemon says it: before an effect, and then a record that      *)
(* fails stops the operation, or after it, and then a failure is ignored.  *)
(*                                                                         *)
(* The log is the bag of its records: a record names what its builder is   *)
(* given.  policy.allow and the prompt records name the action and the RP  *)
(* and no ceremony, so they can only be counted.  How a record reaches the *)
(* disk is AuditLog; here one is kept or it is not, and after a failure    *)
(* the gate of that daemon stays shut.                                     *)
(***************************************************************************)
EXTENDS Naturals, Bags

CONSTANTS
    Ops,            \* credential operations
    Rps,            \* relying parties
    RuleSet,        \* the rules of the profile's RPs that are looked at
    MaxLives,       \* bound: times the daemon is started
    MaxActivities   \* bound: operations, leases, intents and commands begun

VARIABLES
    daemon,  \* "down", "starting", "up", "ending"
    life,    \* which life of the daemon this is
    gate,    \* "open" or "broken" (circuit_broken)
    log,     \* the bag of records
    op,      \* operation -> kind, step, RP, rule, what was done and answered
    profile, \* the profile: enabled, device
    req,     \* the intent, the grant and the session
    lease,   \* the browser lease
    cmd,     \* the command under way: its step, and the record still to come
    did,     \* history: effects by name
    begun    \* bound

vars == <<daemon, life, gate, log, op, profile, req, lease, cmd, did, begun>>
rest == <<profile, req, lease, cmd>>

-----------------------------------------------------------------------------
(* The records: a kind, and what the reader can tell it by.                 *)
Event(kind, of) == [kind |-> kind, of |-> of]

DaemonStart == Event("daemon.start", <<>>)
DaemonStop == Event("daemon.stop", <<>>)
DaemonRecover == Event("daemon.recover", <<>>)
ProfileCreate == Event("profile.create", <<>>)
ProfileFail == Event("profile.fail", <<>>)
EndpointCreate == Event("endpoint.create", <<>>)
BrowserLeaseExpire(l) == Event("browser_lease.expire", <<l>>)
BrowserLeaseCrash(l) == Event("browser_lease.crash", <<l>>)
BrowserLeaseCleanup(l) == Event("browser_lease.cleanup", <<l>>)
BrowserLeaseQuarantine(l) == Event("browser_lease.quarantine", <<l>>)
BrowserControlRequest(l, outcome) == Event("browser_control.request", <<l, outcome>>)
IntentCreate(i) == Event("intent.create", <<i>>)
IntentCancel(i) == Event("intent.cancel", <<i>>)
GrantRequest(g) == Event("grant.request", <<g>>)
GrantApprove(g) == Event("grant.approve", <<g>>)
PolicyAllow(action, rp, up, uv) == Event("policy.allow", <<action, rp, up, uv>>)
PolicyDeny(action, rp, reason) == Event("policy.deny", <<action, rp, reason>>)
CeremonyStart(o) == Event("ceremony.start", <<o>>)
CeremonySuccess(o) == Event("ceremony.success", <<o>>)
CeremonyFailure(o, reason) == Event("ceremony.failure", <<o, reason>>)
PromptDisplay(action, rp) == Event("prompt.display", <<action, rp>>)
PromptApprove(action, rp) == Event("prompt.approve", <<action, rp>>)
PromptDeny(action, rp) == Event("prompt.deny", <<action, rp>>)
PromptTimeout(action, rp) == Event("prompt.timeout", <<action, rp>>)
PromptError(action, rp) == Event("prompt.error", <<action, rp>>)
AdminProfileEnable == Event("admin.profile_enable", <<>>)
AdminProfileDisable == Event("admin.profile_disable", <<>>)
AdminProfileDisableRequest == Event("admin.profile_disable_request", <<>>)
AdminPolicyRecompile == Event("admin.policy_recompile", <<>>)
AdminCredentialRevoke == Event("admin.credential_revoke", <<>>)
AdminCredentialDelete(rp) == Event("admin.credential_delete", <<rp>>)
AdminGrantRevoke(g) == Event("admin.grant_revoke", <<g>>)
AdminSessionRevoke(s) == Event("admin.session_revoke", <<s>>)
AdminShutdownRequest == Event("admin.shutdown_request", <<>>)

(* policy.deny and ceremony.failure say why *)
PolicyDenyReasons == {"ActionNotAllowed", "AuthorityGone"}
CeremonyFailReasons == {"ConsumeFailed", "InnerHandlerError", "ResponseParseError"}

InLog(e) == CopiesIn(e, log) > 0
Keep(e) == log' = log (+) SetToBag({e})

(* AuditGate::record: nothing is kept once a record was lost *)
RecordOk(e) == gate = "open" /\ Keep(e) /\ UNCHANGED gate
RecordFails == gate' = "broken" /\ UNCHANGED log
RecordAnyway(e) == RecordOk(e) \/ RecordFails

-----------------------------------------------------------------------------
Idle == [step |-> "none"]
NoOp == [kind |-> "none", pc |-> "none"]
Nothing == [intent |-> "none", grant |-> "none", session |-> "live"]

Init ==
    /\ daemon = "down" /\ life = 0 /\ gate = "open" /\ log = EmptyBag
    /\ op = [o \in Ops |-> NoOp]
    /\ profile = [enabled |-> "no", device |-> "none"]
    /\ req = Nothing /\ lease = "none" /\ cmd = Idle
    /\ did = EmptyBag
    /\ begun = 0

Begin == daemon = "up" /\ begun < MaxActivities /\ begun' = begun + 1
Do(what) == did' = did (+) SetToBag({what})

(* AuditGate::open: what a crash tore off the log is cut and the cut is     *)
(* recorded; a daemon that cannot record it does not start.  start records  *)
(* daemon.start, or goes on without.                                        *)
OpenGate ==
    /\ daemon = "down" /\ life < MaxLives
    /\ life' = life + 1
    /\ \/ gate' = "open" /\ log' = log (+) SetToBag({DaemonStart})
       \/ gate' = "open" /\ life > 0 /\ log' = log (+) SetToBag({DaemonRecover, DaemonStart})
       \/ gate' = "broken" /\ UNCHANGED log
    /\ daemon' = "starting"
    /\ UNCHANGED <<op, rest, did, begun>>

(* the profile is announced, then its device; without the record there is   *)
(* no daemon                                                                *)
CreateProfile ==
    /\ daemon = "starting" /\ profile.enabled = "no"
    /\ \/ RecordOk(ProfileCreate) /\ profile' = [profile EXCEPT !.enabled = "yes"] /\ UNCHANGED daemon
       \/ RecordFails /\ daemon' = "down" /\ UNCHANGED profile
    /\ UNCHANGED <<life, op, req, lease, cmd, did, begun>>

CreateEndpoint ==
    /\ daemon = "starting" /\ profile.enabled = "yes"
    /\ \/ /\ RecordOk(EndpointCreate)
          /\ profile' = [profile EXCEPT !.device = "up"] /\ daemon' = "up" /\ Do([name |-> "device"])
       \/ /\ RecordFails
          /\ profile' = [profile EXCEPT !.enabled = "no"] /\ daemon' = "down" /\ UNCHANGED did
    /\ UNCHANGED <<life, op, req, lease, cmd, begun>>

(* The device itself cannot be made: profile.fail, and the daemon gives up. *)
EndpointFails ==
    /\ daemon = "starting" /\ profile.enabled = "yes"
    /\ RecordAnyway(ProfileFail)
    /\ profile' = [profile EXCEPT !.enabled = "no"] /\ daemon' = "down"
    /\ UNCHANGED <<life, op, req, lease, cmd, did, begun>>

AtRest == [o \in Ops |-> IF op[o].pc \in {"none", "done"} THEN op[o] ELSE [op[o] EXCEPT !.pc = "done"]]

Forget ==
    /\ op' = AtRest
    /\ profile' = [enabled |-> "no", device |-> "none"]
    /\ req' = Nothing /\ lease' = "none" /\ cmd' = Idle

(* A daemon may die at any step; it takes what it was doing with it. *)
Crash ==
    /\ daemon \in {"starting", "up", "ending"}
    /\ daemon' = "down"
    /\ Forget
    /\ UNCHANGED <<life, gate, log, did, begun>>

ShutdownRequested ==
    /\ daemon = "up" /\ cmd = Idle
    /\ RecordAnyway(AdminShutdownRequest)
    /\ daemon' = "ending"
    /\ UNCHANGED <<life, op, rest, did, begun>>

(* shutdown waits for the operations, then says so *)
ShutdownEnds ==
    /\ daemon = "ending"
    /\ \A o \in Ops : op[o].pc \in {"none", "done"}
    /\ RecordAnyway(DaemonStop)
    /\ daemon' = "down"
    /\ Forget
    /\ UNCHANGED <<life, did, begun>>

-----------------------------------------------------------------------------
(* Credential operations.                                                   *)
Running == daemon \in {"up", "ending"}

(* AgentCeremonyPolicy::validate *)
Rules == {[auth |-> "deny", up |-> "none", uv |-> "none"]}
    \cup {r \in [auth : {"confirm", "allow"}, up : {"none", "agent", "human"}, uv : {"none", "agent", "human"}] :
            r.auth = "allow" => r.up # "human"}

ActionOf(o) == IF op[o].kind = "register" THEN "register" ELSE "authenticate"
Step(o, pc) == op' = [op EXCEPT ![o].pc = pc]
End(o) == op' = [op EXCEPT ![o].pc = "done"]
Effect(o) == [name |-> "use", action |-> ActionOf(o), rp |-> op[o].rp]
Allowed(o) == PolicyAllow(ActionOf(o), op[o].rp, op[o].rule.up, op[o].rule.uv)

BeginOp(o, kind, rp, rule) ==
    /\ Begin /\ profile.enabled = "yes" /\ op[o].pc = "none"
    /\ op' = [op EXCEPT ![o] = [kind |-> kind, pc |-> "policy", rp |-> rp, rule |-> rule,
                                used |-> "no", answer |-> "none"]]
    /\ UNCHANGED <<daemon, life, gate, log, rest, did>>

(* A step that is one record: a ceremony does not go past a lost one. *)
Gated(o, e, pc) == (RecordOk(e) /\ Step(o, pc)) \/ (RecordFails /\ End(o))

(* audit_policy_deny of a ceremony; record_policy_deny and the others of    *)
(* the two services, which answer with an error all the same                *)
Deny(o) ==
    /\ Running /\ op[o].pc = "policy"
    /\ op[o].kind = "ceremony" => op[o].rule.auth = "deny"
    /\ RecordAnyway(PolicyDeny(ActionOf(o), op[o].rp, "ActionNotAllowed"))
    /\ End(o)
    /\ UNCHANGED <<daemon, life, rest, did, begun>>

ShowPrompt(o) ==
    /\ Running /\ op[o].pc = "policy" /\ op[o].kind = "ceremony" /\ op[o].rule.auth = "confirm"
    /\ Gated(o, PromptDisplay(ActionOf(o), op[o].rp), "prompt")
    /\ UNCHANGED <<daemon, life, rest, did, begun>>

Approved(o) ==
    /\ Running /\ op[o].pc = "prompt"
    /\ Gated(o, PromptApprove(ActionOf(o), op[o].rp), "resolve")
    /\ UNCHANGED <<daemon, life, rest, did, begun>>

NotApproved(o) ==
    /\ Running /\ op[o].pc = "prompt"
    /\ \E e \in {PromptDeny(ActionOf(o), op[o].rp), PromptTimeout(ActionOf(o), op[o].rp),
                 PromptError(ActionOf(o), op[o].rp)} : RecordAnyway(e)
    /\ End(o)
    /\ UNCHANGED <<daemon, life, rest, did, begun>>

NoPrompt(o) ==
    /\ Running /\ op[o].pc = "policy" /\ op[o].kind = "ceremony" /\ op[o].rule.auth = "allow"
    /\ Step(o, "resolve")
    /\ UNCHANGED <<daemon, life, gate, log, rest, did, begun>>

(* the pending request is gone (no record), or the authority is *)
AuthorityGone(o) ==
    /\ Running /\ op[o].pc = "resolve"
    /\ \/ UNCHANGED <<gate, log>>
       \/ RecordAnyway(PolicyDeny(ActionOf(o), op[o].rp, "AuthorityGone"))
    /\ End(o)
    /\ UNCHANGED <<daemon, life, rest, did, begun>>

CeremonyAllowed(o) ==
    /\ Running /\ op[o].pc = "resolve"
    /\ Gated(o, Allowed(o), "start")
    /\ UNCHANGED <<daemon, life, rest, did, begun>>

StartCeremony(o) ==
    /\ Running /\ op[o].pc = "start"
    /\ Gated(o, CeremonyStart(o), "consume")
    /\ UNCHANGED <<daemon, life, rest, did, begun>>

(* consume_authorization; the scope may still not open, and that is not     *)
(* recorded                                                                 *)
Consume(o) ==
    /\ Running /\ op[o].pc = "consume"
    /\ \/ Step(o, "inner") /\ UNCHANGED <<gate, log>>
       \/ End(o) /\ UNCHANGED <<gate, log>>
       \/ End(o) /\ RecordAnyway(CeremonyFailure(o, "ConsumeFailed"))
    /\ UNCHANGED <<daemon, life, rest, did, begun>>

(* The authenticator behind the handler uses the key, and then answers,     *)
(* fails with a status, or fails without one.                               *)
Inner(o) ==
    /\ Running /\ op[o].pc = "inner"
    /\ \/ op' = [op EXCEPT ![o].pc = "parse", ![o].used = "yes"] /\ Do(Effect(o)) /\ UNCHANGED <<gate, log>>
       \/ End(o) /\ UNCHANGED <<did, gate, log>>
       \/ End(o) /\ RecordAnyway(CeremonyFailure(o, "InnerHandlerError")) /\ UNCHANGED did
    /\ UNCHANGED <<daemon, life, rest, begun>>

(* mutant: the answer is handed out whether or not it was recorded *)
SucceedAnyway(o) ==
    /\ Running /\ op[o].pc = "parse"
    /\ RecordAnyway(CeremonySuccess(o))
    /\ op' = [op EXCEPT ![o].pc = "done", ![o].answer = "ok"]
    /\ UNCHANGED <<daemon, life, rest, did, begun>>

(* the answer is good: it is handed out once that is recorded *)
Succeed(o) ==
    /\ Running /\ op[o].pc = "parse"
    /\ \/ RecordOk(CeremonySuccess(o)) /\ op' = [op EXCEPT ![o].pc = "done", ![o].answer = "ok"]
       \/ RecordFails /\ End(o)
    /\ UNCHANGED <<daemon, life, rest, did, begun>>

(* the answer does not have the flags the rule asks for *)
BadAnswer(o) ==
    /\ Running /\ op[o].pc = "parse"
    /\ RecordAnyway(CeremonyFailure(o, "ResponseParseError"))
    /\ End(o)
    /\ UNCHANGED <<daemon, life, rest, did, begun>>

(* mutant: the service signs even if the record was lost *)
ServiceAllowedAnyway(o) ==
    /\ Running /\ op[o].pc = "policy" /\ op[o].kind \in {"sign", "register"}
    /\ op[o].rule.auth = "allow" /\ op[o].rule.up # "human"
    /\ RecordAnyway(Allowed(o)) /\ Step(o, "key")
    /\ UNCHANGED <<daemon, life, rest, did, begun>>

(* SignHandler::sign and RegisterHandler::register: a rule that waits for a *)
(* person's presence is refused; one that names a person's verification is  *)
(* refused only if the request asks for verification.                       *)
ServiceAllowed(o) ==
    /\ Running /\ op[o].pc = "policy" /\ op[o].kind \in {"sign", "register"}
    /\ op[o].rule.auth = "allow" /\ op[o].rule.up # "human"
    /\ Gated(o, Allowed(o), "key")
    /\ UNCHANGED <<daemon, life, rest, did, begun>>

(* The key is used and the answer returned.  A counter that cannot be       *)
(* stored is recorded as a denial; any other failure is not recorded.       *)
ServiceKey(o) ==
    /\ Running /\ op[o].pc = "key"
    /\ \/ /\ op' = [op EXCEPT ![o].pc = "done", ![o].used = "yes", ![o].answer = "ok"]
          /\ Do(Effect(o)) /\ UNCHANGED <<gate, log>>
       \/ End(o) /\ UNCHANGED <<did, gate, log>>
       \/ /\ op[o].kind = "sign" /\ End(o) /\ UNCHANGED did
          /\ RecordAnyway(PolicyDeny(ActionOf(o), op[o].rp, "CounterPersistenceFailure"))
    /\ UNCHANGED <<daemon, life, rest, begun>>

-----------------------------------------------------------------------------
(* Requests of principals.                                                  *)

(* mutant: the request stays when its record is lost *)
CreateIntentKept ==
    /\ Begin /\ profile.enabled = "yes" /\ req.session = "live" /\ req.intent = "none"
    /\ RecordAnyway(IntentCreate("i"))
    /\ req' = [req EXCEPT !.intent = "pending"]
    /\ UNCHANGED <<daemon, life, op, profile, lease, cmd, did>>

(* handle_create_intent: without its record the request is withdrawn *)
CreateIntent ==
    /\ Begin /\ profile.enabled = "yes" /\ req.session = "live" /\ req.intent = "none"
    /\ \/ RecordOk(IntentCreate("i")) /\ req' = [req EXCEPT !.intent = "pending"]
       \/ RecordFails /\ UNCHANGED req
    /\ UNCHANGED <<daemon, life, op, profile, lease, cmd, did>>

CancelIntent ==
    /\ daemon = "up" /\ req.intent = "pending"
    /\ RecordAnyway(IntentCancel("i"))
    /\ req' = [req EXCEPT !.intent = "cancelled"]
    /\ UNCHANGED <<daemon, life, op, profile, lease, cmd, did, begun>>

(* request_grant and approve_grant record after the fact *)
RequestGrant ==
    /\ Begin /\ req.grant = "none"
    /\ RecordAnyway(GrantRequest("g"))
    /\ req' = [req EXCEPT !.grant = "requested"]
    /\ UNCHANGED <<daemon, life, op, profile, lease, cmd, did>>

ApproveGrant ==
    /\ daemon = "up" /\ req.grant = "requested"
    /\ RecordAnyway(GrantApprove("g"))
    /\ req' = [req EXCEPT !.grant = "active"]
    /\ UNCHANGED <<daemon, life, op, profile, lease, cmd, did, begun>>

(* browser-control: announced, sent, and its outcome told *)
BeginControl ==
    /\ Begin /\ lease = "live" /\ cmd = Idle
    /\ \/ RecordOk(BrowserControlRequest("l", "Requested")) /\ cmd' = [step |-> "sent"] /\ Do([name |-> "command"])
       \/ RecordFails /\ UNCHANGED <<cmd, did>>
    /\ UNCHANGED <<daemon, life, op, profile, req, lease>>

EndControl ==
    /\ Running /\ cmd.step = "sent"
    /\ \E outcome \in {"Success", "Timeout", "BrowserExit", "Error"} :
         RecordAnyway(BrowserControlRequest("l", outcome))
    /\ cmd' = Idle
    /\ UNCHANGED <<daemon, life, op, profile, req, lease, did, begun>>

-----------------------------------------------------------------------------
(* Leases.  A launch is not recorded.                                       *)
LaunchBrowser ==
    /\ Begin /\ lease = "none"
    /\ lease' = "live"
    /\ UNCHANGED <<daemon, life, gate, log, op, profile, req, cmd, did>>

(* runtime_loop, for a browser that exited or a lease past its end; with    *)
(* the browser manager locked, so that no command is under way              *)
LeaseEnds ==
    /\ daemon = "up" /\ lease = "live" /\ cmd = Idle
    /\ \E e \in {BrowserLeaseCrash("l"), BrowserLeaseExpire("l")} : RecordAnyway(e)
    /\ lease' \in {"ended", "forgotten"}
    /\ UNCHANGED <<daemon, life, op, profile, req, cmd, did, begun>>

(* cleanup, recorded, and whether its directory had to be put aside *)
CleanUp ==
    /\ Running /\ lease = "ended"
    /\ RecordAnyway(BrowserLeaseCleanup("l"))
    /\ lease' \in {"cleaned", "quarantined"}
    /\ UNCHANGED <<daemon, life, op, profile, req, cmd, did, begun>>

Quarantine ==
    /\ Running /\ lease = "quarantined"
    /\ RecordAnyway(BrowserLeaseQuarantine("l"))
    /\ lease' = "cleaned"
    /\ UNCHANGED <<daemon, life, op, profile, req, cmd, did, begun>>

-----------------------------------------------------------------------------
(* Administration.                                                          *)
NoPending == IF req.intent = "pending" THEN "cancelled" ELSE req.intent
NoLease == IF lease = "live" THEN "cleaned" ELSE lease

EnableProfile ==
    /\ Begin /\ cmd = Idle /\ profile.device = "up"
    /\ RecordAnyway(AdminProfileEnable)
    /\ profile' = [profile EXCEPT !.enabled = "yes"]
    /\ UNCHANGED <<daemon, life, op, req, lease, cmd, did>>

(* announced or refused; then sessions, requests and browsers end, which is *)
(* not recorded one by one                                                  *)
DisableProfile ==
    /\ Begin /\ cmd = Idle
    /\ \/ /\ RecordOk(AdminProfileDisableRequest)
          /\ profile' = [profile EXCEPT !.enabled = "no"]
          /\ req' = [req EXCEPT !.intent = NoPending, !.session = "gone"] /\ lease' = NoLease
          /\ cmd' = [step |-> "disabling"] /\ Do([name |-> "disable"])
       \/ RecordFails /\ UNCHANGED <<profile, req, lease, cmd, did>>
    /\ UNCHANGED <<daemon, life, op>>

ProfileDisabled ==
    /\ Running /\ cmd.step = "disabling"
    /\ RecordAnyway(AdminProfileDisable)
    /\ cmd' = Idle
    /\ UNCHANGED <<daemon, life, op, profile, req, lease, did, begun>>

(* Done first, recorded after: the record of what was done is still to      *)
(* come, a crash may come before it, and its loss is ignored.               *)
Did(what, e) == Do(what) /\ cmd' = [step |-> "did", event |-> e]

RecompilePolicy ==
    /\ Begin /\ cmd = Idle
    /\ Did([name |-> "recompile"], AdminPolicyRecompile)
    /\ req' = [req EXCEPT !.intent = NoPending, !.grant = IF @ = "active" THEN "stale" ELSE @]
    /\ lease' = NoLease
    /\ UNCHANGED <<daemon, life, gate, log, op, profile>>

(* handle_admin_revoke_credential: the grants of the credential are revoked *)
(* and the browsers stopped                                                 *)
RevokeCredential ==
    /\ Begin /\ cmd = Idle
    /\ Did([name |-> "revoke credential"], AdminCredentialRevoke)
    /\ req' = [req EXCEPT !.grant = IF @ = "active" THEN "revoked" ELSE @]
    /\ lease' = NoLease
    /\ UNCHANGED <<daemon, life, gate, log, op, profile>>

(* a delete that fails is answered with an error and not recorded *)
DeleteCredential(rp) ==
    /\ Begin /\ cmd = Idle
    /\ Did([name |-> "delete", rp |-> rp], AdminCredentialDelete(rp)) \/ UNCHANGED <<cmd, did>>
    /\ UNCHANGED <<daemon, life, gate, log, op, profile, req, lease>>

RecordAfter ==
    /\ Running /\ cmd.step = "did"
    /\ RecordAnyway(cmd.event)
    /\ cmd' = Idle
    /\ UNCHANGED <<daemon, life, op, profile, req, lease, did, begun>>

(* mutant: revoked first, recorded after *)
RevokeGrantFirst ==
    /\ Begin /\ cmd = Idle /\ req.grant = "active"
    /\ RecordAnyway(AdminGrantRevoke("g"))
    /\ req' = [req EXCEPT !.grant = "revoked"] /\ lease' = NoLease /\ Do([name |-> "revoke"])
    /\ UNCHANGED <<daemon, life, op, profile, cmd>>

(* handle_revoke_grant: announced or refused *)
RevokeGrant ==
    /\ Begin /\ cmd = Idle /\ req.grant = "active"
    /\ \/ /\ RecordOk(AdminGrantRevoke("g"))
          /\ req' = [req EXCEPT !.grant = "revoked"] /\ lease' = NoLease /\ Do([name |-> "revoke"])
       \/ RecordFails /\ UNCHANGED <<req, lease, did>>
    /\ UNCHANGED <<daemon, life, op, profile, cmd>>

RevokeSession ==
    /\ Begin /\ cmd = Idle /\ req.session = "live"
    /\ RecordAnyway(AdminSessionRevoke("s"))
    /\ req' = [req EXCEPT !.session = "gone", !.intent = NoPending] /\ lease' = NoLease
    /\ UNCHANGED <<daemon, life, op, profile, cmd, did>>

-----------------------------------------------------------------------------
OpStep(o) ==
    \/ Deny(o) \/ ShowPrompt(o) \/ Approved(o) \/ NotApproved(o) \/ NoPrompt(o) \/ AuthorityGone(o)
    \/ CeremonyAllowed(o) \/ StartCeremony(o) \/ Consume(o) \/ Inner(o) \/ Succeed(o) \/ BadAnswer(o)
    \/ ServiceAllowed(o) \/ ServiceKey(o)

Next ==
    \/ OpenGate \/ CreateProfile \/ CreateEndpoint \/ EndpointFails
    \/ Crash \/ ShutdownRequested \/ ShutdownEnds
    \/ \E o \in Ops, k \in {"ceremony", "sign", "register"}, rp \in Rps, r \in RuleSet \cap Rules : BeginOp(o, k, rp, r)
    \/ \E o \in Ops : OpStep(o)
    \/ CreateIntent \/ CancelIntent \/ RequestGrant \/ ApproveGrant \/ BeginControl \/ EndControl
    \/ LaunchBrowser \/ LeaseEnds \/ CleanUp \/ Quarantine
    \/ EnableProfile \/ DisableProfile \/ ProfileDisabled \/ RecompilePolicy \/ RevokeCredential \/ RecordAfter
    \/ (\E rp \in Rps : DeleteCredential(rp)) \/ RevokeGrant \/ RevokeSession

Spec == Init /\ [][Next]_vars

-----------------------------------------------------------------------------
Allows(action, rp) ==
    LET es == {e \in BagToSet(log) : e.kind = "policy.allow" /\ e.of[1] = action /\ e.of[2] = rp}
    IN BagCardinality([e \in es |-> log[e]])

(* No key is used without a record: for each action and RP there are at     *)
(* least as many policy.allow records as uses, whichever path they took,    *)
(* whatever failed and whenever the daemon died.                            *)
UsesWereAllowed ==
    \A o \in Ops, action \in {"register", "authenticate"}, rp \in Rps :
        CopiesIn([name |-> "use", action |-> action, rp |-> rp], did) <= Allows(action, rp)

(* The log does not lie about a ceremony: success means that its key was    *)
(* used after its start was recorded, an answer is only handed out with a   *)
(* success on record, and a recorded failure means that no answer was.      *)
ResultTruthful ==
    \A o \in Ops : LET failed == \E r \in CeremonyFailReasons : InLog(CeremonyFailure(o, r)) IN
        /\ InLog(CeremonySuccess(o)) => op[o].used = "yes" /\ InLog(CeremonyStart(o)) /\ ~failed
        /\ op[o].kind = "ceremony" /\ op[o].pc # "none" =>
             /\ op[o].answer = "ok" => InLog(CeremonySuccess(o))
             /\ op[o].used = "yes" => InLog(CeremonyStart(o))
        /\ failed => op[o].answer = "none"

(* Devices, browser commands, disabled profiles and grants revoked by name  *)
(* (handle_revoke_grant) are announced: there are at least as many records  *)
(* as there were effects, and a pending intent has its record.              *)
EffectsAnnounced ==
    /\ CopiesIn([name |-> "device"], did) <= CopiesIn(EndpointCreate, log)
    /\ CopiesIn([name |-> "command"], did) <= CopiesIn(BrowserControlRequest("l", "Requested"), log)
    /\ CopiesIn([name |-> "disable"], did) <= CopiesIn(AdminProfileDisableRequest, log)
    /\ CopiesIn([name |-> "revoke"], did) <= CopiesIn(AdminGrantRevoke("g"), log)
    /\ req.intent = "pending" => InLog(IntentCreate("i"))

(* What is recorded after it was done: the effects and their records.       *)
Afterwards ==
    {<<[name |-> "recompile"], AdminPolicyRecompile>>,
     <<[name |-> "revoke credential"], AdminCredentialRevoke>>}
    \cup {<<[name |-> "delete", rp |-> rp], AdminCredentialDelete(rp)>> : rp \in Rps}

(* Reloads, deleted credentials and the grants revoked with a credential    *)
(* are recorded after the fact: the log never claims one that was not done, *)
(* and one that is missing from it is the one under way, or the daemon died *)
(* before the record or lost a record in this life.                         *)
EffectsRecordedAfter ==
    \A e \in Afterwards :
        /\ CopiesIn(e[2], log) <= CopiesIn(e[1], did)
        /\ CopiesIn(e[2], log) < CopiesIn(e[1], did) => life > 1 \/ daemon = "down" \/ gate = "broken" \/ cmd.step = "did"

(* docs/agents/audit.md: a record tells the "UV source (`agent`, `human`,   *)
(* or absent)".  The signing service never has a person verify; the record  *)
(* that announces a use of it names no person as the source.                *)
UvSourceAsRecorded ==
    \A o \in Ops : op[o].kind = "sign" =>
        (op[o].used = "yes" /\ InLog(Allowed(o)) => Allowed(o).of[4] # "human")
=============================================================================
