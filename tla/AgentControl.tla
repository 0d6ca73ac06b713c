---------------------------- MODULE AgentControl ----------------------------
(***************************************************************************)
(* The control plane of the agent subsystem: the requests of the           *)
(* administrator and of the principals as agent/runtime.rs answers them,   *)
(* the forms passless-core/src/agent/protocol.rs gives and validates, and  *)
(* what commands/agent_admin.rs makes of an answer.                        *)
(*                                                                         *)
(* One administrator command runs at a time; principals, registrations and *)
(* grants go on beside it.  A command that takes a lock per profile or per *)
(* grant is a step per lock.  What a session holds (its pending request and*)
(* its browser) is one thing here: CeremonySlot and BrowserLeases have the *)
(* details, AgentSessions the processes and Endpoints the devices.  A      *)
(* credential is named by its reference; times are left out.               *)
(***************************************************************************)
EXTENDS Integers, Sequences, FiniteSets

CONSTANTS Profiles,   \* sequence of the profiles, in the order of the map
          Config,     \* profile |-> its AgentProfileConfig
          Creds, RpOf,
          Sessions, Grants

VARIABLES enabled,   \* profiles that are enabled
          store,     \* namespace |-> credentials in it
          grants,    \* grant |-> none, or its profile, credentials and state
          sessions,  \* profile |-> managed sessions
          work,      \* sessions with a pending request or a browser
          owner,     \* session |-> the profile it was launched for, or "none"
          audit,     \* "sound" or "broken"
          cmd,       \* the administrator's command in progress
          launch,    \* LaunchPrincipal in progress, on another connection
          prin,      \* the principal's request in progress
          report,    \* what the last command told its user
          closed,    \* history: disabled, answered so, and not enabled since
          served     \* history: profile of the last request that was served

vars == <<enabled, store, grants, sessions, work, owner, audit, cmd, launch,
          prin, report, closed, served>>

P == {Profiles[i] : i \in DOMAIN Profiles}
Idle == [is |-> "idle"]
NoGrant == [is |-> "none"]

-----------------------------------------------------------------------------
(* The configuration of a profile.                                          *)

\* effective_rules: the rules, or what the older rp_ids stand for.
EffectiveRules(p) ==
  IF Config[p].rules # {} THEN Config[p].rules
  ELSE {[rp |-> r, authenticate |-> "confirm",
         register |-> IF Config[p].registration THEN "confirm" ELSE "deny",
         uv |-> IF Config[p].requireUv THEN "human" ELSE "none"] : r \in Config[p].rpIds}

AllowedRpIds(p) ==
  {r.rp : r \in {q \in EffectiveRules(p) : q.register # "deny" \/ q.authenticate # "deny"}}

\* rule_for_rp: the rule of the party itself before the one for any.
RuleForRp(p, rp) ==
  LET exact == {r \in EffectiveRules(p) : r.rp = rp}
  IN  IF exact # {} THEN exact ELSE {r \in EffectiveRules(p) : r.rp = "*"}

AllowsRegistration(p) == \E r \in EffectiveRules(p) : r.register # "deny"
RequiresHumanUv(p) == \E r \in EffectiveRules(p) : r.uv = "human"

\* The storage of a profile: the person's, or its own.
Namespace(p) == IF Config[p].mode = "same_user" THEN "human" ELSE p
Namespaces == {Namespace(p) : p \in P}

\* The references a profile is configured with; none if it resolves them itself.
Refs(p) == Config[p].refs

-----------------------------------------------------------------------------
(* Requests.  A text is "fits", "empty", "long" or has a null byte.         *)

Texts == {"fits", "empty", "long", "null"}
CheckStr(t) == t = "fits"

\* AdminRequest, by what its fields name.
OfNothing == {"ping", "status", "list_profiles", "audit_status", "audit_verify", "audit_export",
              "shutdown", "list_grants", "list_delegations", "list_sessions"}
OfProfile == {"show_profile", "profile_status", "profile_check", "show_policy", "reload_policy",
              "enable_profile", "disable_profile", "launch_principal", "request_registration",
              "request_delegation"}
OfCredential == {"show_credential", "revoke_credential", "delete_credential", "rename_credential"}
OfGrant == {"show_grant", "revoke_grant", "show_delegation", "revoke_delegation"}
OfSession == {"show_session", "revoke_session"}

\* AdminRequest::validate: the kinds with a text of their own.
WithText == {"list_credentials", "rename_credential", "launch_principal", "request_registration",
             "request_delegation"}
ValidAdmin(kind, t) == kind \in WithText => CheckStr(t)

\* PrincipalRequest and its validate.
PrincipalReads == {"ping", "status", "capabilities", "authority", "instructions", "doctor",
                   "list_credentials", "endpoint_status", "show_intent", "browser_status",
                   "browser_control"}
Delegations == {"show_delegation", "cancel_delegation", "request_delegation", "sign_assertion"}
PrincipalWork == {"create_intent", "cancel_intent", "ensure_browser"}
ValidPrincipal(kind, t) ==
  kind \in {"create_intent", "ensure_browser", "browser_control", "request_delegation",
            "sign_assertion"} => CheckStr(t)

\* ProtocolVersion::negotiate: the same major version, which is not zero.
Negotiates(major) == major = 1

\* RequestFrame::validate, before any handler.
AdminFrameOk(kind, t, major) == Negotiates(major) /\ ValidAdmin(kind, t)
PrincipalFrameOk(kind, t, major) == Negotiates(major) /\ ValidPrincipal(kind, t)

Error(code) == [is |-> "error", code |-> code]

-----------------------------------------------------------------------------
(* The answers that change nothing.                                         *)

\* A browser or a request of one of the profile's sessions.
Busy(p) == work \cap sessions[p] # {}

ActiveOf(p) == {g \in Grants : grants[g].is = "active" /\ grants[g].profile = p}

\* ProfileSummary of every profile.
ListProfiles == [is |-> "profile_list", enabled |-> enabled, total |-> Cardinality(P)]

ShowProfile(p) ==
  [is |-> "profile_info", enabled |-> p \in enabled, mode |-> Config[p].mode,
   grants |-> Cardinality(ActiveOf(p)), sessions |-> Cardinality(sessions[p])]

\* The checks of build_profile_diagnostic_report that can fail.
Checks(p, available, set) ==
  [enabled |-> p \in enabled, audit_gate |-> audit = "sound", pin_storage |-> available,
   pin_set |-> RequiresHumanUv(p) => set]

Healthy(checks) == \A c \in DOMAIN checks : checks[c]

\* build_profile_report: only an isolated profile has PIN storage of its own;
\* an unreadable PIN state counts as storage without a PIN.
ProfileReport(p, pin) ==
  LET isolated == Config[p].mode = "isolated"
  IN  [is |-> "profile_check", lease |-> Busy(p),
       healthy |-> Healthy(Checks(p, isolated, isolated /\ pin = "set"))]

ShowPolicy(p) == IF p \in enabled THEN [is |-> "policy_info"] ELSE Error("forbidden")

\* The first profile that is configured with the reference and keeps it; one
\* that has nothing to enumerate ends the search.
ShowCredential(c) ==
  LET Named == {i \in DOMAIN Profiles : c \in Refs(Profiles[i])}
      Ends(i) == store[Namespace(Profiles[i])] = {} \/ c \in store[Namespace(Profiles[i])]
      ending == {i \in Named : Ends(i) /\ \A j \in Named : j < i => ~Ends(j)}
  IN  IF ending = {} THEN Error("not_found")
      ELSE IF \E i \in ending : c \in store[Namespace(Profiles[i])] THEN [is |-> "credential_info"]
      ELSE Error("internal")

\* Never supported: an isolated profile that names it says so, others do not know it.
RenameCredential(c) ==
  IF \E p \in P : Config[p].mode = "isolated" /\ c \in Refs(p) THEN Error("internal")
  ELSE Error("not_found")

\* An active grant is shown as pending.
GrantInfo(g) ==
  [is |-> "grant_info", state |-> IF grants[g].is = "active" THEN "pending" ELSE grants[g].is]

ListGrants == [is |-> "grant_list", grants |-> {GrantInfo(g) : g \in {h \in Grants : grants[h] # NoGrant}}]

ShowGrant(g) == IF grants[g] = NoGrant THEN Error("not_found") ELSE GrantInfo(g)

ListSessions == [is |-> "session_list", sessions |-> UNION {sessions[p] : p \in P}]

ShowSession(s) ==
  IF \E p \in P : s \in sessions[p] THEN [is |-> "session_info"] ELSE Error("not_found")

AuditStatus == [is |-> "audit_status", enabled |-> audit = "sound"]
\* A log that fails its verification is an answer, not an error.
AuditVerify == [is |-> "audit_verified"]
AuditExport == IF audit = "sound" THEN [is |-> "audit_exported"] ELSE Error("internal")

\* handle_request_registration as far as this state tells: the grant itself is
\* GrantRegistry's.  A grant is for one party, never for any.
RequestRegistration(p, rp) ==
  IF p \notin enabled \/ rp = "*" THEN Error("forbidden")
  ELSE IF \E r \in RuleForRp(p, rp) : r.register # "deny" THEN [is |-> "registration_granted"]
  ELSE Error("forbidden")

\* handle_admin_request_delegation: delegation is gone, whoever asks.
AdminRequestDelegation(p) ==
  IF Cardinality(sessions[p]) # 1 THEN Error("conflict") ELSE Error("forbidden")

-----------------------------------------------------------------------------
(* What the principal is told.                                              *)

\* build_effective_authority.
RiskFlags(p) ==
  LET rules == EffectiveRules(p)
      human == Config[p].mode = "same_user"
      flags == [human_identity |-> human,
                global_rp_scope |-> \E r \in rules : r.rp = "*",
                autonomous_authentication |-> \E r \in rules : r.authenticate = "allow",
                human_backend_registration |-> human /\ \E r \in rules : r.register # "deny",
                direct_cdp_port |-> Config[p].cdp = "port",
                ambiguous_credential_selection |-> Config[p].selection \in {"first_matching", "newest"}]
  IN  {f \in DOMAIN flags : flags[f]}

Authority(p, s) ==
  [is |-> "authority", flags |-> RiskFlags(p), active |-> s \in work,
   dynamic |-> Config[p].refs = {}]

Capabilities(p) == [is |-> "capabilities", rps |-> AllowedRpIds(p), registration |-> AllowsRegistration(p)]

\* handle_list_credentials: the configured references, whatever is stored.
PrincipalCredentials(p) == [is |-> "credential_list", refs |-> Refs(p)]

\* A same-user profile has an endpoint id of its own that no device has.
EndpointStatus(p) == [is |-> "endpoint_status", connected |-> Config[p].mode = "isolated"]

\* Delegation is gone: a new one is refused, and no request is of its kind, so
\* that there is none to show or cancel.
DelegationAnswer(kind) ==
  IF kind \in {"request_delegation", "sign_assertion"} THEN Error("forbidden") ELSE Error("bad_request")

\* What a request is answered with, unless it is refused.
PrincipalAnswer(kind, p, s) ==
  CASE kind = "capabilities" -> Capabilities(p)
    [] kind = "authority" -> Authority(p, s)
    [] kind = "doctor" -> [ProfileReport(p, "unset") EXCEPT !.is = "doctor"]
    [] kind = "list_credentials" -> PrincipalCredentials(p)
    [] kind = "endpoint_status" -> EndpointStatus(p)
    [] kind = "create_intent" -> [is |-> "intent_created"]
    [] kind = "show_intent" -> [is |-> "intent_status"]
    [] kind = "cancel_intent" -> [is |-> "intent_cancelled"]
    [] kind \in Delegations -> DelegationAnswer(kind)
    [] OTHER -> [is |-> kind]

-----------------------------------------------------------------------------
Init ==
  /\ enabled = P
  /\ store \in [Namespaces -> SUBSET Creds]
  /\ grants = [g \in Grants |-> NoGrant]
  /\ sessions = [p \in P |-> {}] /\ work = {}
  /\ owner = [s \in Sessions |-> "none"]
  /\ audit = "sound"
  /\ cmd = Idle /\ launch = Idle /\ prin = Idle /\ report = Idle
  /\ closed = {} /\ served = "none"

(* The command line: each dispatch function waits, request by request, for   *)
(* one kind of answer; an error is told; anything else is "unexpected         *)
(* response".                                                                 *)

DispatchProfile == [profile_check |-> "profile_check", show_profile |-> "profile_info",
                    list_profiles |-> "profile_list", enable_profile |-> "profile_enabled",
                    disable_profile |-> "profile_disabled"]
DispatchPolicy == [show_policy |-> "policy_info", reload_policy |-> "policy_recompiled"]
DispatchCredential == [list_credentials |-> "credential_list", show_credential |-> "credential_info",
                       revoke_credential |-> "credential_revoked", delete_credential |-> "deleted"]
DispatchDelegation == [show_delegation |-> "delegation_info", list_delegations |-> "delegation_list",
                       revoke_delegation |-> "delegation_revoked",
                       request_registration |-> "registration_granted"]
DispatchSession == [show_session |-> "session_info", list_sessions |-> "session_list",
                    revoke_session |-> "session_revoked"]
DispatchAudit == [audit_status |-> "audit_status", audit_verify |-> "audit_verified",
                  audit_export |-> "audit_exported"]
DispatchShutdown == [shutdown |-> "shutdown_accepted"]

\* The same for the commands of a principal.
DispatchInfo == [doctor |-> "doctor", authority |-> "authority", instructions |-> "instructions"]
DispatchIntent == [create_intent |-> "intent_created", show_intent |-> "intent_status",
                   cancel_intent |-> "intent_cancelled"]
DispatchOwnDelegation == [show_delegation |-> "delegation_status",
                          cancel_delegation |-> "delegation_cancelled"]
DispatchOwn == [list_credentials |-> "credential_list", browser_status |-> "browser_status",
                endpoint_status |-> "endpoint_status"]
DispatchBrowserControl == [browser_control |-> "browser_control"]

AdminTables == {DispatchProfile, DispatchPolicy, DispatchCredential, DispatchDelegation,
                DispatchSession, DispatchAudit, DispatchShutdown}
PrincipalTables == {DispatchInfo, DispatchIntent, DispatchOwnDelegation, DispatchOwn,
                    DispatchBrowserControl}

Awaited(all, kind) ==
  LET tables == {t \in all : kind \in DOMAIN t}
  IN  IF tables = {} THEN "no command" ELSE (CHOOSE t \in tables : TRUE)[kind]

Outcome(tables, kind, a) ==
  CASE a.is = "error" -> "refused"
    [] a.is # "error" /\ Awaited(tables, kind) \in {"no command", a.is} -> "done"
    [] OTHER -> "unexpected"

\* What the user is left with; only what a property asks about is remembered.
Told(kind, a, changed) ==
  LET o == Outcome(AdminTables, kind, a)
  IN  report' = IF o = "unexpected" \/ (o = "refused" /\ kind = "enable_profile")
                THEN [is |-> "told", kind |-> kind, outcome |-> o, changed |-> changed]
                ELSE Idle

\* The answer of a read, which takes no time here.
AdminAnswer(kind, x) ==
  CASE kind = "list_profiles" -> ListProfiles
    [] kind \in {"show_profile", "profile_status"} -> ShowProfile(x)
    [] kind = "profile_check" -> ProfileReport(x, "unset")
    [] kind = "show_policy" -> ShowPolicy(x)
    [] kind = "show_credential" -> ShowCredential(x)
    [] kind = "rename_credential" -> RenameCredential(x)
    [] kind \in {"list_grants", "list_delegations"} -> ListGrants
    [] kind \in {"show_grant", "show_delegation"} -> ShowGrant(x)
    [] kind = "list_sessions" -> ListSessions
    [] kind = "show_session" -> ShowSession(x)
    [] kind = "audit_status" -> AuditStatus
    [] kind = "audit_verify" -> AuditVerify
    [] kind = "audit_export" -> AuditExport
    [] kind = "request_registration" -> RequestRegistration(x, "a")
    [] kind = "request_delegation" -> AdminRequestDelegation(x)
    [] OTHER -> [is |-> kind]

Reads == [kind : OfNothing \ {"shutdown"}, x : {"-"}]
  \cup [kind : OfProfile \ {"reload_policy", "enable_profile", "disable_profile", "launch_principal"}, x : P]
  \cup [kind : {"show_credential", "rename_credential"}, x : Creds]
  \cup [kind : {"show_grant", "show_delegation"}, x : Grants]
  \cup [kind : {"show_session"}, x : Sessions]

\* handle_admin for a request that only reads; a peer that is not the daemon's
\* user, a wrong version or a text out of bounds is refused before.
AdminReads(r) ==
  /\ cmd = Idle
  /\ \E taken \in {own /\ AdminFrameOk(r.kind, t, major) :
                     own \in BOOLEAN, t \in Texts, major \in 0 .. 1} :
       Told(r.kind, IF taken THEN AdminAnswer(r.kind, r.x) ELSE Error("bad_request"), "no")
  /\ served' = "none"
  /\ UNCHANGED <<enabled, store, grants, sessions, work, owner, audit, cmd, launch, prin, closed>>

-----------------------------------------------------------------------------
(* Commands that change something.                                          *)

Data == <<enabled, store, grants, sessions, work, owner, audit>>
Quiet == report' = Idle /\ served' = "none"

\* What closing the requests and browsers of a profile takes with it.
OfThe(p) == {s \in Sessions : owner[s] = p}

\* A same-user profile has an endpoint id that no device has, so that it is
\* refused.  The device of an isolated one is there; or it is gone, which is a
\* conflict; or there is no id, and the device is made again or cannot be.
EnableProfile(p) ==
  /\ cmd = Idle
  /\ \/ /\ Config[p].mode = "isolated"
        /\ enabled' = enabled \cup {p} /\ closed' = closed \ {p}
        /\ Told("enable_profile", [is |-> "profile_enabled"], "yes")
     \/ /\ \E code \in {"conflict", "internal"} : Told("enable_profile", Error(code), "no")
        /\ UNCHANGED <<enabled, closed>>
  /\ served' = "none"
  /\ UNCHANGED <<store, grants, sessions, work, owner, audit, cmd, launch, prin>>

\* DisableProfile is announced, or refused; then the flag, the requests and
\* browsers, and at last the sessions.
DisableProfile(p) ==
  /\ cmd = Idle /\ Quiet
  /\ IF audit = "broken" THEN UNCHANGED <<enabled, cmd>>
     ELSE enabled' = enabled \ {p} /\ cmd' = [is |-> "disable", at |-> "browsers", profile |-> p]
  /\ UNCHANGED <<store, grants, sessions, work, owner, audit, launch, prin, closed>>

DisableBrowsers ==
  /\ cmd.is = "disable" /\ cmd.at = "browsers" /\ Quiet
  /\ work' = work \ OfThe(cmd.profile) /\ cmd' = [cmd EXCEPT !.at = "sessions"]
  /\ UNCHANGED <<enabled, store, grants, sessions, owner, audit, launch, prin, closed>>

\* Mutant of DisableSessions: the flag alone keeps the principals out.
DisableSessionsKept ==
  /\ cmd.is = "disable" /\ cmd.at = "sessions"
  /\ cmd' = Idle
  /\ closed' = IF cmd.profile \in enabled THEN closed ELSE closed \cup {cmd.profile}
  /\ Quiet
  /\ UNCHANGED <<enabled, store, grants, sessions, work, owner, audit, launch, prin>>

DisableSessions ==
  /\ cmd.is = "disable" /\ cmd.at = "sessions"
  /\ sessions' = [sessions EXCEPT ![cmd.profile] = {}]
  /\ cmd' = Idle
  /\ closed' = IF cmd.profile \in enabled THEN closed ELSE closed \cup {cmd.profile}
  /\ Quiet
  /\ UNCHANGED <<enabled, store, grants, work, owner, audit, launch, prin>>

\* A new policy: no grant survives it, and every profile's work is closed.
ReloadPolicy(sound) ==
  /\ cmd = Idle /\ Quiet
  /\ IF sound THEN grants' = [g \in Grants |-> NoGrant] /\ work' = {} ELSE UNCHANGED <<grants, work>>
  /\ UNCHANGED <<enabled, store, sessions, owner, audit, cmd, launch, prin, closed>>

\* RevokeGrant and RevokeDelegation are one handler: recorded first, refused if
\* it cannot be or the grant is not active.
RevokeGrant(kind, g) ==
  LET ok == audit = "sound" /\ grants[g].is = "active"
  IN  /\ cmd = Idle /\ served' = "none"
      /\ Told(kind, IF ok THEN [is |-> "grant_revoked"] ELSE Error("internal"), IF ok THEN "yes" ELSE "no")
      /\ IF ok THEN /\ grants' = [grants EXCEPT ![g].is = "revoked"]
                    /\ work' = work \ OfThe(grants[g].profile)
         ELSE UNCHANGED <<grants, work>>
      /\ UNCHANGED <<enabled, store, sessions, owner, audit, cmd, launch, prin, closed>>

RevokeSession(s) ==
  /\ cmd = Idle /\ Quiet
  /\ \E p \in P : s \in sessions[p] /\ sessions' = [sessions EXCEPT ![p] = @ \ {s}]
  /\ work' = work \ {s}
  /\ UNCHANGED <<enabled, store, grants, owner, audit, cmd, launch, prin, closed>>

\* RevokeCredential looks up the grants that name it, revokes them one by one
\* and closes the work of every profile.  A grant of a profile that resolves
\* references itself names none.
RevokeCredential(c) ==
  /\ cmd = Idle /\ Quiet
  /\ cmd' = [is |-> "revoke", cred |-> c,
             left |-> {g \in Grants : grants[g].is = "active" /\ c \in grants[g].creds}]
  /\ UNCHANGED <<enabled, store, grants, sessions, work, owner, audit, launch, prin, closed>>

RevokeFound(g) ==
  /\ cmd.is = "revoke" /\ g \in cmd.left /\ Quiet
  /\ grants' = IF grants[g].is = "active" THEN [grants EXCEPT ![g].is = "revoked"] ELSE grants
  /\ cmd' = [cmd EXCEPT !.left = @ \ {g}]
  /\ UNCHANGED <<enabled, store, sessions, work, owner, audit, launch, prin, closed>>

CredentialRevoked ==
  /\ cmd.is = "revoke" /\ cmd.left = {} /\ Quiet
  /\ work' = {} /\ cmd' = Idle
  /\ UNCHANGED <<enabled, store, grants, sessions, owner, audit, launch, prin, closed>>

-----------------------------------------------------------------------------
(* Listing credentials: the lock of one profile after the other.            *)

\* With a party, only profiles whose rp_ids name it are looked into.
Consulted(p, rp) == rp = "any" \/ rp \in Config[p].rpIds

Filtered(st, p, rp) == {c \in st[Namespace(p)] : rp = "any" \/ RpOf[c] = rp}

Listed(p, rp) == {c \in Filtered(store, p, rp) : rp # "any" \/ RpOf[c] \in AllowedRpIds(p)}

\* History of a listing: what is stored all through it, and the profiles
\* whose first read found nothing or failed.
ListCredentials(rp) ==
  /\ cmd = Idle /\ Quiet
  /\ cmd' = [is |-> "list", rp |-> rp, at |-> 1, found |-> {}, kept |-> store, unread |-> {}]
  /\ UNCHANGED <<Data, launch, prin, closed>>

\* The next profile: skipped, read to its end, or the end of the whole listing
\* (`break`) if its first read finds nothing or fails.
ListProfile ==
  LET p == Profiles[cmd.at]
      read == [cmd EXCEPT !.at = @ + 1, !.found = @ \cup ({p} \X Listed(p, cmd.rp))]
      stop == [cmd EXCEPT !.at = Len(Profiles) + 1, !.unread = @ \cup {p}]
  IN  /\ cmd.is = "list" /\ cmd.at <= Len(Profiles) /\ Quiet
      /\ \/ ~Consulted(p, cmd.rp) /\ cmd' = [cmd EXCEPT !.at = @ + 1]
         \/ Consulted(p, cmd.rp) /\ Filtered(store, p, cmd.rp) # {} /\ cmd' = read
         \/ Consulted(p, cmd.rp) /\ cmd' = stop
      /\ UNCHANGED <<Data, launch, prin, closed>>

ListAnswered ==
  /\ cmd.is = "list" /\ cmd.at > Len(Profiles) /\ Quiet
  /\ cmd' = Idle
  /\ UNCHANGED <<Data, launch, prin, closed>>

\* The credentials change under the listing: a ceremony writes or deletes one.
StoreChanges(n, c) ==
  /\ Quiet
  /\ \E st \in {[store EXCEPT ![n] = @ \cup {c}], [store EXCEPT ![n] = @ \ {c}]} :
       /\ st # store /\ store' = st
       /\ cmd' = IF cmd.is # "list" THEN cmd
                 ELSE [cmd EXCEPT !.kept = [m \in Namespaces |-> @[m] \cap st[m]]]
  /\ UNCHANGED <<enabled, grants, sessions, work, owner, audit, launch, prin, closed>>

-----------------------------------------------------------------------------
(* Sessions, principals and grants beside the administrator.                *)

\* LaunchPrincipal looks at the flag of the profile first, and takes the list
\* of its sessions later.
LaunchPrincipal(p, s) ==
  /\ launch = Idle /\ owner[s] = "none" /\ p \in enabled /\ Quiet
  /\ launch' = [is |-> "launch", profile |-> p, session |-> s]
  /\ UNCHANGED <<Data, cmd, prin, closed>>

PrincipalLaunched(spawned) ==
  /\ launch # Idle /\ Quiet
  /\ launch' = Idle
  /\ IF spawned THEN /\ sessions' = [sessions EXCEPT ![launch.profile] = @ \cup {launch.session}]
                     /\ owner' = [owner EXCEPT ![launch.session] = launch.profile]
     ELSE UNCHANGED <<sessions, owner>>
  /\ UNCHANGED <<enabled, store, grants, work, audit, cmd, prin, closed>>

\* handle_principal: the flag of the profile, the user and group of the peer ...
PrincipalArrives(p, s, peer) ==
  /\ prin = Idle /\ owner[s] = p /\ Quiet
  /\ prin' = IF p \in enabled /\ peer THEN [is |-> "admitted", profile |-> p, session |-> s] ELSE Idle
  /\ UNCHANGED <<Data, cmd, launch, closed>>

\* ... then, with the list of sessions held to the end of the request, a session
\* whose capability the request proves and whose process it comes from.
IsServed == prin # Idle /\ prin.session \in sessions[prin.profile]

\* What a principal's command is left with.
PrincipalTold(kind, changed) ==
  LET a == PrincipalAnswer(kind, prin.profile, prin.session)
      o == Outcome(PrincipalTables, kind, a)
  IN  /\ served' = IF a.is = "error" THEN "none" ELSE prin.profile
      /\ report' = IF o = "unexpected" THEN [is |-> "told", kind |-> kind, outcome |-> o, changed |-> changed]
                   ELSE Idle

ServeRead ==
  /\ IsServed /\ prin' = Idle
  /\ \E kind \in PrincipalReads \cup Delegations : PrincipalTold(kind, "no")
  /\ UNCHANGED <<Data, cmd, launch, closed>>

\* CreateIntent and EnsureBrowser give the session something to hold, and
\* CancelIntent takes it away.
ServeWork ==
  /\ IsServed /\ prin' = Idle
  /\ \E kind \in PrincipalWork :
       /\ PrincipalTold(kind, "yes")
       /\ work' = IF kind = "cancel_intent" THEN work \ {prin.session} ELSE work \cup {prin.session}
  /\ UNCHANGED <<enabled, store, grants, sessions, owner, audit, cmd, launch, closed>>

RefusedForms ==
  {k \in PrincipalWork : \E t \in Texts, major \in 0 .. 1 : ~PrincipalFrameOk(k, t, major)}

\* A request that is not valid, and every request of the removed delegation.
RefusePrincipal ==
  /\ prin # Idle /\ prin' = Idle /\ Quiet
  /\ IsServed => Delegations \cup RefusedForms # {}
  /\ UNCHANGED <<Data, cmd, launch, closed>>

\* A session that ended is taken off its list, with what it held.
SessionEnds(p, s) ==
  /\ s \in sessions[p] /\ Quiet
  /\ sessions' = [sessions EXCEPT ![p] = @ \ {s}] /\ work' = work \ {s}
  /\ UNCHANGED <<enabled, store, grants, owner, audit, cmd, launch, prin, closed>>

\* A grant is approved, for references or for none by name, or expires.
GrantChanges(g) ==
  /\ Quiet
  /\ \/ /\ grants[g] = NoGrant
        /\ \E p \in P : grants' = [grants EXCEPT ![g] = [is |-> "active", profile |-> p, creds |-> Refs(p)]]
     \/ grants[g].is = "active" /\ grants' = [grants EXCEPT ![g].is = "expired"]
  /\ UNCHANGED <<enabled, store, sessions, work, owner, audit, cmd, launch, prin, closed>>

\* The circuit of the audit gate breaks, for good.
AuditBreaks ==
  /\ audit = "sound" /\ audit' = "broken" /\ Quiet
  /\ UNCHANGED <<enabled, store, grants, sessions, work, owner, cmd, launch, prin, closed>>

Next ==
  \/ \E r \in Reads : AdminReads(r)
  \/ \E p \in P : EnableProfile(p) \/ DisableProfile(p)
  \/ DisableBrowsers \/ DisableSessions
  \/ \E ok \in BOOLEAN : ReloadPolicy(ok) \/ PrincipalLaunched(ok)
  \/ \E kind \in {"revoke_grant", "revoke_delegation"}, g \in Grants : RevokeGrant(kind, g)
  \/ \E s \in Sessions : RevokeSession(s)
  \/ \E c \in Creds : RevokeCredential(c)
  \/ \E g \in Grants : RevokeFound(g) \/ GrantChanges(g)
  \/ CredentialRevoked
  \/ \E rp \in {"any"} \cup {RpOf[c] : c \in Creds} : ListCredentials(rp)
  \/ ListProfile \/ ListAnswered
  \/ \E n \in Namespaces, c \in Creds : StoreChanges(n, c)
  \/ \E p \in P, s \in Sessions :
       LaunchPrincipal(p, s) \/ SessionEnds(p, s) \/ \E peer \in BOOLEAN : PrincipalArrives(p, s, peer)
  \/ ServeRead \/ ServeWork \/ RefusePrincipal
  \/ AuditBreaks

Spec == Init /\ [][Next]_vars

-----------------------------------------------------------------------------
\* ListCredentials ends at the first profile whose first read finds nothing or
\* fails, and leaves out the profiles after it without an error.  Up to there it
\* is complete: a credential that is stored from the request to the answer, in a
\* profile the listing looks into and whose rules name its party, is in the
\* answer, unless that profile or one before it could not be read.
ListingComplete ==
  cmd.is = "list" /\ cmd.at > Len(Profiles)
  => \A i \in DOMAIN Profiles :
       LET p == Profiles[i]
       IN  Consulted(p, cmd.rp)
           => \A c \in cmd.kept[Namespace(p)] :
                (IF cmd.rp = "any" THEN RpOf[c] \in AllowedRpIds(p) ELSE RpOf[c] = cmd.rp)
                => <<p, c>> \in cmd.found \/ \E j \in 1 .. i : Profiles[j] \in cmd.unread

\* Once DisableProfile has answered, and until the profile is enabled again, no
\* request of its principals is served, not even one that was let past the
\* check of the flag before, nor one of a session that was being launched.
DisabledServesNobody == served # "none" => served \notin closed

\* The daemon and the command line agree about the answers: a request that is
\* granted is answered with what its command waits for, so that "unexpected
\* response" is not the end of a command that worked.  The delegation commands of
\* the administrator are left of a removed mode and disagree.
AnswersFit ==
  report # Idle => (report.outcome = "unexpected" =>
    report.kind \in {"show_delegation", "list_delegations", "revoke_delegation"})

\* troubleshooting.md: "If it was disabled at runtime, re-enable it with the
\* administrator CLI": while a profile is disabled, enabling is not refused.
CanBeReenabled ==
  report # Idle => (report.kind = "enable_profile" /\ report.outcome = "refused" => closed = {})

\* operations.md, `delegation revoke`: a command that reports a failure has not
\* changed anything.
FailureChangesNothing == report # Idle => (report.outcome = "unexpected" => report.changed = "no")
=============================================================================
