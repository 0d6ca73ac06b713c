----------------------------- MODULE DaemonStart -----------------------------
(***************************************************************************)
(* From the configuration file to a serving daemon: what AppConfig::load,  *)
(* the validation of the agent configuration, the instance locks, the      *)
(* policy compiler and the start-up diagnostics accept, and which stores   *)
(* a daemon then holds, when several daemons of one user are started,      *)
(* stopped and killed in any order while the file is edited.               *)
(*                                                                         *)
(* A path is a sequence of components; Links maps a directory that is a    *)
(* symbolic link to its target.  An absent path, user or store is <<>>,    *)
(* "" or NoStorage.                                                        *)
(***************************************************************************)
EXTENDS Integers, Sequences, FiniteSets, SequencesExt

CONSTANTS Daemons,      \* processes of one user: they share the runtime directory
          AsRoot,       \* whether that user is root
          Files,        \* contents the configuration file may have
          Overrides,    \* backend paths a command line may give, <<>> for none
          Links,        \* symbolic links: a function from paths to paths
          Rank,         \* lexicographic position of every canonical path
          Uid           \* uid of every known user name

VARIABLES file,         \* what the configuration file says
          phase,        \* where each daemon's run() is
          conf,         \* the configuration each daemon read
          lock,         \* holder of every lock file, "" when free
          next,         \* how many locks of its list a daemon holds
          agents,       \* the agent subsystem of each daemon
          by            \* the run that refused a daemon, while it lasts

vars == <<file, phase, conf, lock, next, agents, by>>

NoStorage == [kind |-> "none", cred |-> <<>>, pin |-> <<>>]
NoConf == [ok |-> FALSE]
AgentState == <<"agent-state">>
AnyRp == "*"
Deny == [authorization |-> "deny", up |-> "none", uv |-> "none"]
Autonomous == [authorization |-> "allow", up |-> "agent", uv |-> "agent"]
Supervised == [authorization |-> "confirm", up |-> "human", uv |-> "human"]
LegacyConfirm(requireUv) ==
    [authorization |-> "confirm", up |-> "human",
     uv |-> IF requireUv THEN "human" ELSE "none"]

(***************************************************************************)
(* Paths.  The longest linked prefix is replaced by its target, the rest   *)
(* is appended as it is.                                                   *)
(***************************************************************************)
CanonicalizePath(p) ==
    LET linked == {n \in 1..Len(p) : SubSeq(p, 1, n) \in DOMAIN Links}
        n == CHOOSE n \in linked : \A k \in linked : k =< n
    IN IF linked = {} THEN p
       ELSE Links[SubSeq(p, 1, n)] \o SubSeq(p, n + 1, Len(p))
Overlap(a, b) == IsPrefix(a, b) \/ IsPrefix(b, a)
CredentialStatePath(s) == CanonicalizePath(s.cred)
PinStatePath(s) == CanonicalizePath(s.pin)
AllPaths(s) == <<CredentialStatePath(s), PinStatePath(s)>>

(***************************************************************************)
(* One agent profile.                                                      *)
(***************************************************************************)
EffectiveRules(p) ==
    IF p.rules # <<>> THEN p.rules
    ELSE [i \in DOMAIN p.rpIds |->
            [rp |-> p.rpIds[i], selection |-> "inherit",
             register |-> IF p.registration THEN LegacyConfirm(p.requireUv) ELSE Deny,
             authenticate |-> LegacyConfirm(p.requireUv)]]
RulesOf(p) == {EffectiveRules(p)[i] : i \in DOMAIN EffectiveRules(p)}
Permits(policy) == policy.authorization # "deny"
AllowsRegistration(p) == \E r \in RulesOf(p) : Permits(r.register)
AllowsAuthentication(p) == \E r \in RulesOf(p) : Permits(r.authenticate)

ValidCeremonyPolicy(policy) ==
    /\ ~ (policy.authorization = "deny" /\ (policy.up # "none" \/ policy.uv # "none"))
    /\ ~ (policy.authorization = "allow" /\ policy.up = "human")
\* One name for each reason validate_rp_id has to refuse one: empty, a scheme,
\* a path, a port, a wildcard, a trailing dot, an address, not a DNS name, a
\* single label, a public suffix.
RefusedRpIds == {"", "https://a.com", "a.com/x", "a.com:443", "*.a.com", "a.com.",
                 "127.0.0.1", "-a.com", "localhost", "com"}
ValidRpId(rp) == rp \notin RefusedRpIds
ValidRuleId(rp) == rp = AnyRp \/ ValidRpId(rp)
Selectable(p, selection) ==
    selection \in {"any", "inherit"} \/ p.refs = {} \/ selection \in p.refs

ValidLimits(p) ==
    /\ p.user # ""
    /\ p.maxOperations \in 1..4096
    /\ IF p.scope = "session"
       THEN /\ p.sessions \in 1..64
            /\ ~ (p.sessions > 1 /\ p.cdp = "port" /\ p.port # 0)
       ELSE p.sessions \in 0..64
ValidRules(p) ==
    /\ ~ (p.rules # <<>> /\ (p.rpIds # <<>> \/ p.registration \/ p.requireUv))
    /\ \A i \in DOMAIN EffectiveRules(p) :
         LET r == EffectiveRules(p)[i]
         IN /\ ValidRuleId(r.rp)
            /\ \A j \in 1..i-1 : EffectiveRules(p)[j].rp # r.rp
            /\ ValidCeremonyPolicy(r.register) /\ ValidCeremonyPolicy(r.authenticate)
            /\ Selectable(p, r.selection)
ValidWildcard(p) ==
    \A r \in RulesOf(p) :
        r.rp = AnyRp =>
            /\ p.rules # <<>> /\ p.mode = "same-user" /\ p.refs = {}
            /\ ~ Permits(r.register)
            /\ r.selection \in {"any", "inherit"}
ValidDevice(d) == d.name # "" /\ d.phys # "" /\ d.uniq # "" /\ d.name # "virtual-fido"
ValidStorage(s) ==
    s.kind = "pass" => ~ Overlap(CredentialStatePath(s), PinStatePath(s))
ValidMode(p) ==
    CASE p.mode = "same-user" -> p.storage = NoStorage
      [] p.mode = "isolated" ->
           /\ ValidDevice(p.device)
           /\ p.storage # NoStorage /\ ValidStorage(p.storage)
           /\ p.browserUser = "" /\ p.browserRoot = <<>>
ValidProfile(p) ==
    /\ ValidLimits(p) /\ Selectable(p, p.selection)
    /\ ValidRules(p) /\ ValidWildcard(p) /\ ValidMode(p)

(***************************************************************************)
(* The agent configuration: every profile, the operator's acknowledgements *)
(* of what same-user profiles may do to the human store, roots that do not *)
(* overlap one another or the human store, and device identities that do   *)
(* not collide.                                                            *)
(***************************************************************************)
Acknowledged(c) ==
    /\ (c.ackGlobal \cup c.ackRegistration) \subseteq DOMAIN c.profiles
    /\ \A n \in DOMAIN c.profiles :
         LET p == c.profiles[n]
         IN /\ (p.mode = "same-user" /\ \E r \in RulesOf(p) : r.rp = AnyRp /\ Permits(r.authenticate))
                   => n \in c.ackGlobal
            /\ (p.mode = "same-user" /\ AllowsRegistration(p)) => n \in c.ackRegistration
Stored(c) == {n \in DOMAIN c.profiles : c.profiles[n].storage # NoStorage}
Roots(c) ==
    {<<"audit", 1>>} \cup (Stored(c) \X {1, 2})
RootPath(c, r) ==
    IF r[1] = "audit" THEN CanonicalizePath(c.audit) ELSE AllPaths(c.profiles[r[1]].storage)[r[2]]
RootsApart(c) ==
    \A r \in Roots(c) :
        /\ \A s \in Roots(c) \ {r} : ~ Overlap(RootPath(c, r), RootPath(c, s))
        /\ ~ Overlap(RootPath(c, r), CanonicalizePath(c.human))
Isolated(c) == {n \in DOMAIN c.profiles : c.profiles[n].mode = "isolated"}
Collide(c, n) == \E k \in DOMAIN c.profiles \ {n} : c.profiles[k].device = c.profiles[n].device
IdentitiesApart(c) ==
    \A n, k \in Isolated(c) : n # k => c.profiles[n].device # c.profiles[k].device
ValidAgents(c) ==
    c.enabled =>
        /\ c.audit # <<>>
        /\ Acknowledged(c)
        /\ \A n \in DOMAIN c.profiles : ValidProfile(c.profiles[n])
        /\ RootsApart(c) /\ IdentitiesApart(c)
ValidPin(c) == c.pin.minLength \in 4..63 /\ c.pin.retries > 0 /\ c.pin.uvRetries > 0
ValidBackend(c) == c.backend = "pass" => IsPrefix(CanonicalizePath(c.passStore), CanonicalizePath(c.human))
Validate(c) == ValidPin(c) /\ ValidAgents(c) /\ ValidBackend(c)

(***************************************************************************)
(* Locks.  Without agents a daemon takes the lock of its human store; with *)
(* agents it takes the agent-state lock first and then the lock of every   *)
(* credential store, sorted by canonical path.  None of them waits.        *)
(***************************************************************************)
StatePaths(c) ==
    {CanonicalizePath(c.human)} \cup
        (IF c.enabled THEN {CredentialStatePath(c.profiles[n].storage) : n \in Stored(c)} ELSE {})
LockListUnordered(c) ==
    SetToSeq({CredentialStatePath(c.profiles[n].storage) : n \in IF c.enabled THEN Stored(c) ELSE {}})
        \o <<CanonicalizePath(c.human)>>
LockListHuman(c) == <<CanonicalizePath(c.human)>>
LockList(c) ==
    (IF c.enabled THEN <<AgentState>> ELSE <<>>)
        \o SetToSortSeq(StatePaths(c), LAMBDA p, q : Rank[p] < Rank[q])

(***************************************************************************)
(* AppConfig::load and validate: the command line's backend path wins over *)
(* the file's, the agents always come from the file.                       *)
(***************************************************************************)
Load(d, override) ==
    LET c == IF override = <<>> THEN file ELSE [file EXCEPT !.human = override]
    IN /\ phase[d] \in {"off", "refused", "failed"}
       /\ IF Validate(c)
          THEN /\ phase' = [phase EXCEPT ![d] = "locking"]
               /\ conf' = [conf EXCEPT ![d] = c]
          ELSE /\ phase' = [phase EXCEPT ![d] = "failed"]
               /\ UNCHANGED conf
       /\ UNCHANGED <<file, lock, next, agents, by>>

\* A daemon leaves: the kernel drops every lock it held.
Leave(d, how) ==
    /\ phase' = [phase EXCEPT ![d] = how]
    /\ conf' = [conf EXCEPT ![d] = NoConf]
    /\ lock' = [l \in DOMAIN lock |-> IF lock[l] = d THEN "" ELSE lock[l]]
    /\ next' = [next EXCEPT ![d] = 0]
    /\ agents' = [agents EXCEPT ![d] = "none"]
    /\ by' = [e \in Daemons |-> IF e = d \/ by[e] = d THEN "" ELSE by[e]]
    /\ UNCHANGED file

\* acquire_with_runtime_dir: one non-blocking flock; the first one that is
\* taken refuses the daemon, which then drops the ones it has.
Wanted(d) == LockList(conf[d])[next[d] + 1]
TakeLock(d) ==
    /\ phase[d] = "locking" /\ lock[Wanted(d)] = ""
    /\ lock' = [lock EXCEPT ![Wanted(d)] = d]
    /\ next' = [next EXCEPT ![d] = @ + 1]
    /\ phase' = [phase EXCEPT ![d] =
                    IF next[d] + 1 = Len(LockList(conf[d])) THEN "locked" ELSE "locking"]
    /\ UNCHANGED <<file, conf, agents, by>>
LockTaken(d) ==
    /\ phase[d] = "locking" /\ lock[Wanted(d)] # ""
    /\ phase' = [phase EXCEPT ![d] = "dropping"]
    /\ by' = [by EXCEPT ![d] = lock[Wanted(d)]]
    /\ UNCHANGED <<file, conf, lock, next, agents>>
Refused(d) == phase[d] = "dropping" /\ Leave(d, "refused")

\* The device and the human store are opened; either may fail.  The agent
\* subsystem starts on a thread of its own while the human path serves.
Serve(d) ==
    /\ phase[d] = "locked" /\ conf[d].enabled
    /\ phase' = [phase EXCEPT ![d] = "serving"]
    /\ agents' = [agents EXCEPT ![d] = "starting"]
    /\ UNCHANGED <<file, conf, lock, next, by>>
ServeAlone(d) ==
    /\ phase[d] = "locked" /\ ~ conf[d].enabled
    /\ phase' = [phase EXCEPT ![d] = "serving"]
    /\ agents' = [agents EXCEPT ![d] = "none"]
    /\ UNCHANGED <<file, conf, lock, next, by>>
OpenFails(d) == phase[d] = "locked" /\ Leave(d, "failed")

(***************************************************************************)
(* AgentRuntime::start, up to the endpoints: the policy compiles, the      *)
(* users resolve to uids a root daemon accepts, the diagnostics find no    *)
(* fault and there is a profile to serve.  A failure leaves the human path *)
(* serving.                                                                *)
(***************************************************************************)
AllowedActions(p) ==
    (IF AllowsAuthentication(p) THEN {"authenticate"} ELSE {})
        \cup (IF AllowsRegistration(p) THEN {"register"} ELSE {})
ValidPolicy(p) == AllowedActions(p) # {}
Compiles(c) == \A n \in DOMAIN c.profiles : ValidPolicy(c.profiles[n])
BrowserUid(p) ==
    IF p.browserUser # "" THEN Uid[p.browserUser]
    ELSE IF p.cdp = "port" THEN Uid[p.user] ELSE -1
Known(p) == {p.user, p.browserUser} \subseteq DOMAIN Uid \cup {""}
UsersAccepted(c) ==
    \A n \in DOMAIN c.profiles :
        LET p == c.profiles[n]
        IN /\ Known(p)
           /\ AsRoot => /\ Uid[p.user] # 0
                         /\ (p.browserUser # "" /\ p.cdp # "port")
                                => BrowserUid(p) \notin {0, Uid[p.user]}
UidChecks(p) ==
    AsRoot => /\ Uid[p.user] # 0
              /\ BrowserUid(p) # -1 => BrowserUid(p) \notin {0, Uid[p.user]}
Diagnostics(c) ==
    IF \E n \in DOMAIN c.profiles : Collide(c, n) THEN "collision"
    ELSE IF \A n \in DOMAIN c.profiles : UidChecks(c.profiles[n]) THEN "ok" ELSE "uids"
StartAgents(d, healthy) ==
    LET c == conf[d]
        outcome == IF ~ Compiles(c) THEN "policy"
                   ELSE IF ~ UsersAccepted(c) THEN "users"
                   ELSE IF c.profiles # <<>> /\ Diagnostics(c) # "ok" THEN Diagnostics(c)
                   ELSE IF ~ healthy THEN "environment"
                   ELSE IF c.profiles = <<>> THEN "no profiles" ELSE "up"
    IN /\ phase[d] = "serving" /\ agents[d] = "starting"
       /\ agents' = [agents EXCEPT ![d] = outcome]
       /\ UNCHANGED <<file, phase, conf, lock, next, by>>

\* Shutdown joins the worker and the agent thread before run() returns and
\* the locks are dropped; a second signal or a kill ends it anywhere.
Stop(d) ==
    /\ phase[d] = "serving"
    /\ phase' = [phase EXCEPT ![d] = "stopping"]
    /\ UNCHANGED <<file, conf, lock, next, agents, by>>
Stopped(d) == phase[d] = "stopping" /\ agents[d] # "starting" /\ Leave(d, "off")
AgentsStop(d) ==
    /\ phase[d] = "stopping" /\ agents[d] = "starting"
    /\ agents' = [agents EXCEPT ![d] = "none"]
    /\ UNCHANGED <<file, phase, conf, lock, next, by>>
Killed(d) == phase[d] \notin {"off", "refused", "failed"} /\ Leave(d, "off")

EditFile ==
    /\ \E f \in Files \ {file} : file' = f
    /\ UNCHANGED <<phase, conf, lock, next, agents, by>>

Init ==
    /\ file \in Files
    /\ phase = [d \in Daemons |-> "off"]
    /\ conf = [d \in Daemons |-> NoConf]
    /\ lock = [l \in DOMAIN Rank |-> ""]
    /\ next = [d \in Daemons |-> 0]
    /\ agents = [d \in Daemons |-> "none"]
    /\ by = [d \in Daemons |-> ""]

Next ==
    \/ \E d \in Daemons :
         \/ \E o \in Overrides : Load(d, o)
         \/ TakeLock(d) \/ LockTaken(d) \/ Refused(d)
         \/ Serve(d) \/ ServeAlone(d) \/ OpenFails(d)
         \/ \E healthy \in BOOLEAN : StartAgents(d, healthy)
         \/ Stop(d) \/ AgentsStop(d) \/ Stopped(d) \/ Killed(d)
    \/ EditFile

Spec == Init /\ [][Next]_vars

(***************************************************************************)
(* Stores a daemon has open.                                               *)
(***************************************************************************)
Open(d) == phase[d] \in {"serving", "stopping"}
Stores(d) ==
    {CanonicalizePath(conf[d].human)} \cup
        (IF agents[d] = "up"
         THEN {CredentialStatePath(conf[d].profiles[n].storage) : n \in Stored(conf[d])} ELSE {})

(***************************************************************************)
(* Whatever their command lines, links and the edits of the file between   *)
(* their starts, two daemons that run at the same time never have the same *)
(* credential store open, be it the human store of one and an agent's      *)
(* store of the other: their counters and indexes would diverge            *)
(* (instance_lock.rs, main.rs run()).                                      *)
(***************************************************************************)
StoresHaveOneDaemon ==
    \A d, e \in Daemons : d # e /\ Open(d) /\ Open(e) => Stores(d) \cap Stores(e) = {}

(***************************************************************************)
(* Daemons that contend for overlapping sets of locks never refuse each    *)
(* other: the locks are tried and not waited for, so an order that differs *)
(* between them would leave neither running (MultiLock::then_backends).    *)
(***************************************************************************)
RefusedByAWinner == \A d, e \in Daemons : by[d] = e => by[e] = ""
===========================================================================
