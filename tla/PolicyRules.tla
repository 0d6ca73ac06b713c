----------------------------- MODULE PolicyRules -----------------------------
(***************************************************************************)
(* The policy of one profile from the configuration file to a decision:    *)
(* rules as written are parsed and validated (passless-core agent/config), *)
(* compiled into a snapshot with a deterministic digest (agent/policy and  *)
(* policy_engine compile_snapshot), and asked again for every request: the *)
(* signing path and CreateIntent look the rule up in the configuration,    *)
(* the CTAP path in the snapshot.  authorize and authorize_registration,   *)
(* which no handler calls, look it up once more.                           *)
(*                                                                         *)
(* A name is [host, upper]: the labels of the host, and whether it is      *)
(* written in upper case.  A digest is the value that is hashed.           *)
(***************************************************************************)
EXTENDS Integers, Sequences, SequencesExt

CONSTANTS Files,     \* profiles a configuration file may hold
          Hosts,     \* hosts a request may name
          Creds,     \* credential references
          MaxDuration, MaxGenerations   \* BoundedDuration::MAX_SECS; a bound (model only)

VARIABLES run,       \* the generation the daemon has compiled, or NoGeneration
          earlier,   \* the generation of an earlier start, or NoGeneration
          issued,    \* generation ids given out
          held,      \* the generation a session's preparation names
          intent     \* the session's one-shot intent

vars == <<run, earlier, issued, held, intent>>

NoGeneration == [id |-> 0]
NoRule == [selection |-> "no rule"]
AnyRp == <<"*">>

-----------------------------------------------------------------------------
(* From the file to rules.                                                  *)

Deny == [auth |-> "deny", up |-> "none", uv |-> "none"]
Autonomous == [auth |-> "allow", up |-> "agent", uv |-> "agent"]
Supervised == [auth |-> "confirm", up |-> "human", uv |-> "human"]
LegacyConfirm(uv) == [auth |-> "confirm", up |-> "human", uv |-> IF uv = "yes" THEN "human" ELSE "none"]

\* Evidence sources: "policy" is an older name of "agent".
Source(s) == IF s = "policy" THEN "agent" ELSE s

\* A ceremony policy is written as an alias or field by field.
Parse(w) ==
  CASE w.form = "fields" -> [auth |-> w.auth, up |-> Source(w.up), uv |-> Source(w.uv)]
    [] w.form = "deny" -> Deny
    [] w.form = "autonomous" -> Autonomous
    [] w.form = "supervised" -> Supervised

NormalizeRpId(name) == name.host

\* validate_rp_id: "*", a single label and a public suffix are no relying parties.
ValidRpId(name) == name.host # AnyRp /\ Len(name.host) > 1

EffectiveRules(c) ==
  IF c.rules # <<>>
  THEN [i \in DOMAIN c.rules |-> [rp |-> c.rules[i].rp, selection |-> c.rules[i].selection,
          register |-> Parse(c.rules[i].register), authenticate |-> Parse(c.rules[i].authenticate)]]
  ELSE [i \in DOMAIN c.rpIds |-> [rp |-> c.rpIds[i], selection |-> "inherit",
          register |-> IF c.registration = "yes" THEN LegacyConfirm(c.requireUv) ELSE Deny,
          authenticate |-> LegacyConfirm(c.requireUv)]]

Rules(c) == {EffectiveRules(c)[i] : i \in DOMAIN EffectiveRules(c)}
Permits(policy) == policy.auth # "deny"
AllowsRegistration(c) == \E r \in Rules(c) : Permits(r.register)

ValidDuration(secs) == secs \in 1 .. MaxDuration
ValidPolicy(p) == (p.auth = "deny" => p = Deny) /\ (p.auth = "allow" => p.up # "human")
Selectable(c, selection) == selection \in Creds /\ c.refs # {} => selection \in c.refs

\* Mutant: a rule for every relying party may allow registration.
ValidWildcardLoose(c) ==
  \A r \in Rules(c) : NormalizeRpId(r.rp) = AnyRp =>
    /\ c.rules # <<>> /\ c.mode = "same-user" /\ c.refs = {} /\ r.selection \notin Creds
ValidWildcard(c) ==
  \A r \in Rules(c) : NormalizeRpId(r.rp) = AnyRp =>
    /\ c.rules # <<>> /\ c.mode = "same-user" /\ c.refs = {}
    /\ ~ Permits(r.register) /\ r.selection \notin Creds

Valid(c) ==
  /\ ValidDuration(c.grantTtl) /\ Selectable(c, c.selection)
  /\ c.rules # <<>> => c.rpIds = <<>> /\ c.registration = "no" /\ c.requireUv = "no"
  /\ \A i, j \in DOMAIN EffectiveRules(c) :
       i # j => NormalizeRpId(EffectiveRules(c)[i].rp) # NormalizeRpId(EffectiveRules(c)[j].rp)
  /\ \A r \in Rules(c) : /\ ValidRpId(r.rp) \/ NormalizeRpId(r.rp) = AnyRp
                         /\ ValidPolicy(r.register) /\ ValidPolicy(r.authenticate)
                         /\ Selectable(c, r.selection)
  /\ ValidWildcard(c)

-----------------------------------------------------------------------------
(* compile_snapshot, Policy::from_params and the digest.                    *)

\* The order of names as text: any total order does.
Label == [x \in {"*", "a", "com", "s"} |-> CASE x = "*" -> 1 [] x = "a" -> 2 [] x = "com" -> 3 [] x = "s" -> 4]
RECURSIVE Before(_, _)
Before(h, k) ==
  IF h = <<>> \/ k = <<>> THEN k # <<>>
  ELSE Label[Head(h)] < Label[Head(k)] \/ (Head(h) = Head(k) /\ Before(Tail(h), Tail(k)))

SortedRules(c) == SortSeq(EffectiveRules(c), LAMBDA r, s : Before(NormalizeRpId(r.rp), NormalizeRpId(s.rp)))
AllowedActions(c) ==
  {a \in {"register", "authenticate"} : \E r \in Rules(c) : Permits(r[a])}

Snapshot(c) ==
  [rules |-> SortedRules(c), rps |-> {NormalizeRpId(r.rp) : r \in Rules(c)}, refs |-> c.refs,
   actions |-> AllowedActions(c), ttl |-> c.grantTtl, requireUv |-> c.requireUv,
   registration |-> IF c.registration = "yes" \/ AllowsRegistration(c) THEN "yes" ELSE "no"]

Compiles(c) == AllowedActions(c) # {}

\* Policy::from_params: the lists are sorted and without repetition.
FromParams(c) ==
  [mode |-> c.mode, rps |-> Snapshot(c).rps, refs |-> c.refs, actions |-> AllowedActions(c),
   registration |-> Snapshot(c).registration, requireUv |-> c.requireUv, ttl |-> c.grantTtl,
   rules |-> SortedRules(c)]

\* A rule is encoded with its name and its two policies.
EncodeRules(rules) ==
  [i \in DOMAIN rules |-> [rp |-> NormalizeRpId(rules[i].rp), register |-> rules[i].register,
                           authenticate |-> rules[i].authenticate]]

\* Mutant: only the names of the rules are encoded.
EncodePolicyNames(p) == [p EXCEPT !.rules = [i \in DOMAIN @ |-> NormalizeRpId(@[i].rp)]]

\* encode_policy: a map with sorted keys, each field by its type and length.
EncodePolicy(p) == [p EXCEPT !.rules = EncodeRules(@)]

\* SHA-256 of the encoding: the encoding itself.
Digest(p) == [sha256 |-> EncodePolicy(p)]

\* compile_generation: a new id, whatever changed.
Generation(c, id) == [id |-> id, conf |-> c, policy |-> Snapshot(c), digest |-> Digest(FromParams(c))]

-----------------------------------------------------------------------------
(* Looking a rule up.  The first rule of the name, else the first for every *)
(* name; the signing path asks the configuration, the CTAP path the         *)
(* snapshot.                                                                *)

\* Mutant: a rule for every name hides the rule for one name.
FirstRuleAny(rules, host) ==
  IF \E i \in DOMAIN rules : NormalizeRpId(rules[i].rp) \in {host, AnyRp}
  THEN SelectSeq(rules, LAMBDA r : NormalizeRpId(r.rp) \in {host, AnyRp})[1] ELSE NoRule
FirstRule(rules, host) ==
  LET named(h) == SelectSeq(rules, LAMBDA r : NormalizeRpId(r.rp) = h) IN
  CASE named(host) # <<>> -> named(host)[1]
    [] named(host) = <<>> /\ named(AnyRp) # <<>> -> named(AnyRp)[1]
    [] OTHER -> NoRule

RuleForRp(c, name) == IF ValidRpId(name) THEN FirstRule(EffectiveRules(c), NormalizeRpId(name)) ELSE NoRule
CredentialSelectionForRp(c, name) ==
  LET r == RuleForRp(c, name) IN
  IF r = NoRule \/ r.selection = "inherit" THEN c.selection ELSE r.selection

\* PolicySnapshot::ceremony_policy
CeremonyPolicy(s, name, action) ==
  LET named(h) == SelectSeq(s.rules, LAMBDA r : NormalizeRpId(r.rp) = h)
      rules == named(NormalizeRpId(name)) \o named(AnyRp) IN
  IF ValidRpId(name) /\ rules # <<>> THEN rules[1][action] ELSE Deny

IsRpExactMatch(s, name) == ValidRpId(name) /\ {NormalizeRpId(name), AnyRp} \cap s.rps # {}
IsSuffixOnly(s, name) ==
  /\ ValidRpId(name) /\ ~ IsRpExactMatch(s, name)
  /\ \E h \in s.rps \ {AnyRp} : IsSuffix(h, NormalizeRpId(name)) /\ h # NormalizeRpId(name)

\* authorize_registration: only a rule of the name itself.
AuthorizeRegistration(s, name) ==
  LET rules == SelectSeq(s.rules, LAMBDA r : NormalizeRpId(r.rp) = NormalizeRpId(name)) IN
  CASE s.registration = "no" -> "delegated_registration_denied"
    [] s.registration = "yes" /\ rules = <<>> -> "rp_id_not_exact_match"
    [] OTHER -> IF Permits(rules[1].register) THEN "allowed" ELSE "action_not_allowed"

\* profiles_for_rp_id: whether the profile is one for the relying party.
ForRpId(c, name) == ValidRpId(name) /\ \E r \in Rules(c) : NormalizeRpId(r.rp) \in {NormalizeRpId(name), AnyRp}

\* A credential a request names, or none.
NoCred == "none"
Requests == [name : [host : Hosts, upper : {"no", "yes"}], action : {"register", "authenticate"},
             cred : Creds \cup {NoCred}, uv : {"no", "yes"}]

\* authorize, up to the claim of the intent, in the order of the checks.
Refusal(s, r) ==
  CASE s.rps = {} -> "empty_rp_list"
    [] IsSuffixOnly(s, r.name) -> "suffix_not_exact"
    [] ~ IsRpExactMatch(s, r.name) /\ ~ IsSuffixOnly(s, r.name) -> "rp_id_not_exact_match"
    [] IsRpExactMatch(s, r.name) /\ ~ Permits(CeremonyPolicy(s, r.name, r.action)) -> "action_not_allowed"
    [] IsRpExactMatch(s, r.name) /\ Permits(CeremonyPolicy(s, r.name, r.action))
         /\ r.cred # NoCred /\ s.refs # {} /\ r.cred \notin s.refs -> "credential_not_exact_match"
    [] OTHER -> IF r.action \in s.actions THEN "none" ELSE "action_not_allowed"

\* SignHandler::sign and RegisterHandler::register: the rule, and then whether a
\* person's verification is needed, which the configuration may ask for always.
ServiceAnswer(g, r) ==
  LET p == CeremonyPolicy(g.policy, r.name, r.action)
      person == p.uv = "human" /\ (r.uv = "yes" \/ g.conf.prompt = "always") IN
  CASE p.auth = "deny" -> "forbidden"
    [] p.auth = "confirm" -> "interaction_required"
    [] OTHER -> CASE p.up = "human" \/ person -> "interaction_required"
                  [] p.up # "human" /\ ~person -> IF r.uv = "yes" /\ p.uv # "agent" THEN "forbidden" ELSE "goes on"

-----------------------------------------------------------------------------
(* The daemon: a file is read at the start only; a reload compiles again    *)
(* what the daemon read then.                                               *)

Init == run = NoGeneration /\ earlier = NoGeneration /\ issued = 0 /\ held = 0 /\ intent = "none"

Start(c) ==
  /\ run = NoGeneration /\ issued < MaxGenerations
  /\ Valid(c) /\ Compiles(c)
  /\ run' = Generation(c, issued + 1) /\ issued' = issued + 1
  /\ UNCHANGED <<earlier, held, intent>>
Reload ==
  /\ run # NoGeneration /\ issued < MaxGenerations
  /\ run' = Generation(run.conf, issued + 1) /\ issued' = issued + 1
  /\ intent' = "none"
  /\ UNCHANGED <<earlier, held>>
Stop ==
  /\ run # NoGeneration
  /\ earlier' = [run EXCEPT !.id = 1] /\ run' = NoGeneration /\ held' = 0 /\ intent' = "none"
  /\ UNCHANGED issued

\* A request is made under the current generation and then approved or not.
Prepare ==
  /\ run # NoGeneration /\ intent = "none"
  /\ held' = run.id /\ intent' = "pending"
  /\ UNCHANGED <<run, earlier, issued>>
Settle ==
  /\ intent = "pending" /\ intent' \in {"approved", "none"}
  /\ UNCHANGED <<run, earlier, issued, held>>

\* PolicyRuntime::ceremony_policy: nothing for another generation.
CurrentPolicy(name, action) ==
  IF run # NoGeneration /\ held = run.id THEN CeremonyPolicy(run.policy, name, action) ELSE Deny

\* authorize and authorize_isolated: what is refused after the claim gives the
\* claim back.
Authorize(r) ==
  /\ Permits(CurrentPolicy(r.name, r.action)) /\ Refusal(run.policy, r) = "none"
  /\ intent = "approved"
  /\ ~ (run.policy.requireUv = "yes" /\ r.uv = "no")
  /\ intent' = "claimed"
  /\ UNCHANGED <<run, earlier, issued, held>>
Consume ==
  /\ intent = "claimed" /\ intent' = "none" /\ held' = 0
  /\ UNCHANGED <<run, earlier, issued>>

Next == \/ \E c \in Files : Start(c)
        \/ Reload \/ Stop \/ Prepare \/ Settle \/ Consume
        \/ \E r \in Requests : Authorize(r)
Spec == Init /\ [][Next]_vars

-----------------------------------------------------------------------------
\* Two starts whose policies have the same digest look up, refuse and answer
\* every request alike, whatever the order, the spelling and the form the rules
\* were written in; only human_verification_prompt, which encode_policy leaves
\* out, may make the services answer differently.
DigestDecides ==
  run # NoGeneration /\ earlier # NoGeneration /\ run.digest = earlier.digest =>
    \A r \in Requests :
      /\ Refusal(run.policy, r) = Refusal(earlier.policy, r)
      /\ CeremonyPolicy(run.policy, r.name, r.action) = CeremonyPolicy(earlier.policy, r.name, r.action)
      /\ AuthorizeRegistration(run.policy, r.name) = AuthorizeRegistration(earlier.policy, r.name)
      /\ run.conf.prompt = earlier.conf.prompt => ServiceAnswer(run, r) = ServiceAnswer(earlier, r)

\* The lookups agree on every configuration the daemon starts with: what the
\* signing path reads in the configuration is what the snapshot decides, a
\* registration is authorized exactly when the rule for the relying party permits
\* it, and nothing is permitted for a name the profile is not one for.
LookupsAgree ==
  run # NoGeneration => \A r \in Requests :
    LET rule == RuleForRp(run.conf, r.name)
        decided == CeremonyPolicy(run.policy, r.name, r.action) IN
    /\ decided = IF rule = NoRule THEN Deny ELSE rule[r.action]
    /\ AuthorizeRegistration(run.policy, r.name) = "allowed" <=>
         Permits(CeremonyPolicy(run.policy, r.name, "register"))
    /\ Refusal(run.policy, r) = "none" => ForRpId(run.conf, r.name)

\* docs/plans/agent-policy-automation-gap.md:42: "digest tests prove every
\* security-relevant field changes the digest".  Two starts with the same digest
\* answer alike and choose credentials by the same rule.  The code does not keep
\* it: neither human_verification_prompt nor credential_selection is encoded.
DigestCovers ==
  run # NoGeneration /\ earlier # NoGeneration /\ run.digest = earlier.digest =>
    \A r \in Requests :
      /\ ServiceAnswer(run, r) = ServiceAnswer(earlier, r)
      /\ CredentialSelectionForRp(run.conf, r.name) = CredentialSelectionForRp(earlier.conf, r.name)
=============================================================================
