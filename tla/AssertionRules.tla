--------------------------- MODULE AssertionRules ---------------------------
(***************************************************************************)
(* What one request to the signing service is answered with: the checks    *)
(* and choices of SignHandler::sign and RegisterHandler::register          *)
(* (agent/sign.rs, agent/register.rs) on the data of a request, in order.  *)
(* Locks, grants, budgets and records are in SignService and AuditTrail.   *)
(*                                                                         *)
(* A step is one stage of the handler; it chooses the part of the request, *)
(* the policy and the stored credentials that the stage looks at.  A       *)
(* credential is its identifier, a number; names of hosts and relying      *)
(* parties are sequences of labels.                                        *)
(***************************************************************************)
EXTENDS Integers, SequencesExt, FiniteSets

CONSTANTS Hosts,     \* names of hosts and relying parties
          Creds,     \* identifiers of stored credentials
          MaxCount   \* the largest counter (u32::MAX)

VARIABLES stage,   \* the stage the handler is at; "refused" or "answered" at the end
          req,     \* what has been read of the request
          store,   \* credential -> what is stored of it, in the order it is enumerated
          out      \* the answer
vars == <<stage, req, store, out>>

Nothing == [is |-> "nothing"]

Init == stage = "origin" /\ req = Nothing /\ store = <<>> /\ out = Nothing

-----------------------------------------------------------------------------
(* Origins.                                                                 *)

\* An origin as it is sent.  "odd" has a path, a query, a fragment, a user, an
\* empty host, a bad port or another scheme.
Origins == [form : {"plain", "slash"}, host : Hosts, port : {0, 1}] \cup {[form |-> "odd"]}

\* parse_origin: host and port; 0 is no port.
ParseOrigin(o) == IF o.form = "odd" THEN Nothing ELSE [is |-> "origin", host |-> o.host, port |-> o.port]

\* The name of a relying party as it is sent: perhaps with a final dot, with
\* blanks around it or in capitals.
RpNames == [labels : Hosts \cup {<<>>}, dot : {"no", "yes"}, spelling : {"plain", "other"}]

\* normalize_rp_id trims and lowers; a final dot stays.
NormalizeRpId(name) == [labels |-> name.labels, dot |-> name.dot]

\* verify_origin_structural: the host is the relying party's or below it; a final
\* dot of the relying party is not looked at.
VerifyOriginStructural(o, rp) ==
  ParseOrigin(o) # Nothing /\ rp.labels # <<>> /\ IsSuffix(rp.labels, o.host)

\* verify_origin_context: the page around a frame of the same origin is that origin.
VerifyOriginContext(o, top, cross, rp) ==
  /\ VerifyOriginStructural(o, rp)
  /\ IF cross = "yes" THEN top # Nothing /\ ParseOrigin(top) # Nothing
     ELSE top # Nothing => ParseOrigin(top) = ParseOrigin(o)

Refuse == stage' = "refused" /\ out' = Nothing /\ req' = Nothing /\ store' = <<>>

CheckOrigin ==
  /\ stage = "origin"
  /\ \E o \in Origins, top \in Origins \cup {Nothing}, cross \in {"no", "yes"}, name \in RpNames,
        ceremony \in {"get", "create"} :
       LET rp == NormalizeRpId(name) IN
       IF VerifyOriginContext(o, top, cross, rp)
       THEN /\ req' = [ceremony |-> ceremony, host |-> ParseOrigin(o).host, rp |-> rp]
            /\ stage' = "evidence" /\ UNCHANGED <<store, out>>
       ELSE Refuse

-----------------------------------------------------------------------------
(* Evidence.                                                                *)

\* AgentCeremonyPolicy::validate: no evidence when denied, no human presence when allowed.
Policies ==
  {p \in [auth : {"deny", "confirm", "allow"}, up : {"none", "agent", "human"}, uv : {"none", "agent", "human"}] :
     /\ p.auth = "deny" => p.up = "none" /\ p.uv = "none"
     /\ p.auth = "allow" => p.up # "human"}
Demands == [asked : {"no", "yes"}, alwaysUv : {"no", "yes"}, prompt : {"when_required", "always"}]

Required(d) == d.asked = "yes" \/ d.alwaysUv = "yes"

\* A person would have to confirm, be present or be verified.
HumanNeeded(p, d) == \/ p.auth = "confirm" \/ p.up = "human"
                     \/ p.uv = "human" /\ (Required(d) \/ d.prompt = "always")

\* Mutant: only what the page asks for counts.
VerificationMissingAsked(p, d) == d.asked = "yes" /\ p.uv # "agent"

\* Verification is required and the policy has nobody to give it.
VerificationMissing(p, d) == Required(d) /\ p.uv # "agent"

\* The rule of the relying party, or of "*"; a name with a final dot is not
\* valid and has no rule.
RuleFound(rp) == rp.dot = "no"

CheckEvidence ==
  /\ stage = "evidence"
  /\ IF ~RuleFound(req.rp) THEN Refuse
     ELSE \E p \in Policies, d \in Demands :
       IF p.auth = "deny" \/ HumanNeeded(p, d) \/ VerificationMissing(p, d) THEN Refuse
       ELSE /\ req' = [ceremony |-> req.ceremony, rp |-> req.rp.labels, host |-> req.host,
                       required |-> Required(d), up |-> p.up = "agent", uv |-> p.uv = "agent", refs |-> <<>>, allow |-> <<>>]
            /\ stage' = IF req.ceremony = "get" THEN "choose" ELSE "create"
            /\ UNCHANGED <<store, out>>

-----------------------------------------------------------------------------
(* The choice of a credential.                                              *)

Stored == [id : Creds, rp : Hosts, protect : {1, 2, 3}, created : {1, 2}]
Lists(S) == {s \in UNION {[1 .. n -> S] : n \in 0 .. 2} : IsInjective(s)}
Selections == {[by |-> b] : b \in {"single", "first", "newest"}} \cup [by : {"credential"}, id : Creds]

\* The stored credentials of a relying party, in the order they are enumerated.
Discovered(st, rp) == SelectSeq(st, LAMBDA c : c.rp = rp)

\* resolve_credential_id for each credential the grant names, in its order; a
\* grant that names none stands for all of the relying party.
InScope(st, rp, refs) ==
  LET found == Discovered(st, rp) IN
  IF refs = <<>> THEN found
  ELSE FlattenSeq([i \in DOMAIN refs |-> SelectSeq(found, LAMBDA c : c.id = refs[i])])

\* The candidates: in the list the page gave, if it gave one; a credential that
\* may be found only with verification is skipped without a list.
Candidates(scope, allow, uv) ==
  SelectSeq(scope, LAMBDA c : /\ allow # <<>> => c.id \in ToSet(allow)
                              /\ ~(c.protect = 2 /\ ~uv /\ allow = <<>>))

None == [id |-> 0]
ById(c, d) == c.id <= d.id
ByAge(c, d) == c.created > d.created \/ (c.created = d.created /\ c.id <= d.id)
Smallest(cands) == CHOOSE c \in ToSet(cands) : \A d \in ToSet(cands) : ById(c, d)
Newest(cands) == CHOOSE c \in ToSet(cands) : \A d \in ToSet(cands) : ByAge(c, d)

\* Mutant: the first credential that was enumerated.
SelectCredentialEnumerated(cands, allow, sel) == IF cands = <<>> THEN None ELSE Head(cands)

\* select_credential: the page's list is in order of preference.
SelectCredential(cands, allow, sel) ==
  LET named == {i \in DOMAIN allow : \E c \in ToSet(cands) : c.id = allow[i]} IN
  CASE cands = <<>> -> None
    [] cands # <<>> /\ named # {} ->
         LET i == CHOOSE k \in named : \A l \in named : k <= l IN
         CHOOSE c \in ToSet(cands) : c.id = allow[i]
    [] OTHER ->
         CASE sel.by = "credential" ->
                IF \E c \in ToSet(cands) : c.id = sel.id
                THEN CHOOSE c \in ToSet(cands) : c.id = sel.id ELSE None
           [] sel.by = "single" -> IF Len(cands) = 1 THEN cands[1] ELSE None
           [] sel.by = "first" -> Smallest(cands)
           [] sel.by = "newest" -> Newest(cands)

ChosenFrom(st, refs, allow, sel) ==
  SelectCredential(Candidates(InScope(st, req.rp, refs), allow, req.uv), allow, sel)

\* The page, the grant, the profile and the store; a chosen credential that
\* requires verification is refused without it.
Choose ==
  /\ stage = "choose"
  /\ \E st \in {s \in UNION {[1 .. n -> Stored] : n \in 0 .. 2} :
                  \A i, j \in DOMAIN s : i # j => s[i].id # s[j].id},
        refs \in Lists(Creds), allow \in Lists(Creds), sel \in Selections :
       LET c == ChosenFrom(st, refs, allow, sel) IN
       IF c = None \/ (c.protect = 3 /\ ~req.uv) THEN Refuse
       ELSE /\ store' = st /\ stage' = "sign" /\ out' = [is |-> "choice", cred |-> c, sel |-> sel]
            /\ req' = [req EXCEPT !.refs = refs, !.allow = allow]

-----------------------------------------------------------------------------
(* The answer.                                                              *)

\* build_authenticator_data: what the relying party is told of the ceremony.
AuthenticatorData(r, count) == [rpIdHash |-> r.rp, up |-> r.up, uv |-> r.uv, signCount |-> count]

\* build_client_data_json; the page around the frame is left out.
ClientData(type, r) == [type |-> type, host |-> r.host]

\* saturating_add: the largest counter stays.
NextCount(count) == IF count = MaxCount THEN MaxCount ELSE count + 1

\* The counter of the stored credential goes up, and is 0 if counters are
\* constant or the credential is not discoverable.
Sign ==
  /\ stage = "sign"
  /\ \E counts \in {"rising", "zero"}, count \in 0 .. MaxCount :
       out' = [is |-> "assertion", cred |-> out.cred, counts |-> counts, last |-> count,
               auth |-> AuthenticatorData(req, IF counts = "zero" THEN 0 ELSE NextCount(count)),
               client |-> ClientData("get", req)]
  /\ stage' = "answered" /\ store' = <<>> /\ UNCHANGED req

\* A new credential with its counter at 0.
Create ==
  /\ stage = "create" /\ stage' = "answered"
  /\ out' = [is |-> "attestation", cred |-> [id |-> 0, rp |-> req.rp], counts |-> "zero", last |-> 0,
             auth |-> AuthenticatorData(req, 0), client |-> ClientData("create", req)]
  /\ UNCHANGED <<req, store>>

Next == CheckOrigin \/ CheckEvidence \/ Choose \/ Sign \/ Create
Spec == Init /\ [][Next]_vars

-----------------------------------------------------------------------------
\* Whatever way the request went, what a relying party checks of the answer
\* holds: the data names the relying party whose credential signed, the ceremony
\* and the page it came from, a host of that relying party; the credential is one
\* of those it listed and of those the grant names; verification is claimed if it
\* was required, by the page, the daemon or the credential's protection; and a
\* counter that counts is above the stored one until that is the largest.
\* Presence is claimed if the policy has the agent give it; a policy that allows
\* with presence "none" gets an answer without the flag.
RelyingPartyAccepts ==
  stage = "answered" =>
    /\ out.auth.rpIdHash = out.cred.rp /\ out.client.type = req.ceremony
    /\ IsSuffix(out.cred.rp, out.client.host)
    /\ req.up <=> out.auth.up
    /\ req.required => out.auth.uv
    /\ out.is = "assertion" =>
         /\ req.allow # <<>> => out.cred.id \in ToSet(req.allow)
         /\ req.refs # <<>> => out.cred.id \in ToSet(req.refs)
         /\ out.cred.protect = 3 => out.auth.uv
         /\ out.cred.protect = 2 => out.auth.uv \/ req.allow # <<>>
         /\ out.counts = "rising" => out.auth.signCount > out.last \/ out.last = MaxCount

\* The credential that signs does not depend on the order in which the store
\* enumerates its credentials or the grant names them.
ChoiceOrderFree ==
  stage = "sign" =>
    \A refs \in {req.refs, Reverse(req.refs)} :
      ChosenFrom(Reverse(store), refs, req.allow, out.sel) = out.cred
=============================================================================
