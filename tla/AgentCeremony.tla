---------------------------- MODULE AgentCeremony ----------------------------
(***************************************************************************)
(* What one agent endpoint does with the CTAP commands of its device       *)
(* (agent/ceremony.rs), down to the credential store behind it             *)
(* (agent/storage.rs) and the evidence of presence and verification it     *)
(* answers with (agent/interaction.rs).                                    *)
(*                                                                         *)
(*   endpoint  AgentCeremonyHandler, one command at a time                 *)
(*   other     the other user of the same store: the signing service of an *)
(*             isolated profile, the person's own authenticator behind a   *)
(*             delegated view                                              *)
(*   admin     the credential requests of the administration socket        *)
(*                                                                         *)
(* A command is its code and what its CBOR body holds: the first fault a   *)
(* parser would meet, the RP and the descriptors.  How the preparation and *)
(* the pending request move while the command runs is CeremonySlot and     *)
(* PolicyRuntime; here they change only between the steps below.           *)
(***************************************************************************)
EXTENDS Integers, FiniteSets

CONSTANTS Creds,      \* credential identifiers
          Rps,        \* relying parties whose name is a valid domain
          Configured, \* the RPs of the profile's rules
          Granted,    \* the credentials a delegated view may reach
          MaxCount,   \* bound on signature counters (model only)
          MaxDescriptors  \* longest descriptor list accepted (16 in the code)

VARIABLES mode,     \* the view of the store: "isolated", "delegated" or "constant"
                    \* (delegated, for keys whose counter never moves)
          registration, \* "allowed" or "denied": registration_allowed of the view,
                    \* fixed when the endpoint is created
          prep,     \* the preparation slot
          pending,  \* the state of the request the preparation belongs to
          store,    \* credential -> its RP and signature counter
          index,    \* cred_ref_to_raw_id: the credentials this endpoint can reach
          scope,    \* CeremonyScope: the ceremony storage is open for
          token,    \* the active AgentInteractionToken
          oplock,   \* operation_lock of the backend
          audit,    \* "open" or "closed": whether the gate records
          ep,       \* the endpoint's thread
          oth,      \* the other user of the store
          answers   \* history: the last counter answered, by credential, or Repeated

request == <<prep, pending>>
back == <<mode, registration, store, index>>
gate == <<scope, token>>
vars == <<mode, registration, prep, pending, store, index, scope, token, oplock, audit,
          ep, oth, answers>>

None == [is |-> "none"]
Idle == [pc |-> "idle"]
Absent == [rp |-> "none", count |-> 0]
Stored == {c \in Creds : store[c] # Absent}

(* The command codes, and what a code may do (decode_command, classify).    *)
Commands == {"makeCredential", "getAssertion", "getNextAssertion", "getInfo", "clientPin",
             "reset", "credentialMgmt", "selection", "vendor", "unknown"}
Ceremonies == {"makeCredential", "getAssertion"}
SafeNonCeremony == {"getInfo", "clientPin", "selection"}

(* An RP as a site writes it: its name, and whether it is already in lower  *)
(* case; validate_rp_id accepts domains and answers the lower-case name.    *)
RawRps == [name : Rps \cup {"bad"}, case : {"lower", "upper"}]
NormalizeRp(raw) == raw.name
ValidRp(raw) == raw.name \in Rps

(* Faults of a body.  Both parsers refuse the first group; the others are   *)
(* fields only one of them looks at.                                        *)
SharedFaults == {"empty", "short", "cbor", "notMap", "duplicateKey", "clientDataHash",
                 "options", "extensions", "pinUvAuthParam"}
MakeFaults == SharedFaults \cup {"rpEntity", "pubKeyCredParams", "excludeList", "user",
                                 "enterpriseAttestation"}
AssertFaults == SharedFaults \cup {"rpId", "allowList", "pinUvAuthProtocol"}
Faults == MakeFaults \cup AssertFaults \cup {"none"}

\* A descriptor list is short enough and each of its identifiers has 1 to 256 bytes.
DescriptorsOk(list) == Cardinality(list) <= MaxDescriptors
ParseMakeCredential(req) ==
  req.fault \notin MakeFaults /\ ValidRp(req.rp) /\ DescriptorsOk(req.list)
ParseGetAssertion(req) ==
  req.fault \notin AssertFaults /\ ValidRp(req.rp) /\ DescriptorsOk(req.list)
ParseRequest(req) ==
  \/ req.cmd = "makeCredential" /\ ParseMakeCredential(req)
  \/ req.cmd = "getAssertion" /\ ParseGetAssertion(req)

(* Answers of the inner authenticator: the flags of its authenticator data. *)
AuthDataOk(flags, requireUv) == "up" \in flags /\ (requireUv => "uv" \in flags)

(* AgentCeremonyPolicy::validate: a denied operation names no evidence, and *)
(* an allowed one cannot wait for a person's presence.                      *)
Policies == {[auth |-> "deny", up |-> "none", uv |-> "none"]}
       \cup {p \in [auth : {"confirm", "allow"}, up : {"none", "agent", "human"},
                    uv : {"none", "agent", "human"}] : p.auth = "allow" => p.up # "human"}

-----------------------------------------------------------------------------
(* The scoped store.                                                        *)

\* build_index, of a store the profile owns and of a delegated view of the
\* person's: the view sees the credentials it was granted.
IsolatedIndex == Stored
SharedIndex == Stored \cap Granted
BuildIndex == IF mode = "isolated" THEN IsolatedIndex ELSE SharedIndex

\* is_rp_allowed and require_ceremony_rp.
RpAllowed(rp) == rp \in Configured
RpInScope(rp) == RpAllowed(rp) /\ scope # None /\ rp = scope.rp

\* What a store is asked for: one credential, the first of an RP, or the
\* first of all; by the hash of an identifier nothing is ever found.
Filters == [by : {"id"}, cred : Creds] \cup [by : {"rp"}, rp : Rps] \cup [by : {"none", "hash"}]

\* The filter admits the ceremony's credential (read, read_first).
Admits(f) ==
  \/ f.by = "none"
  \/ f.by = "id" /\ f.cred = scope.cred
  \/ f.by = "rp" /\ RpInScope(f.rp)

\* Mutant: the filter chooses the credential.
ReadableAnyOfRp(c, f) ==
  /\ scope # None /\ scope.action = "Authenticate" /\ f.by # "hash"
  /\ c \in index /\ c \in Stored /\ RpInScope(store[c].rp)

\* Through either view only the ceremony's own credential is found, by the
\* index, and only if the RP it is stored under is the ceremony's.
Readable(c, f) ==
  /\ scope # None /\ scope.action = "Authenticate" /\ c = scope.cred /\ Admits(f)
  /\ c \in index /\ c \in Stored /\ RpInScope(store[c].rp)
IsolatedReads(c, f) == mode = "isolated" /\ Readable(c, f)
SharedReads(c, f) == mode # "isolated" /\ Readable(c, f) /\ (f.by = "id" => c \in Granted)

\* verify_counter of the delegated view; an isolated store always asks for a
\* larger one.
SharedCounter(old, new) == IF mode = "constant" THEN new = old ELSE new > old
IsolatedCounter(old, new) == new > old

\* verify_immutable_fields: identifier, RP, account and key are the stored ones.
SharedImmutable(old, new) == new.rp = old.rp
IsolatedImmutable(old, new) == new.rp = old.rp

\* write in an authentication: the ceremony's credential, with nothing but its
\* counter changed.
ById(c) == [by |-> "id", cred |-> c]
IsolatedUpdates(c, new) ==
  IsolatedReads(c, ById(c)) /\ IsolatedImmutable(store[c], new)
                            /\ IsolatedCounter(store[c].count, new.count)
SharedUpdates(c, new) ==
  SharedReads(c, ById(c)) /\ SharedImmutable(store[c], new)
                          /\ SharedCounter(store[c].count, new.count)

\* write in a registration: any identifier, for the ceremony's RP, if the view
\* was made for a profile that may register.
WriteRegisters(new) ==
  /\ scope # None /\ scope.action = "Register" /\ registration = "allowed"
  /\ RpInScope(new.rp)

-----------------------------------------------------------------------------
(* The interaction token, and the callbacks that consult it.                *)

\* token.matches compares the RP as the request wrote it with the normalised
\* one of the intent.
TokenMatches(rp, action) ==
  token # None /\ token.action = action /\ rp = [name |-> token.rp, case |-> "lower"]

\* request_up and request_uv: a matching token answers once; any other active
\* token, and a profile without one, answers yes.
ByToken(kind, rp, action) ==
  TokenMatches(rp, action) /\ token.live = "yes" /\ kind \notin token.consumed
RequestUp(rp, action) == ByToken("up", rp, action) => token.up = "yes"
RequestUv(rp, action) == ByToken("uv", rp, action) => token.uv = "yes"
Consume(kind, rp, action) ==
  token' = IF ByToken(kind, rp, action)
           THEN [token EXCEPT !.consumed = @ \cup {kind}] ELSE token

-----------------------------------------------------------------------------
Init ==
  /\ mode \in {"isolated", "delegated", "constant"}
  /\ registration \in {"allowed", "denied"}
  /\ prep = None /\ pending = "none"
  /\ store \in [Creds -> {Absent} \cup [rp : Rps, count : {0}]]
  /\ index = BuildIndex
  /\ scope = None /\ token = None /\ oplock = "free" /\ audit = "open"
  /\ ep = Idle /\ oth = Idle
  /\ answers = [c \in Creds |-> 0]

(* A principal prepares an operation; the request may be cancelled or expire, *)
(* or be overtaken by a policy reload, until the ceremony resolves it.        *)
Prepare(action, rp, c) ==
  /\ prep = None /\ pending \notin {"Waiting", "Resolved"}
  /\ prep' = [action |-> action, rp |-> rp, cred |-> c]
  /\ pending' = "Waiting"
  /\ UNCHANGED <<back, gate, oplock, audit, ep, oth, answers>>

Withdraw ==
  /\ pending = "Waiting"
  /\ pending' = "Gone" /\ prep' = None
  /\ UNCHANGED <<back, gate, oplock, audit, ep, oth, answers>>

AuditCloses ==
  /\ audit = "open" /\ audit' = "closed"
  /\ UNCHANGED <<request, back, gate, oplock, ep, oth, answers>>

-----------------------------------------------------------------------------
(* handle_command.                                                          *)

Reply(what) == ep' = [pc |-> "reply", what |-> what]
Denied == Reply("denied")

\* A command that is not a ceremony: the authenticator answers the harmless
\* ones, and the rest are denied.
OtherCommand(cmd) ==
  /\ ep = Idle /\ cmd \in Commands \ Ceremonies
  /\ Reply(IF cmd \in SafeNonCeremony THEN "inner" ELSE "denied")
  /\ UNCHANGED <<request, back, gate, oplock, audit, oth, answers>>

ActionOf(req) == IF req.cmd = "makeCredential" THEN "Register" ELSE "Authenticate"

\* The request is the prepared one: the same operation, the same RP and, for
\* an assertion, the one credential prepared.
AsPrepared(req) ==
  /\ prep # None /\ prep.action = ActionOf(req) /\ prep.rp = NormalizeRp(req.rp)
  /\ prep.cred = "none" \/ req.list = {prep.cred}

\* clear_preparation: a ceremony drops its own preparation and no later one.
\* (Two preparations of the same operation are one to the model.)
ClearMatching == prep' = IF prep = ep.prep THEN None ELSE prep

\* handle_ceremony_command up to the policy: no preparation, a malformed
\* request and one that is not the prepared one end here, and take the
\* preparation with them.
Checked(req) ==
  \/ /\ ~(ParseRequest(req) /\ AsPrepared(req))
     /\ prep' = None /\ Denied
  \/ /\ ParseRequest(req) /\ AsPrepared(req)
     /\ ep' = [pc |-> "policy", prep |-> prep, rp |-> req.rp]
     /\ UNCHANGED prep

\* Mutant: the operation lock is not taken.
HandleCommandUnlocked(req) ==
  /\ ep = Idle /\ req.cmd \in Ceremonies
  /\ Checked(req)
  /\ UNCHANGED <<pending, back, gate, oplock, audit, oth, answers>>

\* A ceremony runs under the operation lock of the backend.
HandleCommand(req) ==
  /\ ep = Idle /\ req.cmd \in Ceremonies /\ oplock = "free"
  /\ oplock' = "endpoint"
  /\ Checked(req)
  /\ UNCHANGED <<pending, back, gate, audit, oth, answers>>

\* Returning from handle_command releases the lock.
Deliver ==
  /\ ep.pc = "reply" /\ ep' = Idle
  /\ oplock' = IF oplock = "endpoint" THEN "free" ELSE oplock
  /\ UNCHANGED <<request, back, gate, audit, oth, answers>>

-----------------------------------------------------------------------------
(* handle_ceremony_command: the decision.                                   *)

\* Refused, with the refusal recorded: the request is denied and the
\* preparation dropped; without a record both stay as they are.
Refuse ==
  /\ \/ /\ audit = "open"
        /\ pending' = (IF pending = "Waiting" THEN "Denied" ELSE pending)
        /\ ClearMatching
     \/ audit = "closed" /\ UNCHANGED request
  /\ Denied
  /\ UNCHANGED <<back, gate, oplock, audit, oth, answers>>

\* The rest of the step is one record: with the gate closed the ceremony
\* stops there, and leaves its preparation.
Recorded(next) ==
  /\ \/ audit = "open" /\ ep' = next
     \/ audit = "closed" /\ Denied
  /\ UNCHANGED <<request, back, gate, oplock, audit, oth, answers>>

\* ceremony_policy of the generation prepared under: none when the policy was
\* reloaded since.
StalePolicy ==
  /\ ep.pc = "policy"
  /\ ClearMatching /\ Denied
  /\ UNCHANGED <<pending, back, gate, oplock, audit, oth, answers>>

PolicyDenies == ep.pc = "policy" /\ Refuse

\* The evidence the rule names goes with the ceremony: whether there is presence
\* at all, and whose verification.
Under(p, pc) ==
  [pc |-> pc, prep |-> ep.prep, rp |-> ep.rp,
   up |-> IF p.up = "none" THEN "no" ELSE "yes", uv |-> p.uv]

PolicyAllows(p) ==
  /\ ep.pc = "policy" /\ p.auth = "allow"
  /\ ep' = Under(p, "resolve")
  /\ UNCHANGED <<request, back, gate, oplock, audit, oth, answers>>

\* A confirmation is shown once it is recorded (prompt.display).
PolicyConfirms(p) == ep.pc = "policy" /\ p.auth = "confirm" /\ Recorded(Under(p, "prompt"))

\* The person denies, does not answer, or the prompt fails.
PromptRefused == ep.pc = "prompt" /\ Refuse

PromptApproved == ep.pc = "prompt" /\ Recorded([ep EXCEPT !.pc = "resolve"])

\* ceremony_resolve_pending, for a request still waiting.
Resolve ==
  /\ ep.pc = "resolve"
  /\ \/ /\ pending = "Waiting" /\ prep = ep.prep
        /\ pending' = "Resolved"
        /\ ep' = [ep EXCEPT !.pc = "authorize"]
        /\ UNCHANGED prep
     \/ /\ ~(pending = "Waiting" /\ prep = ep.prep)
        /\ ClearMatching /\ Denied
        /\ UNCHANGED pending
  /\ UNCHANGED <<back, gate, oplock, audit, oth, answers>>

\* authorize_bound allows; the decision and the start of the ceremony are
\* recorded before anything is consumed.
Authorize == ep.pc = "authorize" /\ Recorded([ep EXCEPT !.pc = "consume"])

\* authorize_bound or consume_authorization refuses: the grant or the
\* generation is gone.
AuthorityGone ==
  /\ ep.pc \in {"authorize", "consume"}
  /\ pending' = "Gone" /\ ClearMatching /\ Denied
  /\ UNCHANGED <<back, gate, oplock, audit, oth, answers>>

\* CeremonyScope::activate and mint: what the store and the callbacks see of
\* this one ceremony.
ScopeOf(p) == [action |-> p.action, rp |-> p.rp, cred |-> p.cred]
Mint(p, up, uv) ==
  [rp |-> p.rp, action |-> p.action, live |-> "yes", consumed |-> {},
   up |-> up, uv |-> IF uv = "agent" THEN "yes" ELSE "no"]

\* consume_authorization, then the scope and the token.
Activate ==
  /\ ep.pc = "consume"
  /\ pending' = "Consumed"
  /\ scope' = ScopeOf(ep.prep)
  /\ token' = Mint(ep.prep, ep.up, ep.uv)
  /\ ep' = [ep EXCEPT !.pc = "inner"]
  /\ UNCHANGED <<prep, back, oplock, audit, oth, answers>>

\* The token lives for a minute.
TokenExpires ==
  /\ token # None /\ token.live = "yes"
  /\ token' = [token EXCEPT !.live = "no"]
  /\ UNCHANGED <<request, back, scope, oplock, audit, ep, oth, answers>>

-----------------------------------------------------------------------------
(* The authenticator behind the handler (soft-fido2): it asks for presence,  *)
(* and for verification if it needs it; then reads a credential and writes   *)
(* its next counter, or creates a credential and writes it.  Which one it    *)
(* asks the store for is its own affair.                                     *)

Running == ep.pc \in {"inner", "verify", "read", "write"}

\* Mutant: an error of the authenticator leaves the ceremony open.
InnerFailsOpen ==
  /\ Running
  /\ ClearMatching /\ Denied
  /\ UNCHANGED <<pending, back, gate, oplock, audit, oth, answers>>

\* The guards drop the scope and the token when the authenticator returns.
GuardsDrop == scope' = None /\ token' = None

\* An error, an empty answer or a status other than success.
InnerFails ==
  /\ Running
  /\ GuardsDrop
  /\ ClearMatching /\ Denied
  /\ UNCHANGED <<pending, back, oplock, audit, oth, answers>>

InnerPresence ==
  /\ ep.pc = "inner" /\ RequestUp(ep.rp, ep.prep.action)
  /\ Consume("up", ep.rp, ep.prep.action)
  /\ ep' = [ep EXCEPT !.pc = "verify"]
  /\ UNCHANGED <<request, back, scope, oplock, audit, oth, answers>>

InnerVerification ==
  /\ ep.pc = "verify"
  /\ \/ /\ RequestUv(ep.rp, ep.prep.action)
        /\ Consume("uv", ep.rp, ep.prep.action)
        /\ ep' = [pc |-> "read", prep |-> ep.prep, rp |-> ep.rp, uv |-> ep.uv,
                  flags |-> {"up", "uv"}]
     \/ /\ ep' = [pc |-> "read", prep |-> ep.prep, rp |-> ep.rp, uv |-> ep.uv,
                  flags |-> {"up"}]
        /\ UNCHANGED token
  /\ UNCHANGED <<request, back, scope, oplock, audit, oth, answers>>

ToWrite(c, new) == ep' = [pc |-> "write", prep |-> ep.prep, uv |-> ep.uv, flags |-> ep.flags,
                          cred |-> c, new |-> new]
NextCount(c) == IF mode = "constant" THEN store[c].count ELSE store[c].count + 1

InnerRead(c) ==
  /\ ep.pc = "read" /\ ep.prep.action = "Authenticate"
  /\ \E f \in Filters : IsolatedReads(c, f) \/ SharedReads(c, f)
  /\ ToWrite(c, [store[c] EXCEPT !.count = NextCount(c)])
  /\ UNCHANGED <<request, back, gate, oplock, audit, oth, answers>>

\* A new key, for the RP of the request, under an identifier of its own.
InnerCreate(c) ==
  /\ ep.pc = "read" /\ ep.prep.action = "Register" /\ c \notin Stored
  /\ ToWrite(c, [rp |-> NormalizeRp(ep.rp), count |-> 0])
  /\ UNCHANGED <<request, back, gate, oplock, audit, oth, answers>>

InnerWrite ==
  /\ ep.pc = "write" /\ ep.new.count <= MaxCount
  /\ IF ep.prep.action = "Register" THEN WriteRegisters(ep.new)
     ELSE IsolatedUpdates(ep.cred, ep.new) \/ SharedUpdates(ep.cred, ep.new)
  /\ store' = [store EXCEPT ![ep.cred] = ep.new]
  /\ GuardsDrop
  /\ ep' = [ep EXCEPT !.pc = "respond"]
  /\ UNCHANGED <<request, mode, registration, index, oplock, audit, oth, answers>>

\* What the history keeps of a counter answered.
Repeated == -1
Answered(c, n) == [answers EXCEPT ![c] = IF @ # Repeated /\ n > @ THEN n ELSE Repeated]

\* parse_ceremony_response: presence, and verification where the rule wants
\* it.  The answer leaves once the success is recorded.
Respond ==
  /\ ep.pc = "respond"
  /\ \/ /\ AuthDataOk(ep.flags, ep.uv # "none") /\ audit = "open"
        /\ ClearMatching
        /\ answers' = (IF ep.prep.action = "Register" THEN answers
                       ELSE Answered(ep.cred, ep.new.count))
        /\ Reply("inner")
     \/ /\ ~AuthDataOk(ep.flags, ep.uv # "none")
        /\ ClearMatching /\ Denied /\ UNCHANGED answers
     \/ /\ AuthDataOk(ep.flags, ep.uv # "none") /\ audit = "closed"
        /\ Denied /\ UNCHANGED <<prep, answers>>
  /\ UNCHANGED <<pending, back, gate, oplock, audit, oth>>

-----------------------------------------------------------------------------
(* The other user of the store, under the same operation lock.              *)
OtherReads(c) ==
  /\ oth = Idle /\ oplock = "free" /\ c \in Stored /\ store[c].count < MaxCount
  /\ oplock' = "other"
  /\ oth' = [pc |-> "write", cred |-> c, new |-> [store[c] EXCEPT !.count = NextCount(c)]]
  /\ UNCHANGED <<request, back, gate, audit, ep, answers>>

OtherWrites ==
  /\ oth.pc = "write"
  /\ store' = [store EXCEPT ![oth.cred] = oth.new]
  /\ answers' = Answered(oth.cred, oth.new.count)
  /\ oth' = Idle /\ oplock' = "free"
  /\ UNCHANGED <<request, mode, registration, index, gate, audit, ep>>

-----------------------------------------------------------------------------
(* Credentials on the administration socket.  The administrator names a     *)
(* credential by its reference, the store by its identifier.                *)
Ref(c) == [kind |-> "ref", of |-> c]

\* What the store answers to a deletion by that key.
Deletable(key) == key.kind = "id" /\ key.of \in Stored

\* handle_admin_delete_credential: an entry of the profile is found by its
\* reference, and its deletion asked for by the bytes of that reference.
DeletionAnswer(c) ==
  CASE c \notin Granted -> "NotFound"
    [] c \in Granted /\ Stored = {} -> "Internal"
    [] c \in Granted /\ Stored # {} /\ c \notin Stored -> "NotFound"
    [] c \in Granted \cap Stored -> IF Deletable(Ref(c)) THEN "Deleted" ELSE "Internal"

AdminDelete(c) ==
  /\ mode = "isolated" /\ oplock = "free"
  /\ store' = IF DeletionAnswer(c) = "Deleted" THEN [store EXCEPT ![c] = Absent] ELSE store
  /\ UNCHANGED <<request, mode, registration, index, gate, oplock, audit, ep, oth, answers>>

\* handle_admin_revoke_credential: the grants on the credential are revoked,
\* and whatever the profile had prepared is dropped.
AdminRevoke ==
  /\ prep' = None
  /\ UNCHANGED <<pending, back, gate, oplock, audit, ep, oth, answers>>

\* The daemon stops at any point; what was in memory is gone, and the next
\* endpoint indexes the store anew.
Restart ==
  /\ prep' = None /\ pending' = "none" /\ scope' = None /\ token' = None
  /\ oplock' = "free" /\ audit' = "open" /\ ep' = Idle /\ oth' = Idle
  /\ index' = BuildIndex
  /\ UNCHANGED <<mode, registration, store, answers>>

-----------------------------------------------------------------------------
\* One fault at a time, or a sound body with any RP and descriptor list.
Requests ==
       [cmd : Ceremonies, fault : Faults \ {"none"}, rp : [name : Rps, case : {"lower"}], list : {{}}]
  \cup [cmd : Ceremonies, fault : {"none"}, rp : RawRps, list : SUBSET Creds]

Next ==
  \/ \E rp \in Rps, c \in Creds : Prepare("Authenticate", rp, c)
  \/ \E rp \in Rps : Prepare("Register", rp, "none")
  \/ Withdraw \/ AuditCloses \/ TokenExpires
  \/ \E cmd \in Commands : OtherCommand(cmd)
  \/ \E req \in Requests : HandleCommand(req)
  \/ StalePolicy \/ PolicyDenies \/ PromptRefused \/ PromptApproved
  \/ \E p \in Policies : PolicyAllows(p) \/ PolicyConfirms(p)
  \/ Resolve \/ Authorize \/ AuthorityGone \/ Activate
  \/ InnerFails \/ InnerPresence \/ InnerVerification \/ InnerWrite
  \/ \E c \in Creds : InnerRead(c) \/ InnerCreate(c)
  \/ Respond \/ Deliver
  \/ \E c \in Creds : OtherReads(c)
  \/ OtherWrites
  \/ \E c \in Creds : AdminDelete(c)
  \/ AdminRevoke \/ Restart

Spec == Init /\ [][Next]_vars

-----------------------------------------------------------------------------
\* The key an approved ceremony reads is the one its request named, under
\* the RP it named, whatever the authenticator asks the store for and
\* whatever was revoked or prepared meanwhile; a key is made only where the
\* profile may register; and the store is closed again whenever the
\* authenticator is not running.
KeysUnderApproval ==
  /\ ep.pc = "write" => /\ ep.new.rp = ep.prep.rp
                        /\ ep.prep.action = "Authenticate" => ep.cred = ep.prep.cred
  /\ ep.pc = "respond" /\ ep.prep.action = "Register" => registration = "allowed"
  /\ ~Running => scope = None /\ token = None

\* A counter answered for a credential is larger than the one answered
\* before it, by this endpoint or by the other user of the store, unless
\* counters are configured to stand still.
CountersRise == mode # "constant" => \A c \in Creds : answers[c] # Repeated

\* docs/agents/isolated.md lists `credential delete` beside `credential
\* revoke`: asked to delete a credential of an isolated profile, the daemon
\* deletes it.
DeletionDeletes == mode = "isolated" => \A c \in Granted \cap Stored : DeletionAnswer(c) = "Deleted"

\* with_shared_storage_and_interaction: "callbacks consume it once and return
\* the pre-decided result": an answer shows verification only if the rule
\* lets the agent provide it.
EvidenceDecided == ep.pc = "respond" => ("uv" \in ep.flags => ep.uv = "agent")
=============================================================================
