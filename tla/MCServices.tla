----------------------------- MODULE MCServices ------------------------------
(***************************************************************************)
(* What the daemon answers for a profile, each part on its own: the        *)
(* signing service, the rules of an assertion and the compilation of a     *)
(* policy.  A behaviour is about one part.                                 *)
(***************************************************************************)
EXTENDS SignService, TLC

\* Policies: rules for a domain, a subdomain and any host, in either order, in
\* either spelling, by name or by field, valid and not.
A == <<"a", "com">>
S == <<"s", "a", "com">>
AnyHost == <<"*">>
RuleHosts == {A, S, <<"com">>, AnyHost}
Named(name) == [form |-> name]
Fields(auth, up, uv) == [form |-> "fields", auth |-> auth, up |-> up, uv |-> uv]
Written(host) == [host |-> host, upper |-> "no"]
Shouted(host) == [host |-> host, upper |-> "yes"]
Rule(rp, r, a, s) == [rp |-> rp, register |-> r, authenticate |-> a, selection |-> s]
Deny == Named("deny")
Supervised == Named("supervised")
Autonomous == Named("autonomous")
OfA == Rule(Written(A), Deny, Supervised, "inherit")
OfS == Rule(Written(S), Deny, Autonomous, "inherit")
OfAny == Rule(Written(AnyHost), Deny, Autonomous, "inherit")
RuleLists ==
  {<<OfA>>, <<Rule(Shouted(A), Deny, Supervised, "inherit")>>, <<OfS>>,
   <<Rule(Written(A), Deny, Fields("confirm", "human", "human"), "newest")>>,
   <<OfA, Rule(Written(S), Deny, Fields("allow", "policy", "policy"), "inherit")>>, <<OfS, OfA>>,
   <<OfA, OfAny>>, <<OfAny, Rule(Written(A), Deny, Deny, "inherit")>>,
   <<Rule(Written(AnyHost), Supervised, Autonomous, "inherit")>>,
   <<OfA, Rule(Shouted(A), Deny, Autonomous, "inherit")>>,
   <<Rule(Written(A), Deny, Deny, "inherit")>>, <<Rule(Written(A), Supervised, Supervised, "inherit")>>,
   <<Rule(Written(A), Fields("allow", "human", "none"), Deny, "inherit")>>,
   <<Rule(Written(A), Fields("allow", "agent", "none"), Deny, "k1")>>}
File(mode, rules, rpIds, refs, uv, registration, ttl, sel) ==
  [mode |-> mode, rules |-> rules, rpIds |-> rpIds, refs |-> refs, requireUv |-> uv,
   registration |-> registration, grantTtl |-> ttl, selection |-> sel, prompt |-> "when_required"]
PolicyFiles ==
  {File(mode, rules, <<>>, refs, "no", "no", 3, "single") :
     mode \in {"same-user", "isolated"}, rules \in RuleLists, refs \in {{}, {"k1"}}}
  \cup {File("isolated", <<>>, rpIds, {}, uv, registration, 3, "single") :
          rpIds \in {<<>>, <<Written(A)>>, <<Written(S), Written(A)>>},
          uv \in {"yes", "no"}, registration \in {"yes", "no"}}
  \cup {File("isolated", <<OfA>>, <<>>, {"k1"}, "no", "no", ttl, "newest") : ttl \in {0, 1, 4}}
  \cup {File("isolated", <<OfA>>, <<Written(A)>>, {"k1"}, "no", "no", 3, "newest"),
        File("isolated", <<OfA>>, <<>>, {"k1"}, "no", "no", 3, "k2")}
  \cup {[File("isolated", <<Rule(Written(A), Deny, Fields("allow", up, "human"), "inherit")>>, <<>>,
               {}, "no", "no", 3, "single") EXCEPT !.prompt = prompt] :
          up \in {"agent", "policy", "none"}, prompt \in {"when_required", "always"}}

VARIABLE part   \* the part this behaviour is about


VARIABLES asStage, asReq, asStore, asOut
asVars == <<asStage, asReq, asStore, asOut>>
Assertion == INSTANCE AssertionRules WITH Hosts <- {<<"com">>, A}, Creds <- {1, 2},
                                          MaxCount <- 2, stage <- asStage, req <- asReq, store <-
                                          asStore, out <- asOut

VARIABLES poRun, poEarlier, poIssued, poHeld, poIntent
poVars == <<poRun, poEarlier, poIssued, poHeld, poIntent>>
Policy == INSTANCE PolicyRules WITH Files <- PolicyFiles, Hosts <- RuleHosts, Creds <-
                                    {"k1", "k2"}, MaxDuration <- 3, MaxGenerations <- 3,
                                    run <- poRun, earlier <- poEarlier, issued <-
                                    poIssued, held <- poHeld, intent <- poIntent

\* The instances this behaviour is not about; the extended module rests in Init.
RulesOff == asStage = "off" /\ asReq = "off" /\ asStore = "off" /\ asOut = "off"
PolicyOff == poRun = "off" /\ poEarlier = "off" /\ poIssued = "off" /\ poHeld = "off" /\
             poIntent = "off"

MCInit ==
  /\ part \in {"sign", "rules", "policy"}
  /\ Init
  /\ part # "sign" => count = 0
  /\ IF part = "rules" THEN Assertion!Init ELSE RulesOff
  /\ IF part = "policy" THEN Policy!Init ELSE PolicyOff

\* A step of one part leaves the others alone.
SignTurn == part = "sign" /\ UNCHANGED <<part, asVars, poVars>>
RulesTurn == part = "rules" /\ UNCHANGED <<part, vars, poVars>>
PolicyTurn == part = "policy" /\ UNCHANGED <<part, vars, asVars>>

MCNext ==
  \/ SignTurn /\ Next
  \/ RulesTurn /\ Assertion!Next
  \/ PolicyTurn /\ Policy!Next

mcVars == <<part, vars, asVars, poVars>>

MCSpec == MCInit /\ [][MCNext]_mcVars

SignSymmetry == Permutations(Bodies) \cup Permutations(Conns)

-----------------------------------------------------------------------------
(* Properties                                                              *)

\* Assertions: what the relying party that asked checks of the answer holds (RP,
\* origin, the listed credentials, verification, presence if the policy has the
\* agent give it, a counter that rises until it saturates), and which credential
\* answers does not depend on the order the store enumerates them in (sign.rs,
\* register.rs).
AssertionsHold == part = "rules" => Assertion!RelyingPartyAccepts /\ Assertion!ChoiceOrderFree

\* Policies: generations of one digest decide every request alike, whatever the
\* order, spelling and aliases of the files they come from, but for what only
\* human_verification_prompt decides; and the ways to look a rule up agree
\* (policy.rs, sign.rs, register.rs).
PoliciesDecide == part = "policy" => Policy!DigestDecides /\ Policy!LookupsAgree
=============================================================================
