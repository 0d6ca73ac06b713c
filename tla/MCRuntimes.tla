----------------------------- MODULE MCRuntimes ------------------------------
(***************************************************************************)
(* The policy runtime of a profile under two instances: requests of an     *)
(* isolated profile against two concurrent reloads, and delegated requests *)
(* and administrators against a revocation.  A behaviour is about one of   *)
(* them.                                                                   *)
(***************************************************************************)
EXTENDS PolicyRuntime, TLC

VARIABLE part   \* the part this behaviour is about


VARIABLES dgIntents, dgGrants, dgGreqs, dgClaims, dgRegGen, dgPending, dgPreqs,
          dgPreqLock, dgCurrent, dgLastGen, dgNow, dgMinted, dgPrincipal, dgWorker,
          dgReload, dgRevoke, dgExit, dgMade, dgApprovals, dgKeyUses, dgWiped, dgRevoked
dgVars == <<dgIntents, dgGrants, dgGreqs, dgClaims, dgRegGen, dgPending, dgPreqs,
            dgPreqLock, dgCurrent, dgLastGen, dgNow, dgMinted, dgPrincipal, dgWorker,
            dgReload, dgRevoke, dgExit, dgMade, dgApprovals, dgKeyUses, dgWiped,
            dgRevoked>>
Delegated == INSTANCE PolicyRuntime WITH Kinds <- {"delegated"}, Actors <- {"admin",
                                         "revoke"}, Ops <- {"o"}, Reloaders <- {"r"},
                                         Ttls <- {1}, GrantTtls <- {1}, MaxTime <- 2,
                                         MaxGen <- 0, intents <- dgIntents, grants <-
                                         dgGrants, greqs <- dgGreqs, claims <- dgClaims,
                                         regGen <- dgRegGen, pending <- dgPending, preqs
                                         <- dgPreqs, preqLock <- dgPreqLock, current <-
                                         dgCurrent, lastGen <- dgLastGen, now <- dgNow,
                                         minted <- dgMinted, principal <- dgPrincipal,
                                         worker <- dgWorker, reload <- dgReload, revoke
                                         <- dgRevoke, exit <- dgExit, made <- dgMade,
                                         approvals <- dgApprovals, keyUses <- dgKeyUses,
                                         wiped <- dgWiped, revoked <- dgRevoked

\* The instances this behaviour is not about; the extended module rests in Init.
DelegatedOff == dgIntents = "off" /\ dgGrants = "off" /\ dgGreqs = "off" /\
                dgClaims = "off" /\ dgRegGen = "off" /\ dgPending = "off" /\
                dgPreqs = "off" /\ dgPreqLock = "off" /\ dgCurrent = "off" /\
                dgLastGen = "off" /\ dgNow = "off" /\ dgMinted = "off" /\
                dgPrincipal = "off" /\ dgWorker = "off" /\ dgReload = "off" /\
                dgRevoke = "off" /\ dgExit = "off" /\ dgMade = "off" /\
                dgApprovals = "off" /\ dgKeyUses = "off" /\ dgWiped = "off" /\
                dgRevoked = "off"

MCInit ==
  /\ part \in {"isolated", "delegated"}
  /\ Init
  /\ IF part = "delegated" THEN Delegated!Init ELSE DelegatedOff

\* A step of one part leaves the others alone.
IsolatedTurn == part = "isolated" /\ UNCHANGED <<part, dgVars>>
DelegatedTurn == part = "delegated" /\ UNCHANGED <<part, vars>>

MCNext ==
  \/ IsolatedTurn /\ Next
  \/ DelegatedTurn /\ Delegated!Next

mcVars == <<part, vars, dgVars>>

MCSpec == MCInit /\ [][MCNext]_mcVars

RuntimeSymmetry == Permutations(IntentIds) \cup Permutations(CeremonyIds)
                   \cup Permutations(Ops) \cup Permutations(Reloaders)

-----------------------------------------------------------------------------
(* Properties                                                              *)

\* admin_revoke_grant is effective at once: a claim on the revoked grant is not
\* consumed, even by a ceremony that already checked the grant (policy_engine.rs).
RevocationsHold == [][part = "delegated" => Delegated!ConsumesLiveGrant]_mcVars

\* An intent backs at most one live handle, whoever approved it (policy_engine.rs).
HandlesSingle == part = "delegated" => Delegated!OneLiveHandle
=============================================================================
