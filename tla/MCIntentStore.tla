---------------------------- MODULE MCIntentStore ----------------------------
(***************************************************************************)
(* The authority to use a key and the records of its use, each on its own: *)
(* the intent store, and what the audit log says of the daemon.  A         *)
(* behaviour is about one of them.                                         *)
(***************************************************************************)
EXTENDS IntentStore, TLC

\* Records: an operation is refused, confirmed by a person, or left to the agent.
TrailRules == {[auth |-> "deny", up |-> "none", uv |-> "none"],
               [auth |-> "confirm", up |-> "human", uv |-> "human"],
               [auth |-> "allow", up |-> "agent", uv |-> "agent"]}

VARIABLE part   \* the part this behaviour is about


VARIABLES trDaemon, trLife, trGate, trLog, trOp, trProfile, trReq, trLease, trCmd,
          trDid, trBegun
trVars == <<trDaemon, trLife, trGate, trLog, trOp, trProfile, trReq, trLease, trCmd,
            trDid, trBegun>>
Trail == INSTANCE AuditTrail WITH Ops <- {"o1", "o2"}, Rps <- {"a"}, RuleSet <-
                                  TrailRules, MaxLives <- 2, MaxActivities <- 2, daemon
                                  <- trDaemon, life <- trLife, gate <- trGate, log <-
                                  trLog, op <- trOp, profile <- trProfile, req <- trReq,
                                  lease <- trLease, cmd <- trCmd, did <- trDid, begun <-
                                  trBegun

\* The instances this behaviour is not about; the extended module rests in Init.
TrailOff == trDaemon = "off" /\ trLife = "off" /\ trGate = "off" /\ trLog = "off" /\
            trOp = "off" /\ trProfile = "off" /\ trReq = "off" /\ trLease = "off" /\
            trCmd = "off" /\ trDid = "off" /\ trBegun = "off"

MCInit ==
  /\ part \in {"intents", "trail"}
  /\ Init
  /\ IF part = "trail" THEN Trail!Init ELSE TrailOff

\* A step of one part leaves the others alone.
IntentsTurn == part = "intents" /\ UNCHANGED <<part, trVars>>
TrailTurn == part = "trail" /\ UNCHANGED <<part, vars>>

MCNext ==
  \/ IntentsTurn /\ Next
  \/ TrailTurn /\ Trail!Next

mcVars == <<part, vars, trVars>>

MCSpec == MCInit /\ [][MCNext]_mcVars

IntentSymmetry == Permutations(IntentIds) \cup Permutations(Sessions)

-----------------------------------------------------------------------------
(* Properties                                                              *)

\* Records: no key is used without a record that allowed it, and no device,
\* browser command, disabled profile or grant revoked by name goes unannounced,
\* whatever fails and whenever the daemon dies.  A reload, a deleted credential
\* and the grants that go with a revoked credential are recorded afterwards: the
\* log never claims one that was not done, and misses one only after a crash or
\* a lost record.  Success on record means that the key was used after the start
\* was recorded (audit_events.rs, its callers in runtime.rs, ceremony.rs).
RecordsHold ==
  part = "trail" =>
    /\ Trail!UsesWereAllowed /\ Trail!ResultTruthful
    /\ Trail!EffectsAnnounced /\ Trail!EffectsRecordedAfter
=============================================================================
