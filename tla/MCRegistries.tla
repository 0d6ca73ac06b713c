---------------------------- MODULE MCRegistries -----------------------------
(***************************************************************************)
(* Registries of the daemon, each on its own: the grants, the preparation  *)
(* slot of an endpoint, the ceremony that runs on it, and the sessions and *)
(* profiles that an administrator commands.  A behaviour is about one of   *)
(* them.                                                                   *)
(***************************************************************************)
EXTENDS GrantRegistry, TLC

CONSTANTS o1,                              \* of the grants
          SlotRequests, SlotSessions, o2   \* of the preparation slot

\* One operation is asked for, or none (a dynamic grant's empty set).
MCOps == {o1}
MCRequestable == {{}, {o1}}

\* The control plane: an isolated profile of the older form, and a same-user one.
Rule(rp, a, r) == [rp |-> rp, authenticate |-> a, register |-> r, uv |-> "none"]
ControlProfiles == <<"i", "s">>
ControlConfig ==
  [i |-> [mode |-> "isolated", rules |-> {}, rpIds |-> {"b"}, registration |-> TRUE,
          requireUv |-> TRUE, refs |-> {"k1"}, cdp |-> "pipe", selection |-> "single"],
   s |-> [mode |-> "same_user", rpIds |-> {"a", "b"}, registration |-> FALSE,
          rules |-> {Rule("a", "confirm", "deny"), Rule("*", "allow", "deny")},
          requireUv |-> FALSE, refs |-> {}, cdp |-> "port", selection |-> "newest"]]
ControlRps == [k1 |-> "a", k2 |-> "b"]

VARIABLE part   \* the part this behaviour is about


VARIABLES slotReqs, slotGen, slotSlot, slotCounter, slotCurrent, slotSessions,
          slotEnabled, slotLocks, slotEvents, slotTh, slotUses
slotVars == <<slotReqs, slotGen, slotSlot, slotCounter, slotCurrent, slotSessions,
              slotEnabled, slotLocks, slotEvents, slotTh, slotUses>>
Slot == INSTANCE CeremonySlot WITH Requests <- SlotRequests, Sessions <- SlotSessions,
                                   Ops <- {o2}, Actors <- {"cancel", "reap", "command"},
                                   MaxGen <- 0, MaxEvents <- 2, reqs <- slotReqs, gen <-
                                   slotGen, slot <- slotSlot, counter <- slotCounter,
                                   current <- slotCurrent, sessions <- slotSessions,
                                   enabled <- slotEnabled, locks <- slotLocks, events <-
                                   slotEvents, th <- slotTh, uses <- slotUses

VARIABLES ctlEnabled, ctlStore, ctlGrants, ctlSessions, ctlWork, ctlOwner, ctlAudit,
          ctlCmd, ctlLaunch, ctlPrin, ctlReport, ctlClosed, ctlServed
ctlVars == <<ctlEnabled, ctlStore, ctlGrants, ctlSessions, ctlWork, ctlOwner, ctlAudit,
             ctlCmd, ctlLaunch, ctlPrin, ctlReport, ctlClosed, ctlServed>>
Control == INSTANCE AgentControl WITH Profiles <- ControlProfiles, Config <-
                                      ControlConfig, Creds <- {"k1"}, RpOf <-
                                      ControlRps, Sessions <- {"x"}, Grants <- {"g"},
                                      enabled <- ctlEnabled, store <- ctlStore, grants
                                      <- ctlGrants, sessions <- ctlSessions, work <-
                                      ctlWork, owner <- ctlOwner, audit <- ctlAudit, cmd
                                      <- ctlCmd, launch <- ctlLaunch, prin <- ctlPrin,
                                      report <- ctlReport, closed <- ctlClosed, served
                                      <- ctlServed

VARIABLES ceMode, ceReg, cePrep, cePending, ceStore, ceIndex, ceScope, ceToken, ceOplock,
          ceAudit, ceEp, ceOth, ceAnswers
ceVars == <<ceMode, ceReg, cePrep, cePending, ceStore, ceIndex, ceScope, ceToken, ceOplock,
            ceAudit, ceEp, ceOth, ceAnswers>>
Ceremony == INSTANCE AgentCeremony WITH Creds <- {"k1", "k2"}, Rps <- {"a", "b"},
                                        Configured <- {"a"}, Granted <- {"k1"}, MaxCount
                                        <- 1, MaxDescriptors <- 1, mode <- ceMode,
                                        registration <- ceReg, prep
                                        <- cePrep, pending <- cePending, store <-
                                        ceStore, index <- ceIndex, scope <- ceScope,
                                        token <- ceToken, oplock <- ceOplock, audit <-
                                        ceAudit, ep <- ceEp, oth <- ceOth, answers <-
                                        ceAnswers

\* The instances this behaviour is not about; the extended module rests in Init.
SlotOff == slotReqs = "off" /\ slotGen = "off" /\ slotSlot = "off" /\
           slotCounter = "off" /\ slotCurrent = "off" /\ slotSessions = "off" /\
           slotEnabled = "off" /\ slotLocks = "off" /\ slotEvents = "off" /\
           slotTh = "off" /\ slotUses = "off"
ControlOff == ctlEnabled = "off" /\ ctlStore = "off" /\ ctlGrants = "off" /\
              ctlSessions = "off" /\ ctlWork = "off" /\ ctlOwner = "off" /\
              ctlAudit = "off" /\ ctlCmd = "off" /\ ctlLaunch = "off" /\ ctlPrin = "off"
              /\ ctlReport = "off" /\ ctlClosed = "off" /\ ctlServed = "off"
CeremonyOff == ceMode = "off" /\ ceReg = "off" /\ cePrep = "off" /\
               cePending = "off" /\ ceStore = "off"
               /\ ceIndex = "off" /\ ceScope = "off" /\ ceToken = "off" /\
               ceOplock = "off" /\ ceAudit = "off" /\ ceEp = "off" /\ ceOth = "off" /\
               ceAnswers = "off"

MCInit ==
  /\ part \in {"grants", "slot", "control", "ceremony"}
  /\ Init
  /\ part # "grants" => allowed = {}
  /\ IF part = "slot" THEN Slot!Init ELSE SlotOff
  /\ IF part = "control" THEN Control!Init ELSE ControlOff
  /\ IF part = "ceremony"
     THEN /\ Ceremony!Init
          /\ ceStore["k1"] = [rp |-> "a", count |-> 0] /\ ceStore["k2"].rp # "b"
          /\ ceReg = "denied" => ceMode # "constant" /\ ceStore["k2"] = Ceremony!Absent
     ELSE CeremonyOff

\* A step of one part leaves the others alone.
GrantsTurn == part = "grants" /\ UNCHANGED <<part, slotVars, ctlVars, ceVars>>
SlotTurn == part = "slot" /\ UNCHANGED <<part, vars, ctlVars, ceVars>>
ControlTurn == part = "control" /\ UNCHANGED <<part, vars, slotVars, ceVars>>
CeremonyTurn == part = "ceremony" /\ UNCHANGED <<part, vars, slotVars, ctlVars>>

MCNext ==
  \/ GrantsTurn /\ Next
  \/ SlotTurn /\ Slot!Next
  \/ ControlTurn /\ Control!Next
  \/ CeremonyTurn /\ Ceremony!Next

mcVars == <<part, vars, slotVars, ctlVars, ceVars>>

MCSpec == MCInit /\ [][MCNext]_mcVars

\* The parts share their model values, and so the group: no two are alive at once.
RegistrySymmetry == Permutations(GrantIds) \cup Permutations(RequestIds)
                    \cup Permutations(Sessions)

-----------------------------------------------------------------------------
(* Properties                                                              *)

\* The control plane: a listing holds every credential that stays stored while it
\* is made, up to the first profile whose first read finds nothing or fails (there
\* handle_admin_list_credentials ends it); and once DisableProfile has answered, a
\* request that was let in before, or a session that was being launched, is not
\* served; and a request that is granted is answered with what its command waits
\* for, the administrator's delegation commands apart (runtime.rs, commands/).
ControlSound ==
  part = "control" => Control!ListingComplete /\ Control!DisabledServesNobody /\ Control!AnswersFit

\* Ceremonies, from the slot to the key: a preparation belongs to the request it
\* was made for and a request leads to one use at most, however often the
\* device asks; a key is read, used or made only under an approval of that
\* operation on that relying party; and the counters a credential answers with
\* rise (runtime.rs, ceremony.rs, storage.rs).
CeremoniesHold ==
  /\ part = "slot" => Slot!SlotOwned /\ Slot!OneUsePerRequest
  /\ part = "ceremony" => Ceremony!KeysUnderApproval /\ Ceremony!CountersRise
=============================================================================
