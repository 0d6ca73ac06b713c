------------------------------- MODULE MCWaits -------------------------------
(***************************************************************************)
(* What a principal waits for, each part on its own: the ceremony of its   *)
(* request, the threads of the policy runtime and the control of its       *)
(* browser.  A behaviour is about one part, under the fairness that part   *)
(* states; the others rest in their initial state.                         *)
(***************************************************************************)
EXTENDS CeremonySlot, TLC

\* The slot's one request is swept.
Sweeps == \E r \in Requests : Sweep(r)

VARIABLE part   \* the part this behaviour is about


VARIABLES rtIntents, rtGrants, rtGreqs, rtClaims, rtRegGen, rtPending, rtPreqs,
          rtPreqLock, rtCurrent, rtLastGen, rtNow, rtMinted, rtPrincipal, rtWorker,
          rtReload, rtRevoke, rtExit, rtMade, rtApprovals, rtKeyUses, rtWiped, rtRevoked
rtVars == <<rtIntents, rtGrants, rtGreqs, rtClaims, rtRegGen, rtPending, rtPreqs,
            rtPreqLock, rtCurrent, rtLastGen, rtNow, rtMinted, rtPrincipal, rtWorker,
            rtReload, rtRevoke, rtExit, rtMade, rtApprovals, rtKeyUses, rtWiped,
            rtRevoked>>
Runtime == INSTANCE PolicyRuntime WITH IntentIds <- {"i"}, CeremonyIds <- {"c"},
                                       Sessions <- {"s"}, Ops <- {"o"}, Reloaders <-
                                       {"r"}, Kinds <- {"delegated", "isolated"}, Actors
                                       <- {"exit", "reload"}, Ttls <- {1}, GrantTtls <-
                                       {1}, MaxIntents <- 1, MaxConcurrent <- 1, MaxTtl
                                       <- 1, MaxTime <- 3, MaxGen <- 1, intents <-
                                       rtIntents, grants <- rtGrants, greqs <- rtGreqs,
                                       claims <- rtClaims, regGen <- rtRegGen, pending
                                       <- rtPending, preqs <- rtPreqs, preqLock <-
                                       rtPreqLock, current <- rtCurrent, lastGen <-
                                       rtLastGen, now <- rtNow, minted <- rtMinted,
                                       principal <- rtPrincipal, worker <- rtWorker,
                                       reload <- rtReload, revoke <- rtRevoke, exit <-
                                       rtExit, made <- rtMade, approvals <- rtApprovals,
                                       keyUses <- rtKeyUses, wiped <- rtWiped, revoked
                                       <- rtRevoked

VARIABLES cdpReq, cdpMgr, cdpLease, cdpBrowser, cdpToBrowser, cdpToDaemon, cdpBuf,
          cdpGot, cdpRecorded, cdpStatus, cdpEvents
cdpVars == <<cdpReq, cdpMgr, cdpLease, cdpBrowser, cdpToBrowser, cdpToDaemon, cdpBuf,
             cdpGot, cdpRecorded, cdpStatus, cdpEvents>>
Cdp == INSTANCE BrowserControl WITH Requests <- {"r1", "r2"}, Ids <- {1}, MaxMessages <-
                                    1, PipeCap <- 1, MaxEvents <- 0, req <- cdpReq, mgr
                                    <- cdpMgr, lease <- cdpLease, browser <- cdpBrowser,
                                    toBrowser <- cdpToBrowser, toDaemon <- cdpToDaemon,
                                    buf <- cdpBuf, got <- cdpGot, recorded <-
                                    cdpRecorded, status <- cdpStatus, events <-
                                    cdpEvents


MCInit ==
  /\ part \in {"slot", "runtime", "control"}
  /\ Init
  /\ Runtime!Init
  /\ Cdp!Init /\ (part # "control" => cdpLease = [state |-> "live", of |-> "session", cdp |-> "pipe"])

\* A step of one part leaves the others alone.
SlotTurn == part = "slot" /\ UNCHANGED <<part, rtVars, cdpVars>>
RuntimeTurn == part = "runtime" /\ UNCHANGED <<part, vars, cdpVars>>
ControlTurn == part = "control" /\ UNCHANGED <<part, vars, rtVars>>

MCNext ==
  \/ SlotTurn /\ Next
  \/ RuntimeTurn /\ Runtime!Next
  \/ ControlTurn /\ Cdp!Next

mcVars == <<part, vars, rtVars, cdpVars>>

\* The fairness each part states.  One part runs, so that a disjunction over
\* the parts is fair exactly if the disjunct of that part is.
Weak1 ==
  \/ SlotTurn /\ PrincipalStep
  \/ RuntimeTurn /\ Runtime!Tick
  \/ ControlTurn /\ Cdp!Thread("r1")
Weak2 ==
  \/ SlotTurn /\ WorkerStep
  \/ RuntimeTurn /\ Runtime!PrincipalStep
  \/ ControlTurn /\ Cdp!Thread("r2")
Weak3 ==
  \/ SlotTurn /\ AdminStep
  \/ RuntimeTurn /\ Runtime!WorkerStep
  \/ ControlTurn /\ Cdp!Deadline("r1")
Weak4 ==
  \/ RuntimeTurn /\ Runtime!CleanupExpiredPending
  \/ ControlTurn /\ Cdp!Deadline("r2")
Weak5 == RuntimeTurn /\ Runtime!ReloadStep("r")
Strong1 ==
  \/ SlotTurn /\ MainStep
  \/ ControlTurn /\ Cdp!StatusServed
Strong2 == SlotTurn /\ Sweeps
MCFairness ==
  /\ WF_mcVars(Weak1) /\ WF_mcVars(Weak2) /\ WF_mcVars(Weak3)
  /\ WF_mcVars(Weak4) /\ WF_mcVars(Weak5) /\ SF_mcVars(Strong1)
  /\ SF_mcVars(Strong2)

MCSpec == MCInit /\ [][MCNext]_mcVars /\ MCFairness

-----------------------------------------------------------------------------
(* Properties                                                              *)

\* Requests do not wait for ever, and ceremonies and reloads end, their waits
\* for locks included (policy_engine.rs, ceremony.rs).  Whoever needs the browser
\* manager waits for one round trip at most, unless a live browser has stopped
\* reading with its pipe full (browser.rs:1343, a write without a deadline), and
\* what a browser answers goes to the request that asked (browser.rs).
WaitsSettle ==
  /\ part = "runtime" => Runtime!RequestsSettle /\ Runtime!ThreadsFinish
  /\ part = "control" => Cdp!OthersServed /\ []Cdp!OwnAnswer
=============================================================================
