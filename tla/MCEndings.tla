------------------------------ MODULE MCEndings ------------------------------
(***************************************************************************)
(* What must come to an end in the daemon and its wrappers, each part on   *)
(* its own: the bootstrap endpoint of a browser client, the agent sessions *)
(* and their shutdown, the endpoints, the device of one, and the prompts.  *)
(* A behaviour is about one part, under the fairness that part states; the *)
(* others rest in their initial state.                                     *)
(***************************************************************************)
EXTENDS CdpBootstrap, TLC

VARIABLE part   \* the part this behaviour is about


VARIABLES agProc, agOver, agManaged, agCompleted, agWorker, agLoop, agProfile, agDaemon,
          agEnded, agStuck
agVars == <<agProc, agOver, agManaged, agCompleted, agWorker, agLoop, agProfile,
            agDaemon, agEnded, agStuck>>
Agent == INSTANCE AgentSessions WITH Sessions <- {"x1"}, Workers <- {"w1", "w2"}, Limit
                                     <- 1, MaxCompleted <- 1, MaxStuck <- 1, proc <-
                                     agProc, over <- agOver, managed <- agManaged,
                                     completed <- agCompleted, worker <- agWorker, loop
                                     <- agLoop, profile <- agProfile, daemon <-
                                     agDaemon, ended <- agEnded, stuck <- agStuck

VARIABLES enBoot, enAt, enShutdown, enReg, enRuntimes, enCancel, enWorker, enSigning,
          enEnabled
enVars == <<enBoot, enAt, enShutdown, enReg, enRuntimes, enCancel, enWorker, enSigning,
            enEnabled>>
Endpoint == INSTANCE Endpoints WITH NumProfiles <- 3, Isolated <- {1, 3}, boot <-
                                    enBoot, at <- enAt, shutdown <- enShutdown, reg <-
                                    enReg, runtimes <- enRuntimes, cancel <- enCancel,
                                    worker <- enWorker, signing <- enSigning, enabled <-
                                    enEnabled

VARIABLES hidMaker, hidTries, hidMode, hidStarted, hidKernel, hidQueue, hidOpened,
          hidCancel, hidDraining, hidWorker, hidPacket, hidOut, hidPartial, hidHost
hidVars == <<hidMaker, hidTries, hidMode, hidStarted, hidKernel, hidQueue, hidOpened,
             hidCancel, hidDraining, hidWorker, hidPacket, hidOut, hidPartial, hidHost>>
Hid == INSTANCE HidTransport WITH Hosts <- {"h1"}, QueueSize <- 3, StartTries <- 2,
                                  maker <- hidMaker, tries <- hidTries, mode <- hidMode,
                                  started <- hidStarted, kernel <- hidKernel, queue <-
                                  hidQueue, opened <- hidOpened, cancel <- hidCancel,
                                  draining <- hidDraining, worker <- hidWorker, packet
                                  <- hidPacket, out <- hidOut, partial <- hidPartial,
                                  host <- hidHost

VARIABLES prPc, prNote, prListening, prSignal, prElapsed, prResult, prPerson
prVars == <<prPc, prNote, prListening, prSignal, prElapsed, prResult, prPerson>>
Prompt == INSTANCE Prompts WITH Reviewed <- 1, TimedOut <- 2, pc <- prPc, note <-
                                prNote, listening <- prListening, signal <- prSignal,
                                elapsed <- prElapsed, result <- prResult, person <-
                                prPerson


MCInit ==
  /\ part \in {"bootstrap", "sessions", "endpoints", "device", "prompt"}
  /\ Init
  /\ Agent!Init /\ (part # "sessions" => agProfile.user = "same")
  /\ Endpoint!Init
  /\ Hid!Init
  /\ Prompt!Init

\* A step of one part leaves the others alone.
BootstrapTurn == part = "bootstrap" /\ UNCHANGED <<part, agVars, enVars, hidVars,
                                                   prVars>>
SessionsTurn == part = "sessions" /\ UNCHANGED <<part, vars, enVars, hidVars, prVars>>
EndpointsTurn == part = "endpoints" /\ UNCHANGED <<part, vars, agVars, hidVars, prVars>>
DeviceTurn == part = "device" /\ UNCHANGED <<part, vars, agVars, enVars, prVars>>
PromptTurn == part = "prompt" /\ UNCHANGED <<part, vars, agVars, enVars, hidVars>>

MCNext ==
  \/ BootstrapTurn /\ Next
  \/ SessionsTurn /\ Agent!Next
  \/ EndpointsTurn /\ Endpoint!Next
  \/ DeviceTurn /\ Hid!Next
  \/ PromptTurn /\ Prompt!Next

mcVars == <<part, vars, agVars, enVars, hidVars, prVars>>

\* The fairness each part states.  One part runs, so that a disjunction over
\* the parts is fair exactly if the disjunct of that part is.
Weak1 ==
  \/ BootstrapTurn /\ WrapperStep
  \/ SessionsTurn /\ Agent!WorkerStep("w1")
  \/ EndpointsTurn /\ Endpoint!BootStep
  \/ DeviceTurn /\ Hid!MakerStep
  \/ PromptTurn /\ Prompt!PromptStep
Weak2 ==
  \/ BootstrapTurn /\ LoopStep
  \/ SessionsTurn /\ Agent!WorkerStep("w2")
  \/ DeviceTurn /\ Hid!WorkerRuns
  \/ PromptTurn /\ Prompt!Tick
Weak3 ==
  \/ BootstrapTurn /\ Worker("x")
  \/ SessionsTurn /\ Agent!LoopStep
Weak4 ==
  \/ BootstrapTurn /\ Worker("y")
  \/ SessionsTurn /\ Agent!MainStep
Strong1 ==
  \/ BootstrapTurn /\ LoopEnds
  \/ EndpointsTurn /\ Endpoint!Drained(1)
Strong2 ==
  \/ EndpointsTurn /\ Endpoint!Drained(3)
MCFairness ==
  /\ WF_mcVars(Weak1) /\ WF_mcVars(Weak2) /\ WF_mcVars(Weak3)
  /\ WF_mcVars(Weak4) /\ SF_mcVars(Strong1) /\ SF_mcVars(Strong2)

MCSpec == MCInit /\ [][MCNext]_mcVars /\ MCFairness

-----------------------------------------------------------------------------
(* Properties                                                              *)

\* What ends leaves nothing behind, and an answer belongs to its question: a
\* session process is managed or in some thread's hands until it is gone, save for
\* one that survives being killed and a failed launch for another user, no
\* virtual device outlives the endpoint it was made for, a prompt approves what
\* a person approved on it, and a cancelled device answers what it was sent
\* (runtime.rs, endpoint_manager.rs, prompt.rs, worker.rs).
NothingLeft ==
  /\ part = "sessions" => Agent!SessionsAccountedFor /\ Agent!EndIsRemembered
  /\ part = "endpoints" => Endpoint!NoDeviceLeft
  /\ part = "prompt" => Prompt!ApprovedByPerson
  /\ part = "device" => Hid!DrainAnswers

\* A shutdown of the sessions ends, a subsystem that fails to start or is shut
\* down comes to an end, a prompt that is on its way returns, the wrapper of a
\* browser client ends once its child has and a cancelled device ends although no
\* host writes again, save for the exceptions those parts name (runtime.rs,
\* endpoint_manager.rs, prompt.rs, cdp_bootstrap.rs, worker.rs).
WaitsEnd ==
  /\ part = "sessions" => Agent!ShutdownEnds
  /\ part = "endpoints" => Endpoint!SubsystemEnds
  /\ part = "prompt" => Prompt!PromptReturns
  /\ part = "bootstrap" => WrapperEnds
  /\ part = "device" => Hid!CancelledEnds
=============================================================================
