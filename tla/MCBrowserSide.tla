---------------------------- MODULE MCBrowserSide ----------------------------
(***************************************************************************)
(* The browser side of the daemon, each part on its own: the leases, the   *)
(* launching of a child, the server that a browser reaches to sign, and    *)
(* the page in it.  A behaviour is about one part.                         *)
(***************************************************************************)
EXTENDS BrowserLeases, TLC

VARIABLE part   \* the part this behaviour is about


VARIABLES chCfg, chFds, chCloexec, chChild, chThread, chCap, chDaemon
chVars == <<chCfg, chFds, chCloexec, chChild, chThread, chCap, chDaemon>>
Child == INSTANCE ChildLaunch WITH MaxFd <- 7, NofileCap <- 7, Control <- 3, cfg <- chCfg, fds <- chFds,
                                   cloexec <- chCloexec, child <- chChild, thread <-
                                   chThread, cap <- chCap, daemon <- chDaemon

VARIABLES httpServer, httpFile, httpActive, httpConn, httpLife, httpEntries,
          httpRegs, httpBudgets, httpBudget, httpDown
httpVars == <<httpServer, httpFile, httpActive, httpConn, httpLife,
              httpEntries, httpRegs, httpBudgets, httpBudget, httpDown>>
Http == INSTANCE SignHttp WITH Tokens <- {"t"}, Conns <- {"c1", "c2"}, Bodies <- {1},
                               MaxConnections <- 1, MaxOps <- 1, server <- httpServer,
                               file <- httpFile, active <- httpActive, conn
                               <- httpConn, life <- httpLife, entries
                               <- httpEntries, regs <- httpRegs, budgets <- httpBudgets,
                               budget <- httpBudget, down <- httpDown

VARIABLES pgPage, pgShape, pgPosted, pgAsked, pgWaiting, pgDone, pgCalls, pgOutcome,
          pgBack, pgForgot, pgStops
pgVars == <<pgPage, pgShape, pgPosted, pgAsked, pgWaiting, pgDone, pgCalls, pgOutcome,
            pgBack, pgForgot, pgStops>>
Page == INSTANCE PageBridge WITH Ops <- {"o1", "o2"}, MaxCompleted <- 1, MaxReposts <-
                                 1, MaxStops <- 1, page <- pgPage, shape <- pgShape,
                                 posted <- pgPosted, asked <- pgAsked, waiting <-
                                 pgWaiting, done <- pgDone, calls <- pgCalls, outcome <-
                                 pgOutcome, back <- pgBack, forgot <- pgForgot, stops <-
                                 pgStops

\* The instances this behaviour is not about; the extended module rests in Init.
LaunchOff == chCfg = "off" /\ chFds = "off" /\ chCloexec = "off" /\ chChild = "off" /\
             chThread = "off" /\ chCap = "off" /\ chDaemon = "off"
HttpOff == httpServer = "off" /\ httpFile = "off" /\ httpActive = "off" /\
           httpConn = "off" /\ httpLife = "off" /\
           httpEntries = "off" /\ httpRegs = "off" /\ httpBudgets = "off" /\
           httpBudget = "off" /\ httpDown = "off"
PageOff == pgPage = "off" /\ pgShape = "off" /\ pgPosted = "off" /\ pgAsked = "off" /\
           pgWaiting = "off" /\ pgDone = "off" /\ pgCalls = "off" /\ pgOutcome = "off"
           /\ pgBack = "off" /\ pgForgot = "off" /\ pgStops = "off"

MCInit ==
  /\ part \in {"leases", "launch", "http", "page"}
  /\ Init
  /\ part # "leases" => scope = "profile"
  /\ IF part = "launch" THEN Child!Init ELSE LaunchOff
  /\ IF part = "http" THEN Http!Init ELSE HttpOff
  /\ IF part = "page" THEN Page!Init ELSE PageOff

\* A step of one part leaves the others alone.
LeasesTurn == part = "leases" /\ UNCHANGED <<part, chVars, httpVars, pgVars>>
LaunchTurn == part = "launch" /\ UNCHANGED <<part, vars, httpVars, pgVars>>
HttpTurn == part = "http" /\ UNCHANGED <<part, vars, chVars, pgVars>>
PageTurn == part = "page" /\ UNCHANGED <<part, vars, chVars, httpVars>>

MCNext ==
  \/ LeasesTurn /\ Next
  \/ LaunchTurn /\ Child!Next
  \/ HttpTurn /\ Http!Next
  \/ PageTurn /\ Page!Next

mcVars == <<part, vars, chVars, httpVars, pgVars>>

MCSpec == MCInit /\ [][MCNext]_mcVars

LeaseSymmetry == Permutations(Leases) \cup Permutations(Sessions)

-----------------------------------------------------------------------------
(* Properties                                                              *)

\* A child runs its program only once hardened, and the capability to browse or
\* to sign reaches no child before; of its descriptors the program has what was
\* handed to it, but perhaps its standard input, and for another user nothing of
\* the daemon's (launcher.rs).
LaunchHardened ==
  part = "launch" =>
    Child!RunsHardened /\ Child!CapabilityToHardened /\ Child!TransferredButStdin

\* From the page to the signature: the browser's own authenticator is asked only
\* for what the daemon has not signed, the daemon is asked twice for one request
\* only if the worker that asked, or the answer it kept, is gone (the extension,
\* sign-proxy.rs); the signing server gives back the place of every connection it
\* has served, whichever way the request ended short of a panic, which ends the
\* daemon, and one token has one budget over both routes (sign.rs).
SigningPathHolds ==
  /\ part = "page" => Page!NativeOnlyUnsigned /\ Page!AskedOnce
  /\ part = "http" => Http!PlacesCounted /\ Http!OneBudgetPerToken
=============================================================================
