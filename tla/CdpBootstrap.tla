---------------------------- MODULE CdpBootstrap -----------------------------
(***************************************************************************)
(* The Playwright wrapper of a principal (commands/playwright_mcp.rs) and  *)
(* the loopback endpoint where Playwright finds its browser                *)
(* (agent/cdp_bootstrap.rs).                                               *)
(*                                                                         *)
(* One thread accepts connections and gives each a worker thread, at most  *)
(* MAX_CONNECTIONS at a time; the count is an atomic that the accept       *)
(* thread raises and the worker lowers.  A worker reads one request,       *)
(* checks its token and asks the daemon for the browser.  The wrapper ends *)
(* with its child: it stops the accept thread and leaves the workers.      *)
(***************************************************************************)
EXTENDS Naturals, FiniteSets

CONSTANTS
    Conns,          \* connections to the endpoint
    MaxConnections  \* MAX_CONNECTIONS

ASSUME MaxConnectionsAssumption == MaxConnections \in Nat

VARIABLES
    wrapper,  \* where the wrapper is
    loop,     \* the accept thread: what it does and with which connection
    active,   \* the atomic counter
    conn,     \* connection -> where it is, what was asked, what was answered
    ensured   \* connections for which the daemon was asked for the browser

vars == <<wrapper, loop, active, conn, ensured>>

Nobody == "-"
NewConn == [at |-> "none", ask |-> "none", reply |-> "none"]

Looping(do) == [do |-> do, with |-> Nobody]

Init ==
    /\ wrapper = "probe"
    /\ loop = Looping("none")
    /\ active = 0
    /\ conn = [c \in Conns |-> NewConn]
    /\ ensured = {}

-----------------------------------------------------------------------------
(* try_run_as_principal: a process without the control descriptor is run    *)
(* again by `agent run`; a descriptor that is no capability is an error.    *)
Probe ==
    /\ wrapper = "probe"
    /\ wrapper' \in {"start", "relaunched", "failed"}
    /\ UNCHANGED <<loop, active, conn, ensured>>

(* run_as_principal up to the listener: no command, a relative executable,  *)
(* no token or no listener end it                                           *)
Start ==
    /\ wrapper = "start"
    /\ \/ wrapper' = "listening" /\ loop' = Looping("accept")
       \/ wrapper' = "failed" /\ UNCHANGED loop
    /\ UNCHANGED <<active, conn, ensured>>

(* The child has the endpoint and the token, and no control descriptor.  A  *)
(* child that does not start drops the bootstrap as well.                   *)
SpawnChild ==
    /\ wrapper = "listening"
    /\ wrapper' \in {"child", "stopping"}
    /\ UNCHANGED <<loop, active, conn, ensured>>

ChildExits ==
    /\ wrapper = "child"
    /\ wrapper' = "stopping"
    /\ UNCHANGED <<loop, active, conn, ensured>>

(* drop(bootstrap) joins the accept thread; the process then ends and takes *)
(* what is left of the workers with it                                      *)
Join ==
    /\ wrapper = "stopping" /\ loop.do = "ended"
    /\ wrapper' = "ended"
    /\ conn' = [c \in Conns |-> IF conn[c].at \in {"none", "done"} THEN conn[c]
                                ELSE [conn[c] EXCEPT !.at = "done", !.reply = "closed"]]
    /\ active' = 0
    /\ UNCHANGED <<loop, ensured>>

-----------------------------------------------------------------------------
(* read_request: what becomes of the bytes a client sends.  "late" stands   *)
(* for a client that sends nothing for IO_TIMEOUT.                          *)
Asks == {"late", "too large", "invalid", "post", "healthz", "unknown", "no token",
         "wrong token", "token"}

Connect(c) ==
    /\ wrapper \in {"listening", "child", "stopping"} /\ loop.do # "ended"
    /\ conn[c].at = "none"
    /\ \E a \in Asks : conn' = [conn EXCEPT ![c] = [NewConn EXCEPT !.at = "queued", !.ask = a]]
    /\ UNCHANGED <<wrapper, loop, active, ensured>>

(* mutant: the flag is looked at only when nobody is waiting *)
LoopEndsIdle ==
    /\ loop.do = "accept" /\ wrapper = "stopping"
    /\ \E c \in Conns : conn[c].at = "none"
    /\ loop' = Looping("ended")
    /\ UNCHANGED <<wrapper, active, conn, ensured>>

(* The accept loop looks at the flag before each accept.  When it ends the  *)
(* listener is closed with the connections still queued.                    *)
LoopEnds ==
    /\ loop.do = "accept" /\ wrapper = "stopping"
    /\ loop' = Looping("ended")
    /\ conn' = [c \in Conns |-> IF conn[c].at = "queued" THEN [conn[c] EXCEPT !.at = "done", !.reply = "closed"]
                                ELSE conn[c]]
    /\ UNCHANGED <<wrapper, active, ensured>>

(* the flag was read before the wrapper set it, or is not set yet *)
Accept(c) ==
    /\ loop.do = "accept" /\ conn[c].at = "queued"
    /\ IF active >= MaxConnections
       THEN loop' = [do |-> "reject", with |-> c] /\ UNCHANGED active
       ELSE loop' = [do |-> "spawn", with |-> c] /\ active' = active + 1
    /\ conn' = [conn EXCEPT ![c].at = "accepted"]
    /\ UNCHANGED <<wrapper, ensured>>

(* reject_busy: written by the accept thread itself, for IO_TIMEOUT at most *)
RejectBusy ==
    /\ loop.do = "reject"
    /\ conn' = [conn EXCEPT ![loop.with].at = "done", ![loop.with].reply = "busy"]
    /\ loop' = Looping("accept")
    /\ UNCHANGED <<wrapper, active, ensured>>

(* mutant: a worker that cannot be started keeps its place *)
SpawnFailsKeeping ==
    /\ loop.do = "spawn"
    /\ conn' = [conn EXCEPT ![loop.with].at = "done", ![loop.with].reply = "closed"]
    /\ loop' = Looping("accept")
    /\ UNCHANGED <<wrapper, active, ensured>>

SpawnFails ==
    /\ loop.do = "spawn"
    /\ active' = active - 1
    /\ conn' = [conn EXCEPT ![loop.with].at = "done", ![loop.with].reply = "closed"]
    /\ loop' = Looping("accept")
    /\ UNCHANGED <<wrapper, ensured>>

SpawnWorker ==
    /\ loop.do = "spawn"
    /\ conn' = [conn EXCEPT ![loop.with].at = "reading"]
    /\ loop' = Looping("accept")
    /\ UNCHANGED <<wrapper, active, ensured>>

-----------------------------------------------------------------------------
(* handle_connection's answer to a request that does not reach the daemon *)
PlainReply(ask) ==
    CASE ask = "late" -> "closed"
      [] ask = "too large" -> "431"
      [] ask = "invalid" -> "400"
      [] ask = "post" -> "405"
      [] ask = "healthz" -> "200"
      [] ask = "unknown" -> "404"
      [] OTHER -> "401"

(* constant_time_eq compares the whole header with "Bearer " and the token *)
Authorised(c) == conn[c].ask = "token"

ReadRequest(c) ==
    /\ conn[c].at = "reading"
    /\ conn' = IF Authorised(c) THEN [conn EXCEPT ![c].at = "ensuring"]
               ELSE [conn EXCEPT ![c].at = "writing", ![c].reply = PlainReply(conn[c].ask)]
    /\ ensured' = IF Authorised(c) THEN ensured \cup {c} ELSE ensured
    /\ UNCHANGED <<wrapper, loop, active>>

(* mutant: the endpoint is passed on as it came *)
ReplyToUnchecked(answer) == IF answer = "error" THEN "503" ELSE answer

(* valid_loopback_ws_endpoint: ws, a loopback host, a port, a browser path *)
ReplyTo(answer) == IF answer = "loopback" THEN answer ELSE "503"

(* ensure_browser: a connection of its own with one EnsureBrowser request.  *)
(* The daemon refuses, has no endpoint, or names one.                       *)
EnsureBrowser(c) ==
    /\ conn[c].at = "ensuring"
    /\ \E answer \in {"error", "loopback", "elsewhere"} :
         conn' = [conn EXCEPT ![c].at = "writing", ![c].reply = ReplyTo(answer)]
    /\ UNCHANGED <<wrapper, loop, active, ensured>>

(* the answer is written, or the client is gone *)
WriteJson(c) ==
    \/ conn' = [conn EXCEPT ![c].at = "done"]
    \/ conn' = [conn EXCEPT ![c].at = "done", ![c].reply = "closed"]

(* the guard of the worker lowers the count however the worker ends *)
WorkerEnds(c) ==
    /\ conn[c].at = "writing"
    /\ WriteJson(c)
    /\ active' = active - 1
    /\ UNCHANGED <<wrapper, loop, ensured>>

Worker(c) == ReadRequest(c) \/ EnsureBrowser(c) \/ WorkerEnds(c)
LoopStep == LoopEnds \/ (\E c \in Conns : Accept(c)) \/ RejectBusy \/ SpawnFails \/ SpawnWorker
WrapperStep == Probe \/ Start \/ SpawnChild \/ Join

Next ==
    \/ WrapperStep \/ ChildExits \/ LoopStep
    \/ \E c \in Conns : (Connect(c) \/ Worker(c)) /\ wrapper # "ended"

(* Threads run, sockets have time limits and the daemon answers its client. *)
(* The accept loop looks at the flag in every round, so it cannot accept    *)
(* for ever once the flag is set.                                           *)
Fairness ==
    /\ WF_vars(WrapperStep) /\ WF_vars(LoopStep) /\ SF_vars(LoopEnds)
    /\ \A c \in Conns : WF_vars(Worker(c))

Spec == Init /\ [][Next]_vars /\ Fairness

-----------------------------------------------------------------------------
Busy(cs) == {c \in Conns : cs[c].at \in {"reading", "ensuring", "writing"}}

(* A place is held by exactly the connections that have a worker or are     *)
(* about to get one: no way for a worker to end, to be refused or not to    *)
(* start loses a place, and no two connections share one.  The count is     *)
(* never above the limit.                                                   *)
PlacesReturn ==
    /\ active <= MaxConnections
    /\ wrapper # "ended" =>
         active = Cardinality(Busy(conn)) + (IF loop.do = "spawn" THEN 1 ELSE 0)

(* A client is told of a browser only if it had the token and the daemon    *)
(* named a loopback endpoint on that request.                               *)
EndpointEarned ==
    \A c \in Conns : conn[c].reply \in {"loopback", "elsewhere"} =>
        conn[c].reply = "loopback" /\ conn[c].ask = "token" /\ c \in ensured

(* Once the child has exited the wrapper ends, whatever the workers wait    *)
(* for, and every client gets an answer or its connection closed.           *)
WrapperEnds ==
    /\ wrapper = "stopping" ~> wrapper = "ended"
    /\ \A c \in Conns : conn[c].at = "queued" ~> conn[c].at = "done"

-----------------------------------------------------------------------------
(* The inductive invariant behind the first two: the accept thread works on *)
(* a connection it has accepted, a worker that asks the daemon has read the *)
(* token, and the accept thread is over before the process ends.            *)
Connection ==
    [at : {"none", "queued", "accepted", "reading", "ensuring", "writing", "done"},
     ask : Asks \cup {"none"},
     reply : {"none", "closed", "busy", "431", "400", "405", "200", "404", "401", "503",
              "loopback", "elsewhere"}]

TypeOK ==
    /\ wrapper \in {"probe", "start", "relaunched", "failed", "listening", "child",
                     "stopping", "ended"}
    /\ loop \in [do : {"none", "accept", "reject", "spawn", "ended"}, with : Conns \cup {Nobody}]
    /\ active \in Nat
    /\ conn \in [Conns -> Connection]
    /\ ensured \subseteq Conns

LoopInv ==
    /\ loop.do \in {"reject", "spawn"} => loop.with \in Conns /\ conn[loop.with].at = "accepted"
    /\ wrapper = "ended" => loop.do = "ended"
    /\ wrapper \in {"probe", "start"} => loop.do = "none"

AskedWithToken ==
    \A c \in Conns : conn[c].at = "ensuring" => conn[c].ask = "token" /\ c \in ensured

IInv ==
    /\ TypeOK /\ LoopInv /\ AskedWithToken /\ EndpointEarned
    /\ IsFiniteSet(Busy(conn)) /\ PlacesReturn
=============================================================================
