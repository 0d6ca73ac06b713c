------------------------------ MODULE AgentIpc ------------------------------
(***************************************************************************)
(* The daemon's control sockets (agent/ipc.rs, the frames of               *)
(* passless-core/agent/protocol.rs) and the commands that use them         *)
(* (agent/client.rs, commands/agent.rs, commands/agent_admin.rs).          *)
(*                                                                         *)
(* A worker takes one message from a connection, answers it and closes the *)
(* connection.  Where a session's life matters to the client it is kept    *)
(* here; what else the daemon does with a request is the subject of the    *)
(* other modules.                                                          *)
(***************************************************************************)
EXTENDS Integers, FiniteSets

CONSTANTS Clients,      \* processes that run a passless command
          Strangers,    \* the ones among them that may speak the protocol themselves
          Profiles,     \* agent profiles: each has a directory and a socket
          MaxWorkers,   \* worker threads, and connections, the daemon serves at once
          MaxStarts     \* bound on the starts of the daemon

VARIABLES server,    \* the daemon: "down", "up", "ending" until its sessions are ended,
                     \*   then "joining" its workers
          starts,    \* daemons started
          dirs,      \* profile directories on disk
          conn,      \* per client, the connection it opened last
          client,    \* per client, the command it runs
          session,   \* what the daemon knows of the session of a run, and who launched it
          child,     \* the process of that session
          parked     \* whether the worker that launched it is still there

vars == <<server, starts, dirs, conn, client, session, child, parked>>

StdioFds == 3
NoConn == [at |-> "none"]
NoClient == [cmd |-> "none", at |-> "idle"]
NoReq == [act |-> "none"]
Over == [cmd |-> "over", at |-> "done"]

\* AdminRequest and PrincipalRequest, by what the daemon does with them.
AdminActs == {"query", "launch", "waitPrincipal", "revokeSession", "shutdown"}
Role(act) == IF act \in AdminActs THEN "admin" ELSE "principal"

\* A frame of the client library: validated before it is sent.
Frame(act) ==
  [role |-> Role(act), act |-> act, form |-> "good",
   fds |-> IF act = "launch" THEN StdioFds ELSE 0]

\* Anything else a process of the daemon's user may send to the admin socket.
ForeignFrames ==
  [role : {"admin"}, act : {"query", "launch"},
   form : {"good", "undecodable", "version", "invalid"}, fds : {0, StdioFds}]
    \cup {[role |-> "principal", act |-> "query", form |-> "good", fds |-> 0]}

Init ==
  /\ server = "down" /\ starts = 0 /\ dirs = {}
  /\ conn = [c \in Clients |-> NoConn] /\ client = [c \in Clients |-> NoClient]
  /\ session = [st |-> "none", by |-> "nobody"]
  /\ child = "none" /\ parked = FALSE

-----------------------------------------------------------------------------
(* The daemon.                                                              *)

\* RuntimeDir::create and IpcServer::bind: the profile directories must be new.
CreateDirs == dirs = {} /\ dirs' = Profiles

StartServer ==
  /\ server = "down" /\ starts < MaxStarts /\ starts' = starts + 1
  /\ CreateDirs /\ server' = "up"
  /\ UNCHANGED <<conn, client, session, child, parked>>

\* create stops at a directory that is there already or that it cannot make or
\* hand over: the ones it has made stay.
CreateFails(made) ==
  /\ server = "down" /\ starts < MaxStarts /\ starts' = starts + 1
  /\ made \cap dirs = {} /\ dirs' = dirs \cup made
  /\ UNCHANGED <<server, conn, client, session, child, parked>>

\* Every connection of a process that is gone is closed.
Closed(c, resp) ==
  IF client[c].cmd = "over" \/ conn[c] = NoConn THEN NoConn
  ELSE [conn[c] EXCEPT !.at = "closed", !.req = NoReq, !.resp = resp]
CloseAll == [c \in Clients |-> IF conn[c].at = "closed" THEN conn[c] ELSE Closed(c, "none")]

\* RuntimeDir::cleanup: the sockets and then the directories.  One that is not
\* empty stays.
Cleanup == dirs' \in SUBSET dirs

\* cancel: no connection is accepted any more.
BeginShutdown ==
  /\ server = "up" /\ server' = "ending"
  /\ UNCHANGED <<starts, dirs, conn, client, session, child, parked>>

\* Drop of a PrincipalSession: killed and waited for, for two seconds.
StopChild ==
  child' \in IF child = "running" THEN {"gone", "unkillable"}
             ELSE IF child = "exited" THEN {"gone"} ELSE {child}

\* The session leaves managed_sessions; its status is kept, or not.
EndSession(how) ==
  IF session.st = "running" THEN session' = [session EXCEPT !.st = how] /\ StopChild
  ELSE UNCHANGED <<session, child>>

\* shutdown_all_sessions, once the runtime loop is gone.
Drain ==
  /\ server = "ending" /\ server' = "joining" /\ EndSession("forgotten")
  /\ UNCHANGED <<starts, dirs, conn, client, parked>>

Serving == {c \in Clients : conn[c].at \in {"serving", "handling"}}

\* The workers are joined, and the runtime is dropped with what it holds: a
\* session launched meanwhile, and the sockets.
EndServer ==
  /\ server = "joining" /\ Serving = {} /\ ~parked /\ server' = "down"
  /\ Cleanup /\ conn' = CloseAll /\ EndSession("forgotten")
  /\ UNCHANGED <<starts, client, parked>>

\* Its threads end with it, which sends SIGTERM to a child of the same user; the
\* child may ignore it, and one of another user is sent nothing.
Crash ==
  /\ server # "down" /\ server' = "down"
  /\ conn' = CloseAll /\ parked' = FALSE
  /\ session' = IF session.st = "running" THEN [session EXCEPT !.st = "forgotten"] ELSE session
  /\ child' \in IF child \in {"running", "unkillable"} THEN {"gone", "orphan"}
                ELSE IF child = "exited" THEN {"gone"} ELSE {child}
  /\ UNCHANGED <<starts, dirs, client>>

-----------------------------------------------------------------------------
(* One connection.                                                          *)

\* try_acquire fails and the connection stays open.
AcceptAtLimitKept(c) == conn' = [conn EXCEPT ![c].at = "kept"]

\* try_acquire fails: the connection is dropped.
AcceptAtLimit(c) == conn' = [conn EXCEPT ![c] = Closed(c, "none")]

Accept(c) ==
  /\ server = "up" /\ conn[c].at = "queued"
  /\ IF Cardinality(Serving) + (IF parked THEN 1 ELSE 0) < MaxWorkers
     THEN conn' = [conn EXCEPT ![c].at = "serving"]
     ELSE AcceptAtLimit(c)
  /\ UNCHANGED <<server, starts, dirs, client, session, child, parked>>

\* validate_peer_cred, capture_peer_identity: another user is turned away unheard.
RejectPeer(c) ==
  /\ conn[c].at = "serving" /\ conn[c].peer = "other"
  /\ conn' = [conn EXCEPT ![c] = Closed(c, "none")]
  /\ UNCHANGED <<server, starts, dirs, client, session, child, parked>>

\* recv_msg_with_fds, recv_msg: what does not decode.
Undecodable(f) == f.form = "undecodable"

\* The refusals of handle_one_admin and handle_one_principal, in their order.
Refusal(f) ==
  IF Undecodable(f) THEN "malformed"
  ELSE IF f.role = "admin" /\ f.act # "launch" /\ f.fds # 0 THEN "badRequest"
  ELSE IF f.role = "admin" /\ f.act = "launch" /\ f.fds # StdioFds THEN "badRequest"
  ELSE IF f.role # "admin" THEN "forbidden"
  ELSE IF f.form = "version" THEN "versionMismatch"
  ELSE IF f.form = "invalid" THEN "badRequest"
  ELSE "none"

\* A request of the principal socket carries no descriptors and its own role.
Refused(c) == LET f == conn[c].req IN IF conn[c].sock = "principal" THEN "none" ELSE Refusal(f)

\* send_response, and the connection closed, with the descriptors of a launch.
Respond(c, resp) == conn' = [conn EXCEPT ![c] = Closed(c, resp)]

Receive(c) ==
  /\ conn[c].at = "serving" /\ conn[c].peer = "ok" /\ conn[c].req.act # "none"
  /\ IF Refused(c) = "none" THEN conn' = [conn EXCEPT ![c].at = "handling"]
     ELSE Respond(c, Refused(c))
  /\ UNCHANGED <<server, starts, dirs, client, session, child, parked>>

\* The client is gone before it sent anything: an empty message does not decode.
ReceiveNothing(c) ==
  /\ conn[c].at = "serving" /\ conn[c].peer = "ok" /\ conn[c].req.act = "none"
  /\ client[c] = Over
  /\ conn' = [conn EXCEPT ![c] = Closed(c, "none")]
  /\ UNCHANGED <<server, starts, dirs, client, session, child, parked>>

\* The requests that ask for something.  An error is an answer too; one too large
\* to encode is not sent.
HandleQuery(c) ==
  /\ conn[c].at = "handling"
  /\ \/ conn[c].req.act = "showIntent" /\ \E r \in {"pending", "decided", "error"} : Respond(c, r)
     \/ conn[c].req.act = "query" /\ \E r \in {"answer", "none"} : Respond(c, r)
  /\ UNCHANGED <<server, starts, dirs, client, session, child, parked>>

\* A launch succeeds during a shutdown too.  The worker stays while the child
\* exists; if the answer cannot be sent it leaves at once, which may end the child.
HandleLaunch(c) ==
  /\ conn[c].at = "handling" /\ conn[c].req.act = "launch"
  /\ \/ Respond(c, "error") /\ UNCHANGED <<session, child, parked>>
     \/ /\ session.st = "none" /\ session' = [st |-> "running", by |-> c]
        /\ Respond(c, "launched") /\ parked' = (client[c] # Over)
        /\ child' \in IF parked' THEN {"running"} ELSE {"running", "exited"}
  /\ UNCHANGED <<server, starts, dirs, client>>

Unpark ==
  /\ parked /\ child = "gone" /\ parked' = FALSE
  /\ UNCHANGED <<server, starts, dirs, conn, client, session, child>>

\* handle_wait_principal: a child that has exited is reaped here.
HandleWait(c) ==
  /\ conn[c].at = "handling" /\ conn[c].req.act = "waitPrincipal"
  /\ IF child = "exited" THEN EndSession("ended") ELSE UNCHANGED <<session, child>>
  /\ Respond(c, IF session'.st \in {"running", "ended"} THEN session'.st ELSE "error")
  /\ UNCHANGED <<server, starts, dirs, client, parked>>

HandleRevoke(c) ==
  /\ conn[c].at = "handling" /\ conn[c].req.act = "revokeSession"
  /\ EndSession("forgotten")
  /\ Respond(c, "answer")
  /\ UNCHANGED <<server, starts, dirs, client, parked>>

HandleShutdown(c) ==
  /\ conn[c].at = "handling" /\ conn[c].req.act = "shutdown"
  /\ server' = IF server = "up" THEN "ending" ELSE server
  /\ Respond(c, "answer")
  /\ UNCHANGED <<starts, dirs, client, session, child, parked>>

\* As SessionOver, without a look at the client.
SessionOverExited == child = "exited"

\* reap_expired_sessions: the child has exited, or the process of the client that
\* launched it is gone.
SessionOver == child = "exited" \/ \E c \in Clients : session.by = c /\ client[c].at = "done"

Reap ==
  /\ server = "up" /\ session.st = "running" /\ SessionOver /\ EndSession("ended")
  /\ UNCHANGED <<server, starts, dirs, conn, client, parked>>

\* Its deadline has passed.
ReapExpired ==
  /\ server = "up" /\ session.st = "running" /\ EndSession("ended")
  /\ UNCHANGED <<server, starts, dirs, conn, client, parked>>

-----------------------------------------------------------------------------
(* A command.                                                               *)

\* The commands by what they do with their connection: one request of an
\* administrator or of a principal, a destructive one that lacks --confirm and
\* stops once it has connected, wait, run and shutdown; and a process that speaks
\* the protocol by itself.  Which answer a command takes is in AgentControl.
Commands == {"admin", "unconfirmed", "show", "wait", "run", "shutdown", "foreign"}

\* The request it starts with.
First(cmd) ==
  CASE cmd \in {"show", "wait"} -> "showIntent"
    [] cmd \in {"admin", "unconfirmed", "foreign"} -> "query"
    [] cmd = "run" -> "launch"
    [] cmd = "shutdown" -> "shutdown"

Begin(c, cmd) ==
  /\ client[c] = NoClient /\ (cmd = "foreign" => c \in Strangers)
  /\ client' = [client EXCEPT ![c] = [cmd |-> cmd, at |-> "connect", act |-> First(cmd),
                                      seen |-> "none"]]
  /\ UNCHANGED <<server, starts, dirs, conn, session, child, parked>>

\* The command ends.
Done(c) == client' = [client EXCEPT ![c] = Over] /\ conn' = [conn EXCEPT ![c] = NoConn]

\* AdminClient::connect, PrincipalClient::connect_launched.
Open(c, peer) ==
  conn' = [conn EXCEPT ![c] = [at |-> "queued", sock |-> Role(client[c].act), peer |-> peer,
                               req |-> [act |-> "none"], resp |-> "none"]]

Connect(c) ==
  /\ client[c].cmd # "none" /\ client[c].at = "connect"
  /\ IF server = "down"
     THEN Done(c)
     ELSE /\ \E peer \in IF client[c].cmd = "foreign" THEN {"ok", "other"} ELSE {"ok"} : Open(c, peer)
          /\ IF client[c].cmd = "unconfirmed" THEN client' = [client EXCEPT ![c] = Over]
             ELSE client' = [client EXCEPT ![c].at = "send"]
  /\ UNCHANGED <<server, starts, dirs, session, child, parked>>

\* request: a new sequence number, send, and wait for the answer.
Send(c) ==
  /\ client[c].cmd # "none" /\ client[c].at = "send"
  /\ IF conn[c].at = "closed" THEN Done(c)
     ELSE /\ \E f \in IF client[c].cmd = "foreign" THEN ForeignFrames ELSE {Frame(client[c].act)} :
               conn' = [conn EXCEPT ![c].req = f]
          /\ client' = IF client[c].cmd = "foreign" THEN [client EXCEPT ![c] = Over]
                       ELSE [client EXCEPT ![c].at = "recv"]
  /\ UNCHANGED <<server, starts, dirs, session, child, parked>>

\* wait_with_poll: the next poll, or the last question, on the same connection.
NextPoll(c, resp) ==
  client' = [client EXCEPT ![c].at = "send",
             ![c].seen = IF client[c].seen = "none" /\ resp = "decided" THEN "decided" ELSE @]

\* dispatch_run's loop asks again on a connection of its own.
NextWait(c) == client' = [client EXCEPT ![c].at = "connect", ![c].act = "waitPrincipal"]

\* recv_msg, validate_response_frame, extract_response and what the command does.
\* The end of the connection is an empty message, which does not decode.
Recv(c) ==
  /\ client[c].cmd # "none" /\ client[c].at = "recv" /\ conn[c].at = "closed"
  /\ LET resp == conn[c].resp
         cmd == client[c].cmd IN
     \/ /\ client[c].act = "revokeSession" /\ Done(c)
     \/ /\ client[c].act # "revokeSession" /\ resp = "none" /\ Done(c)
     \/ /\ cmd = "wait" /\ resp \in {"pending", "decided"}
        /\ IF client[c].seen = "decided" THEN Done(c)
           ELSE NextPoll(c, resp) /\ UNCHANGED conn
     \/ /\ cmd = "run" /\ resp \in {"launched", "running"} /\ NextWait(c) /\ UNCHANGED conn
     \/ /\ cmd = "run" /\ client[c].act = "waitPrincipal" /\ resp = "ended" /\ Done(c)
     \/ /\ cmd \in {"run", "wait"} /\ resp = "error" /\ client[c].act # "revokeSession" /\ Done(c)
     \/ /\ cmd \notin {"run", "wait"} /\ resp # "none" /\ Done(c)
  /\ UNCHANGED <<server, starts, dirs, session, child, parked>>

\* The deadline of wait_with_poll, between two polls.
WaitTimesOut(c) ==
  /\ client[c].cmd = "wait" /\ client[c].at = "send" /\ client[c].seen = "none"
  /\ Done(c)
  /\ UNCHANGED <<server, starts, dirs, session, child, parked>>

\* Ctrl+C or SIGTERM during a run: the session is revoked, whatever comes of it.
RunInterrupted(c) ==
  /\ client[c].cmd = "run" /\ client[c].at = "connect" /\ client[c].act = "waitPrincipal"
  /\ client' = [client EXCEPT ![c].act = "revokeSession"]
  /\ UNCHANGED <<server, starts, dirs, conn, session, child, parked>>

\* The process of a command is killed.
ClientDies(c) ==
  /\ client[c] # NoClient /\ client[c].at # "done"
  /\ client' = [client EXCEPT ![c] = Over]
  /\ conn' = [conn EXCEPT ![c] = IF @.at = "closed" THEN NoConn ELSE @]
  /\ UNCHANGED <<server, starts, dirs, session, child, parked>>

-----------------------------------------------------------------------------
ChildExits ==
  /\ child \in {"running", "unkillable", "orphan"}
  /\ child' = IF child = "orphan" THEN "gone" ELSE "exited"
  /\ UNCHANGED <<server, starts, dirs, conn, client, session, parked>>

ClientStep(c) == Connect(c) \/ Send(c) \/ Recv(c)
ServerStep(c) ==
  \/ Accept(c) \/ RejectPeer(c) \/ Receive(c) \/ ReceiveNothing(c)
  \/ HandleQuery(c) \/ HandleLaunch(c) \/ HandleWait(c) \/ HandleRevoke(c) \/ HandleShutdown(c)

Next ==
  \/ StartServer \/ (\E made \in SUBSET Profiles : CreateFails(made))
  \/ BeginShutdown \/ Drain \/ EndServer \/ Crash \/ ChildExits
  \/ Unpark \/ Reap \/ ReapExpired
  \/ \E c \in Clients :
       \/ \E cmd \in Commands : Begin(c, cmd)
       \/ ClientStep(c) \/ ServerStep(c) \/ WaitTimesOut(c) \/ RunInterrupted(c) \/ ClientDies(c)

(* The scheduler runs a passless command, a worker and the runtime loop that *)
(* can go on, and a shutdown goes on as far as it can.  A foreign process    *)
(* and the child of a session owe nothing.                                   *)
Fairness ==
  /\ \A c \in Clients : WF_vars(client[c].cmd # "foreign" /\ ClientStep(c)) /\ WF_vars(ServerStep(c))
  /\ WF_vars(Unpark) /\ WF_vars(Reap) /\ WF_vars(Drain) /\ WF_vars(EndServer)

Spec == Init /\ [][Next]_vars /\ Fairness

-----------------------------------------------------------------------------
(* A shutdown that waits for ever: a worker has no time limit for the first  *)
(* message of a client, and one that launched a session stays while the     *)
(* process exists.  After the sessions were ended nobody ends or reaps it.  *)
ShutdownHangs ==
  /\ server = "joining"
  /\ parked \/ \E c \in Strangers : conn[c].at = "serving" /\ client[c].cmd = "foreign"

(* A command never hangs: whatever becomes of the daemon and of the worker  *)
(* limit, it gets an answer or the end of its connection, and a run ends    *)
(* once its session has.  The exception is a shutdown that hangs, which     *)
(* holds the connections that it no longer accepts.                         *)
CommandsReturn ==
  \/ \A c \in Clients :
       \/ client[c].cmd \notin {"none", "foreign"} ~> (client[c] # NoClient /\ client[c].at = "done")
       \/ <>[](session.by = c /\ session.st = "running")
  \/ <>[]ShutdownHangs

(* A session ends with the run that launched it, however that one ended: it *)
(* was interrupted and its RevokeSession got no worker or no answer, it was *)
(* killed before it knew of the session, or its connection broke.  What is  *)
(* left is a process that was killed in vain, or that a crash of the daemon *)
(* left alone ("unkillable", "orphan"), or one launched while the daemon    *)
(* hangs in its shutdown.                                                   *)
SessionEndsWithRun ==
  \/ \A c \in Clients :
       (child = "running" /\ session.by = c /\ client[c].at = "done") ~> child # "running"
  \/ <>[]ShutdownHangs
=============================================================================
