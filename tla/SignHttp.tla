------------------------------ MODULE SignHttp ------------------------------
(***************************************************************************)
(* The socket of the signing service and the registry of bearer tokens     *)
(* (agent/sign.rs): SignHttpServer, handle_http_connection up to the claim *)
(* and SignContextRegistry, with the launch that fills the registry and    *)
(* the shutdown that empties it.  What a claimed request does is in        *)
(* SignService.                                                            *)
(*                                                                         *)
(* Each map of the registry has its own lock, so a call that uses two maps *)
(* is two steps.  A connection works on the clone of the entry it found.   *)
(***************************************************************************)
EXTENDS Integers, FiniteSets

CONSTANTS Tokens,           \* bearer tokens, one for each launch
          Conns,            \* connections clients make
          Bodies,           \* request bodies (their digests)
          MaxConnections,   \* MAX_CONNECTIONS
          MaxOps            \* max_operations of the profile

VARIABLES server,   \* "unbound", "bound", "serving", "ended", "aborted"
          file,     \* whether the socket path exists
          active,   \* active_count
          conn,     \* connection -> what its thread is doing
          life,     \* token -> how far its launch is and the budgets it has made
          entries,  \* entries: token -> lease binding and budget
          regs,     \* registration_entries: token -> budget
          budgets,  \* request_budgets: token -> budget
          budget,   \* token -> its budgets: digests used and in flight
          down      \* how far AgentRuntime::shutdown is

vars == <<server, file, active, conn, life, entries, regs, budgets, budget, down>>
maps == <<entries, regs, budgets>>
socket == <<server, file>>

None == 0
Ids == 1 .. 2   \* a launch asks for the token's budget twice
NoEntry == [lease |-> "absent", budget |-> None]
EmptyBudget == [used |-> {}, flight |-> {}]
Out == [pc |-> "out"]
End == [pc |-> "end"]
Closed == [pc |-> "closed"]

\* A request: where it goes, the token it names and the first thing wrong with it:
\* a head that is too long, for another route or without a bearer token, a token
\* that does not exist, a content type or a length that is refused.
Faults == {"head", "token", "body"}
Requests ==
  [route : {"sign", "register"}, token : Tokens, fault : {"none"}, body : Bodies]
    \cup [route : {"sign"}, token : Tokens, fault : Faults, body : {None}]

Init ==
  /\ server = "unbound" /\ file \in {"no", "yes"} /\ active = 0
  /\ conn = [c \in Conns |-> Out]
  /\ life = [t \in Tokens |-> [at |-> "new", made |-> 0, budget |-> None]]
  /\ entries = [t \in Tokens |-> NoEntry]
  /\ regs = [t \in Tokens |-> None] /\ budgets = [t \in Tokens |-> None]
  /\ budget = [t \in Tokens |-> [i \in Ids |-> EmptyBudget]]
  /\ down = "no"

-----------------------------------------------------------------------------
(* The registry, as a launch fills it.                                      *)

\* Mutant: every entry gets a budget of its own.
RequestBudgetFresh(t) == life[t].made + 1

\* request_budget: the budget the token has, or a new one.
RequestBudget(t) == IF budgets[t] # None THEN budgets[t] ELSE life[t].made + 1

\* The first half of register_pending_registration and register_pending.
TakeBudget(t, from, to) ==
  LET b == RequestBudget(t) IN
  /\ life[t].at = from /\ server = "serving"
  /\ life' = [life EXCEPT ![t] = [at |-> to, budget |-> b, made |-> IF b > @.made THEN b ELSE @.made]]
  /\ budgets' = [budgets EXCEPT ![t] = b]
  /\ UNCHANGED <<entries, regs, budget, conn, socket, active, down>>

Reaches(t, from, to) == life[t].at = from /\ life' = [life EXCEPT ![t].at = to]

\* The second half of register_pending_registration.
RegisterRegistration(t) ==
  /\ Reaches(t, "reg", "browser")
  /\ regs' = [regs EXCEPT ![t] = life[t].budget]
  /\ UNCHANGED <<entries, budgets, budget, conn, socket, active, down>>

\* The second half of register_pending: nobody finds the entry yet.
RegisterPending(t) ==
  /\ Reaches(t, "pend", "bind")
  /\ entries' = [entries EXCEPT ![t] = [lease |-> "unbound", budget |-> life[t].budget]]
  /\ UNCHANGED <<regs, budgets, budget, conn, socket, active, down>>

\* bind_lease; after a shutdown the entry is no longer there.
BindLease(t) ==
  /\ Reaches(t, "bind", IF entries[t] = NoEntry THEN "failed" ELSE "live")
  /\ entries' = IF entries[t] = NoEntry THEN entries ELSE [entries EXCEPT ![t].lease = "bound"]
  /\ UNCHANGED <<regs, budgets, budget, conn, socket, active, down>>

\* cleanup_request_budget: the budget goes with the last entry.
Cleaned(t, es, rs) == [budgets EXCEPT ![t] = IF es[t] = NoEntry /\ rs[t] = None THEN None ELSE @]

\* revoke and revoke_registration, after a launch that failed; the budget a
\* connection holds lives on.
LaunchFails(t) ==
  LET es == [entries EXCEPT ![t] = NoEntry]  rs == [regs EXCEPT ![t] = None] IN
  /\ life[t].at \in {"browser", "bind", "failed"}
  /\ life' = [life EXCEPT ![t].at = "ended"]
  /\ entries' = es /\ regs' = rs /\ budgets' = Cleaned(t, es, rs)
  /\ UNCHANGED <<budget, conn, socket, active, down>>

\* revoke_by_lease, when the lease of a launched browser ends.
RevokeByLease(t) ==
  LET es == [entries EXCEPT ![t] = IF @.lease = "bound" THEN NoEntry ELSE @] IN
  /\ Reaches(t, "live", "ended")
  /\ entries' = es /\ budgets' = Cleaned(t, es, regs)
  /\ UNCHANGED <<regs, budget, conn, socket, active, down>>

\* lookup_bound and lookup_registration: the budget of the entry found.
Lookup(req) ==
  IF req.fault = "token" THEN None
  ELSE IF req.route = "register" THEN regs[req.token]
  ELSE IF entries[req.token].lease = "bound" THEN entries[req.token].budget ELSE None

-----------------------------------------------------------------------------
(* The server.                                                              *)

\* bind removes the path an earlier daemon left; set_permissions may fail
\* after the path has been made.
Bind ==
  /\ server = "unbound"
  /\ \E ok \in {"bound", "ended"} : server' = ok /\ file' \in IF ok = "bound" THEN {"yes"} ELSE {"yes", "no"}
  /\ UNCHANGED <<active, conn, life, maps, budget, down>>

\* serve: the accept loop starts.
Serve ==
  /\ server = "bound" /\ server' = "serving"
  /\ UNCHANGED <<file, active, conn, life, maps, budget, down>>

Leave(c, how) == conn' = [conn EXCEPT ![c] = how]
Go(c, pc) == Leave(c, [conn[c] EXCEPT !.pc = pc])

\* A client connects and waits to be accepted.
Connect(c, req) ==
  /\ conn[c] = Out /\ server \in {"bound", "serving"} /\ down # "joined"
  /\ conn' = [conn EXCEPT ![c] = [pc |-> "queued", req |-> req, budget |-> None]]
  /\ UNCHANGED <<socket, active, life, maps, budget, down>>

\* A panic, in the accept loop or in a connection: the release profile aborts the
\* daemon, which leaves the socket's path and nothing else.
Abort ==
  /\ server' = "aborted" /\ active' = 0 /\ conn' = [c \in Conns |-> Closed]
  /\ life' = [t \in Tokens |-> [life[t] EXCEPT !.at = "ended"]]
  /\ entries' = [t \in Tokens |-> NoEntry]
  /\ regs' = [t \in Tokens |-> None] /\ budgets' = [t \in Tokens |-> None]
  /\ down' = "joined" /\ UNCHANGED <<file, budget>>

\* A turn of the loop: a connection over the limit is dropped without an answer.
\* The place is counted before the thread is there: a spawn that fails panics.
Accept(c) ==
  /\ server = "serving" /\ conn[c].pc = "queued" /\ down \notin {"flag", "joined"}
  /\ \/ /\ active >= MaxConnections /\ Leave(c, Closed)
        /\ UNCHANGED <<active, socket, life, maps, budget, down>>
     \/ /\ active < MaxConnections /\ Go(c, "head") /\ active' = active + 1
        /\ UNCHANGED <<socket, life, maps, budget, down>>
     \/ active < MaxConnections /\ Abort

\* The loop sees the flag and ends: the path goes, and with the listener the
\* connections that were not accepted.  Running threads are not waited for.
LoopEnds ==
  /\ server = "serving" /\ down = "flag"
  /\ server' = "ended" /\ file' = "no" /\ down' = "joined"
  /\ conn' = [c \in Conns |-> IF conn[c].pc = "queued" THEN Closed ELSE conn[c]]
  /\ UNCHANGED <<active, life, maps, budget>>

-----------------------------------------------------------------------------
(* A connection thread: handle_http_connection.                             *)

\* The head is read; nothing for five seconds, an end of file or bad UTF-8 ends
\* the connection without an answer.  413 for a long head, 404 for another
\* route, 401 without a bearer token.
ReadHead(c) ==
  /\ conn[c].pc = "head"
  /\ IF conn[c].req.fault = "head" THEN Leave(c, End) ELSE Go(c, "lookup")
  /\ UNCHANGED <<socket, active, life, maps, budget, down>>

\* Mutant: the thread that gives up reading does not give its place back.
ReadFailsKeeping(c) ==
  /\ conn[c].pc \in {"head", "body"} /\ Leave(c, Closed)
  /\ UNCHANGED <<socket, active, life, maps, budget, down>>

ReadFails(c) ==
  /\ conn[c].pc \in {"head", "body"} /\ Leave(c, End)
  /\ UNCHANGED <<socket, active, life, maps, budget, down>>

\* 401, or the entry the token stands for now.
FindEntry(c) ==
  LET b == Lookup(conn[c].req) IN
  /\ conn[c].pc = "lookup"
  /\ Leave(c, IF b = None THEN End ELSE [pc |-> "body", req |-> conn[c].req, budget |-> b])
  /\ UNCHANGED <<socket, active, life, maps, budget, down>>

\* 415 for another content type, 413 for a long body; or the whole body.
ReadBody(c) ==
  /\ conn[c].pc = "body"
  /\ IF conn[c].req.fault = "body" THEN Leave(c, End) ELSE Go(c, "claim")
  /\ UNCHANGED <<socket, active, life, maps, budget, down>>

\* claim on the budget of the entry that was found.
Claim(c) ==
  LET t == conn[c].req.token  i == conn[c].budget  b == conn[c].req.body
      used == budget[t][i].used IN
  /\ conn[c].pc = "claim"
  /\ IF b \notin used /\ Cardinality(used) < MaxOps
     THEN /\ budget' = [budget EXCEPT ![t][i] = [used |-> used \cup {b}, flight |-> @.flight \cup {b}]]
          /\ Go(c, "run")
     ELSE /\ IF b \in budget[t][i].flight THEN Leave(c, [pc |-> "wait"]) ELSE Leave(c, End)
          /\ UNCHANGED budget
  /\ UNCHANGED <<socket, active, life, maps, down>>

Resolved(c) ==
  budget' = [budget EXCEPT ![conn[c].req.token][conn[c].budget].flight = @ \ {conn[c].req.body}]

\* The handler returns and the outcome is shared; or it ends without one
\* and the guard shares an internal error.
Handled(c) ==
  /\ conn[c].pc = "run" /\ Leave(c, End) /\ Resolved(c)
  /\ UNCHANGED <<socket, active, life, maps, down>>

\* generate_credential_id expects /dev/urandom to open.
Panics(c) == conn[c].pc = "run" /\ conn[c].req.route = "register" /\ Abort

\* The outcome of the request in flight, or operation_timeout after 30 seconds.
WaitEnds(c) ==
  /\ conn[c].pc = "wait" /\ Leave(c, End)
  /\ UNCHANGED <<socket, active, life, maps, budget, down>>

\* handle_http_connection has returned, with an answer or an error.
GiveBack(c) ==
  /\ conn[c].pc = "end" /\ Leave(c, Closed)
  /\ active' = active - 1
  /\ UNCHANGED <<socket, life, maps, budget, down>>

-----------------------------------------------------------------------------
(* Shutdown of the runtime: revoke_all, then the flag the loop reads.       *)

Shut(from, to) == down = from /\ down' = to
RevokeEntries ==
  /\ Shut("no", "entries") /\ server = "serving"
  /\ entries' = [t \in Tokens |-> NoEntry]
  /\ UNCHANGED <<regs, budgets, life, budget, conn, socket, active>>
RevokeRegistrations ==
  /\ Shut("entries", "registrations")
  /\ regs' = [t \in Tokens |-> None]
  /\ UNCHANGED <<entries, budgets, life, budget, conn, socket, active>>
RevokeBudgets ==
  /\ Shut("registrations", "budgets")
  /\ budgets' = [t \in Tokens |-> None]
  /\ UNCHANGED <<entries, regs, life, budget, conn, socket, active>>
RaiseFlag ==
  /\ Shut("budgets", "flag")
  /\ UNCHANGED <<maps, life, budget, conn, socket, active>>

Thread(c) == ReadHead(c) \/ ReadFails(c) \/ FindEntry(c) \/ ReadBody(c) \/ Claim(c)
               \/ Handled(c) \/ Panics(c) \/ WaitEnds(c) \/ GiveBack(c)
Launch(t) == TakeBudget(t, "new", "reg") \/ RegisterRegistration(t) \/ TakeBudget(t, "browser", "pend")
               \/ RegisterPending(t) \/ BindLease(t) \/ LaunchFails(t)
Shutdown == RevokeEntries \/ RevokeRegistrations \/ RevokeBudgets \/ RaiseFlag

Next ==
  \/ Bind \/ Serve \/ LoopEnds \/ Shutdown
  \/ \E t \in Tokens : Launch(t) \/ RevokeByLease(t)
  \/ \E c \in Conns : Accept(c) \/ Thread(c) \/ \E req \in Requests : Connect(c, req)

\* The accept loop and the connection threads run; reads and waits have
\* timeouts.  Launches, clients and the shutdown need not happen.
Fairness == /\ WF_vars(Serve) /\ WF_vars(LoopEnds) /\ WF_vars(RevokeRegistrations \/ RevokeBudgets \/ RaiseFlag)
            /\ \A c \in Conns : WF_vars(Accept(c)) /\ WF_vars(Thread(c))
Spec == Init /\ [][Next]_vars /\ Fairness

-----------------------------------------------------------------------------
Running == {c \in Conns : conn[c].pc \notin {"out", "queued", "closed"}}

\* active_count is the number of connection threads: no way in which
\* handle_http_connection returns keeps its place.  A panic does not count: it ends
\* the daemon, the only thing that keeps a place taken for a thread that is not
\* there from staying taken (sign.rs:768-775 has no guard).
PlacesCounted == active = Cardinality(Running)

\* The operations claimed with one bearer token, on both routes and whatever
\* budget they were claimed from, stay within max_operations: the two entries
\* of a token share its budget.  Once the registry is being emptied by a
\* shutdown, a launch still running may make a second one.
OneBudgetPerToken ==
  down = "no" => \A t \in Tokens :
     Cardinality(budget[t][1].used) + Cardinality(budget[t][2].used) <= MaxOps

\* docs/plans/delegated-autonomy-daemon-proxy-implementation.md:181: the token
\* "expires when the lease ends".  No request finds an entry by a token whose
\* lease has ended.
TokenExpires ==
  [][\A c \in Conns : conn[c].pc = "lookup" /\ conn'[c].pc = "body"
       => life[conn[c].req.token].at # "ended"]_vars
=============================================================================
