---------------------------- MODULE BrowserControl ---------------------------
(***************************************************************************)
(* browser-control: a principal sends one CDP command to the browser of    *)
(* its lease and gets the messages up to the answer (runtime.rs:           *)
(* handle_browser_control, handle_browser_status; browser.rs:              *)
(* cdp_round_trip).                                                        *)
(*                                                                         *)
(* The round trip holds the mutex of the browser manager from the write to *)
(* the answer or the deadline.  An answer is recognised by the id that the *)
(* client chose.  What a request that timed out was waiting for stays in   *)
(* the pipe, and the next request reads it first.                          *)
(***************************************************************************)
EXTENDS Naturals, Sequences, FiniteSets, SequencesExt

CONSTANTS
    Requests,    \* browser-control requests, each with a worker thread of its own
    Ids,         \* the ids clients choose
    MaxMessages, \* CDP_MAX_RESPONSE_MESSAGES
    PipeCap,     \* bound: requests that the pipe to the browser holds
    MaxEvents    \* bound: messages of the browser that answer nothing

VARIABLES
    req,       \* request -> where its thread is, its id, its result, whose answer it got
    mgr,       \* the holder of browser_manager, or "free"
    lease,     \* the lease: its state, whether the session has it, how CDP is exposed
    browser,   \* the process and the commands it works on
    toBrowser, \* the pipe to the browser
    toDaemon,  \* the pipe from the browser
    buf,       \* cdp_read_buf
    got,       \* messages collected by the request that holds the mutex
    recorded,  \* requests with a "requested" record in the audit log
    status,    \* a browser-status request of another thread
    events     \* events the browser has sent

vars == <<req, mgr, lease, browser, toBrowser, toDaemon, buf, got, recorded, status, events>>
pipes == <<toBrowser, toDaemon, buf>>

None == [is |-> "none"]
Answer(r) == [is |-> "answer", to |-> r]
Event == [is |-> "event"]

Idle == [pc |-> "idle", id |-> 0, form |-> "integer", result |-> "none", from |-> None]

(* The command line has exactly one of --request and --request-file; the    *)
(* protocol refuses an empty or oversized text and a timeout of zero.       *)
Forms == {"integer", "fraction", "invalid", "refused"}

Init ==
    /\ req = [r \in Requests |-> Idle]
    /\ mgr = "free"
    /\ lease \in [state : {"live"}, of : {"session", "nobody"}, cdp : {"pipe", "port"}]
    /\ browser = [state |-> "up", working |-> {}]
    /\ toBrowser = <<>> /\ toDaemon = <<>> /\ buf = <<>> /\ got = 0
    /\ recorded = {}
    /\ status = "idle"
    /\ events = 0

Go(r, pc) == req' = [req EXCEPT ![r].pc = pc]
End(r, result) == req' = [req EXCEPT ![r].pc = "recording", ![r].result = result]
Refuse(r) == req' = [req EXCEPT ![r].pc = "done", ![r].result = "refused"]

-----------------------------------------------------------------------------
Ask(r) ==
    /\ req[r].pc = "idle"
    /\ \E i \in Ids, f \in Forms :
         req' = [req EXCEPT ![r] = IF f = "refused" THEN [Idle EXCEPT !.pc = "done", !.result = "refused"]
                                   ELSE [Idle EXCEPT !.pc = "lookup", !.id = i, !.form = f]]
    /\ UNCHANGED <<mgr, lease, browser, pipes, got, recorded, status, events>>

(* the session's lease: active_browser, else current_pending if it is this  *)
(* session's; both keep a lease that has ended                              *)
HasLease == lease.of = "session"

(* handle_principal holds the profile's session list from its check of the  *)
(* caller to the answer, so the requests of a profile are served in turn.   *)
SessionListFree == \A r \in Requests : req[r].pc \in {"idle", "lookup", "done"}

Lookup(r) ==
    /\ req[r].pc = "lookup" /\ SessionListFree
    /\ IF HasLease THEN Go(r, "port?") ELSE Refuse(r)
    /\ UNCHANGED <<mgr, lease, browser, pipes, got, recorded, status, events>>

(* port mode: connect directly; a lease that is gone has no answer here *)
CheckPort(r) ==
    /\ req[r].pc = "port?" /\ mgr = "free"
    /\ IF lease.cdp = "port" THEN Refuse(r) ELSE Go(r, "audit")
    /\ UNCHANGED <<mgr, lease, browser, pipes, got, recorded, status, events>>

(* no command is sent that the log does not have *)
PreAudit(r) ==
    /\ req[r].pc = "audit"
    /\ \/ Go(r, "enter") /\ recorded' = recorded \cup {r}
       \/ Refuse(r) /\ UNCHANGED recorded
    /\ UNCHANGED <<mgr, lease, browser, pipes, got, status, events>>

(* validate_cdp_request: an object with a positive integral id; 1.0 passes *)
Valid(r) == req[r].form # "invalid"

(* The mutex is taken for the check of the state and for the round trip.    *)
(* The lease found is always one of the caller's profile.                   *)
Enter(r) ==
    /\ req[r].pc = "enter" /\ mgr = "free"
    /\ CASE lease.state = "terminal" -> End(r, "browser_exit") /\ UNCHANGED mgr
         [] lease.state = "live" /\ ~Valid(r) -> End(r, "error") /\ UNCHANGED mgr
         [] OTHER -> Go(r, "writing") /\ mgr' = r
    /\ UNCHANGED <<lease, browser, pipes, got, recorded, status, events>>

Leave(r, result) ==
    /\ End(r, result)
    /\ mgr' = "free" /\ got' = 0

(* a blocking write: a full pipe holds the thread, and the mutex with it *)
Write(r) ==
    /\ req[r].pc = "writing"
    /\ \/ /\ browser.state = "up" /\ Len(toBrowser) < PipeCap
          /\ toBrowser' = Append(toBrowser, r)
          /\ Go(r, "reading") /\ got' = 0 /\ UNCHANGED mgr
       \/ browser.state = "dead" /\ Leave(r, "error") /\ UNCHANGED toBrowser
    /\ UNCHANGED <<lease, browser, toDaemon, buf, recorded, status, events>>

(* One read takes what fits into the chunk.  Messages left in the buffer by *)
(* the request before are parsed only now, ahead of the new ones.           *)
Read(r) ==
    /\ req[r].pc = "reading" /\ toDaemon # <<>>
    /\ \E n \in 1..Len(toDaemon) :
         /\ buf' = buf \o SubSeq(toDaemon, 1, n)
         /\ toDaemon' = SubSeq(toDaemon, n + 1, Len(toDaemon))
    /\ Go(r, "parsing")
    /\ UNCHANGED <<mgr, lease, browser, toBrowser, got, recorded, status, events>>

HasIdAny(r, msg) == msg.is = "answer" /\ req[r].form = "integer"

(* cdp_message_has_id: the numbers are compared as JSON numbers, so 1.0 is  *)
(* never the 1 that the browser sends back                                  *)
HasId(r, msg) == msg.is = "answer" /\ req[r].form = "integer" /\ req[msg.to].id = req[r].id

Parse(r) ==
    /\ req[r].pc = "parsing"
    /\ IF buf = <<>> THEN Go(r, "reading") /\ UNCHANGED <<mgr, buf, got>>
       ELSE /\ buf' = Tail(buf)
            /\ IF got >= MaxMessages THEN Leave(r, "error")
               ELSE IF HasId(r, Head(buf))
               THEN /\ req' = [req EXCEPT ![r].pc = "recording", ![r].result = "success", ![r].from = Head(buf)]
                    /\ mgr' = "free" /\ got' = 0
               ELSE got' = got + 1 /\ UNCHANGED <<req, mgr>>
    /\ UNCHANGED <<lease, browser, toBrowser, toDaemon, recorded, status, events>>

ReadEof(r) ==
    /\ req[r].pc = "reading" /\ toDaemon = <<>> /\ browser.state = "dead"
    /\ Leave(r, "browser_exit")
    /\ UNCHANGED <<lease, browser, pipes, recorded, status, events>>

(* mutant: the deadline is only looked at when something was read *)
DeadlineIdle(r) ==
    /\ req[r].pc = "reading" /\ got > 0
    /\ Leave(r, "timeout")
    /\ UNCHANGED <<lease, browser, pipes, recorded, status, events>>

(* The deadline passes, at most CDP_MAX_TIMEOUT after the write: what was   *)
(* collected is dropped.                                                    *)
Deadline(r) ==
    /\ req[r].pc = "reading"
    /\ Leave(r, "timeout")
    /\ UNCHANGED <<lease, browser, pipes, recorded, status, events>>

(* the outcome is recorded, or not, and the caller answered *)
RecordOutcome(r) ==
    /\ req[r].pc = "recording"
    /\ Go(r, "done")
    /\ UNCHANGED <<mgr, lease, browser, pipes, got, recorded, status, events>>

(* handle_browser_status: it needs the session list and, when there is a    *)
(* lease, the browser manager                                               *)
AskStatus ==
    /\ status = "idle"
    /\ status' = "waiting"
    /\ UNCHANGED <<req, mgr, lease, browser, pipes, got, recorded, events>>

StatusServed ==
    /\ status = "waiting" /\ SessionListFree /\ (HasLease => mgr = "free")
    /\ status' = "served"
    /\ UNCHANGED <<req, mgr, lease, browser, pipes, got, recorded, events>>

-----------------------------------------------------------------------------
(* The browser (external): it reads, works on several commands at once,     *)
(* answers them in any order, sends events, and dies.                       *)
BrowserReads ==
    /\ browser.state = "up" /\ toBrowser # <<>>
    /\ browser' = [browser EXCEPT !.working = @ \cup {Head(toBrowser)}]
    /\ toBrowser' = Tail(toBrowser)
    /\ UNCHANGED <<req, mgr, lease, toDaemon, buf, got, recorded, status, events>>

BrowserAnswers ==
    /\ browser.state = "up"
    /\ \E r \in browser.working :
         /\ browser' = [browser EXCEPT !.working = @ \ {r}]
         /\ toDaemon' = Append(toDaemon, Answer(r))
    /\ UNCHANGED <<req, mgr, lease, toBrowser, buf, got, recorded, status, events>>

BrowserSendsEvent ==
    /\ browser.state = "up" /\ events < MaxEvents
    /\ toDaemon' = Append(toDaemon, Event)
    /\ events' = events + 1
    /\ UNCHANGED <<req, mgr, lease, browser, toBrowser, buf, got, recorded, status>>

BrowserDies ==
    /\ browser.state = "up"
    /\ browser' = [state |-> "dead", working |-> {}]
    /\ toBrowser' = <<>>
    /\ UNCHANGED <<req, mgr, lease, toDaemon, buf, got, recorded, status, events>>

(* check_exits, or a revocation, which ends the browser itself *)
LeaseEnds ==
    /\ lease.state = "live" /\ mgr = "free"
    /\ lease' = [lease EXCEPT !.state = "terminal"]
    /\ browser' = [state |-> "dead", working |-> {}]
    /\ toBrowser' = <<>> /\ toDaemon' = <<>> /\ buf' = <<>>
    /\ UNCHANGED <<req, mgr, got, recorded, status, events>>

-----------------------------------------------------------------------------
Thread(r) ==
    Lookup(r) \/ CheckPort(r) \/ PreAudit(r) \/ Enter(r) \/ Write(r) \/ Read(r) \/ Parse(r)
        \/ ReadEof(r) \/ Deadline(r) \/ RecordOutcome(r)

Next ==
    \/ \E r \in Requests : Ask(r) \/ Thread(r)
    \/ AskStatus \/ StatusServed
    \/ BrowserReads \/ BrowserAnswers \/ BrowserSendsEvent \/ BrowserDies \/ LeaseEnds

(* Threads are scheduled, deadlines pass, and a mutex is handed to whoever  *)
(* waits.  The browser owes nothing: it may stop reading its pipe.          *)
Fairness ==
    /\ \A r \in Requests : WF_vars(Thread(r)) /\ WF_vars(Deadline(r))
    /\ SF_vars(StatusServed)

Spec == Init /\ [][Next]_vars /\ Fairness

-----------------------------------------------------------------------------
(* A request is given its own answer, unless an earlier request with the    *)
(* same id was abandoned at its deadline: only then can an answer in the    *)
(* pipe be taken for another one.                                           *)
OwnAnswer ==
    \A r \in Requests : req[r].result = "success" =>
        LET o == req[r].from.to IN o = r \/ (req[o].result \in {"timeout", "error"} /\ req[o].id = req[r].id)

(* A write that the browser never takes: write_all has no deadline and      *)
(* blocks while it holds the browser manager.                               *)
WriteBlocked ==
    \E r \in Requests : req[r].pc = "writing" /\ browser.state = "up" /\ Len(toBrowser) >= PipeCap

(* Everyone else who needs the browser manager waits for a round trip, and  *)
(* no longer, whether the browser answers, dies or says nothing: the wait   *)
(* for an answer ends at the deadline.  The one exception is a live browser *)
(* that has stopped reading with its pipe full, which holds the write, and  *)
(* everyone, for as long as it stays so.                                    *)
OthersServed == (status = "waiting" ~> status = "served") \/ <>[]WriteBlocked
=============================================================================
