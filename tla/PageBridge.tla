----------------------------- MODULE PageBridge -----------------------------
(***************************************************************************)
(* The road a page's WebAuthn call takes in an agent's browser: main.js    *)
(* replaces navigator.credentials, posts the request to broker.js in the   *)
(* same window, which sends it to the service worker (worker.js), which    *)
(* starts the native host (sign-proxy.rs), which speaks HTTP to the        *)
(* daemon's signing service and carries the answer back.                   *)
(*                                                                         *)
(* Every hop has its own limit and its own way to fail: the page's timer   *)
(* and abort signal, a broker that drops what it dislikes without an       *)
(* answer, a worker the browser may stop, and a proxy that gives up        *)
(* reading after ten seconds while the daemon goes on.                     *)
(*                                                                         *)
(* A request is its shape: which of the checks on the road it fails.       *)
(***************************************************************************)
EXTENDS Naturals, Sequences, FiniteSets

CONSTANTS
    Ops,           \* the operations of the page (request ids are random)
    MaxCompleted,  \* MAX_COMPLETED_REQUESTS
    MaxReposts,    \* bound: operations whose message is posted a second time
    MaxStops       \* bound: times the browser stops the service worker

VARIABLES
    page,     \* op -> the state of its promise, or "pending" in main.js's map
    shape,    \* op -> which check its request fails
    posted,   \* op -> [unread, total]: messages in the window
    asked,    \* op -> messages from the broker the worker has not read
    waiting,  \* op -> callbacks in the worker's pendingRequests
    done,     \* completedRequests, oldest first
    calls,    \* op -> the native messages sent for it, in order
    outcome,  \* op -> what the signing service decided for its body
    back,     \* answers posted to the page, in order
    forgot,   \* ops whose completed answer the worker no longer holds
    stops     \* times the worker was stopped

vars == <<page, shape, posted, asked, waiting, done, calls, outcome, back, forgot, stops>>

Shapes == {"good", "passive", "malformed", "unspoken", "insecure"}

(* timeoutFor, finishOperation and the states of an operation. *)
Settled == {"answered", "refused", "aborted", "native"}

Init ==
    /\ page = [o \in Ops |-> "idle"]
    /\ shape = [o \in Ops |-> "good"]
    /\ posted = [o \in Ops |-> [unread |-> 0, total |-> 0]]
    /\ asked = [o \in Ops |-> 0]
    /\ waiting = [o \in Ops |-> 0]
    /\ done = <<>>
    /\ calls = [o \in Ops |-> <<>>]
    /\ outcome = [o \in Ops |-> "none"]
    /\ back = <<>>
    /\ forgot = {}
    /\ stops = 0

-----------------------------------------------------------------------------
(* main.js                                                                  *)

(* Conditional mediation, no publicKey, or a frame WebAuthn is not          *)
(* delegated to: the browser's own implementation runs.                     *)
PolicyAllows(k) == k # "passive"
Serializes(k) == k # "malformed"

Post(o) == [posted EXCEPT ![o] = [unread |-> @.unread + 1, total |-> @.total + 1]]

RunOperation(o) == page' = [page EXCEPT ![o] = "pending"] /\ posted' = Post(o)

(* credentials.get and credentials.create *)
Call(o, k) ==
    /\ page[o] = "idle"
    /\ \/ ~PolicyAllows(k) /\ page' = [page EXCEPT ![o] = "native"] /\ UNCHANGED posted
       \/ PolicyAllows(k) /\ ~Serializes(k) /\ page' = [page EXCEPT ![o] = "refused"] /\ UNCHANGED posted
       \/ PolicyAllows(k) /\ Serializes(k) /\ page' = [page EXCEPT ![o] = "aborted"] /\ UNCHANGED posted
       \/ PolicyAllows(k) /\ Serializes(k) /\ RunOperation(o)
    /\ shape' = IF page'[o] = "pending" THEN [shape EXCEPT ![o] = k] ELSE shape
    /\ UNCHANGED <<asked, waiting, done, calls, outcome, back, forgot, stops>>

FinishOperation(o, how) == page[o] = "pending" /\ page' = [page EXCEPT ![o] = how]

TimerFires(o) ==
    /\ FinishOperation(o, "refused")
    /\ UNCHANGED <<shape, posted, asked, waiting, done, calls, outcome, back, forgot, stops>>

SignalAborts(o) ==
    /\ FinishOperation(o, "aborted")
    /\ UNCHANGED <<shape, posted, asked, waiting, done, calls, outcome, back, forgot, stops>>

(* Another script of the page posts the message it saw once more: neither   *)
(* listener can tell.                                                       *)
Repost(o) ==
    /\ posted[o].total = 1
    /\ Cardinality({p \in Ops : posted[p].total > 1}) < MaxReposts
    /\ posted' = Post(o)
    /\ UNCHANGED <<page, shape, asked, waiting, done, calls, outcome, back, forgot, stops>>

(* credentialFrom, credentialFromCreate: a result without the expected      *)
(* fields is a malformed daemon response.                                   *)
CredentialFrom(a) == a = "signed"

(* mutant: a result that cannot be decoded throws out of the listener *)
SettlesAsUncaught(a) == CASE CredentialFrom(a) -> "answered"
                          [] a = "human" -> "native"
                          [] a = "garbled" -> "dropped"
                          [] OTHER -> "refused"

(* The listener's answer to an operation that is still pending. *)
SettlesAs(a) == CASE CredentialFrom(a) -> "answered"
                  [] a = "human" -> "native"
                  [] OTHER -> "refused"

Receive ==
    /\ back # <<>>
    /\ back' = Tail(back)
    /\ LET o == Head(back).op IN
       page' = IF page[o] = "pending" THEN [page EXCEPT ![o] = SettlesAs(Head(back).answer)] ELSE page
    /\ UNCHANGED <<shape, posted, asked, waiting, done, calls, outcome, forgot, stops>>

-----------------------------------------------------------------------------
(* broker.js                                                                *)

(* isValidGetRequest, isValidCreateRequest, the length of the request: what *)
(* main.js lets through (an empty user name, a long list) may fail here,    *)
(* and is dropped without an answer.                                        *)
BrokerAccepts(k) == k # "unspoken"

Forward(o) ==
    /\ posted[o].unread > 0
    /\ posted' = [posted EXCEPT ![o].unread = @ - 1]
    /\ asked' = IF BrokerAccepts(shape[o]) THEN [asked EXCEPT ![o] = @ + 1] ELSE asked
    /\ UNCHANGED <<page, shape, waiting, done, calls, outcome, back, forgot, stops>>

(* The callback of sendMessage posts the answer to the page, once for every *)
(* message the broker sent.                                                 *)
Answers(o, a, n) == [i \in 1..n |-> [op |-> o, answer |-> a]]

-----------------------------------------------------------------------------
(* worker.js                                                                *)

(* validateOrigins and the size of the body with the origins in it *)
WorkerAccepts(k) == k # "insecure"

Take(o) == asked[o] > 0 /\ asked' = [asked EXCEPT ![o] = @ - 1]

WorkerRefuses(o) ==
    /\ Take(o)
    /\ ~WorkerAccepts(shape[o])
    /\ back' = back \o Answers(o, "error", 1)
    /\ UNCHANGED <<page, shape, posted, waiting, done, calls, outcome, forgot, stops>>

Completed(o) == {i \in DOMAIN done : done[i].op = o}

AnswerAgain(o) ==
    /\ Take(o)
    /\ WorkerAccepts(shape[o])
    /\ Completed(o) # {}
    /\ \E i \in Completed(o) : back' = back \o Answers(o, done[i].answer, 1)
    /\ UNCHANGED <<page, shape, posted, waiting, done, calls, outcome, forgot, stops>>

Join(o) ==
    /\ Take(o)
    /\ WorkerAccepts(shape[o])
    /\ Completed(o) = {} /\ waiting[o] > 0
    /\ waiting' = [waiting EXCEPT ![o] = @ + 1]
    /\ UNCHANGED <<page, shape, posted, done, calls, outcome, back, forgot, stops>>

DaemonRequest(o) ==
    /\ Take(o)
    /\ WorkerAccepts(shape[o])
    /\ Completed(o) = {} /\ waiting[o] = 0
    /\ waiting' = [waiting EXCEPT ![o] = 1]
    /\ calls' = [calls EXCEPT ![o] = Append(@, [proxy |-> "started", daemon |-> "unasked", worker |-> "alive"])]
    /\ UNCHANGED <<page, shape, posted, done, outcome, back, forgot, stops>>

(* rememberCompletedRequest *)
Remember(o, a) ==
    LET all == Append(done, [op |-> o, answer |-> a])
        old == IF Len(all) > MaxCompleted THEN {all[1].op} ELSE {}
    IN /\ done' = SubSeq(all, Cardinality(old) + 1, Len(all))
       /\ forgot' = forgot \cup old

(* mutant: the answer is given and not remembered *)
CompleteRequestForgetting(o, a) ==
    /\ waiting' = [waiting EXCEPT ![o] = 0]
    /\ back' = back \o Answers(o, a, waiting[o])
    /\ UNCHANGED <<done, forgot>>

CompleteRequest(o, a) ==
    /\ waiting' = [waiting EXCEPT ![o] = 0]
    /\ Remember(o, a)
    /\ back' = back \o Answers(o, a, waiting[o])

(* The browser stops the worker: its maps are gone, and every callback that *)
(* is still open fails with runtime.lastError.                              *)
WorkerStops ==
    /\ stops < MaxStops /\ (done # <<>> \/ \E o \in Ops : waiting[o] > 0)
    /\ stops' = stops + 1
    /\ waiting' = [o \in Ops |-> 0]
    /\ done' = <<>>
    /\ forgot' = forgot \cup {o \in Ops : waiting[o] > 0 \/ Completed(o) # {}}
    /\ calls' = [o \in Ops |-> [i \in DOMAIN calls[o] |-> [calls[o][i] EXCEPT !.worker = "gone"]]]
    /\ \E order \in {s \in [1..Cardinality(Ops) -> Ops] : {s[i] : i \in DOMAIN s} = Ops} :
          back' = back \o Answers(order[1], "error", waiting[order[1]])
                       \o (IF Len(order) > 1 THEN Answers(order[2], "error", waiting[order[2]]) ELSE <<>>)
    /\ UNCHANGED <<page, shape, posted, asked, outcome>>

-----------------------------------------------------------------------------
(* sign-proxy.rs, and the signing service it talks to                       *)

Of(o, i) == calls[o][i]
SetCall(o, i, c) == calls' = [calls EXCEPT ![o][i] = c]

(* An answer reaches the worker that asked, if that worker still runs. *)
Reply(o, i, a) ==
    /\ SetCall(o, i, [Of(o, i) EXCEPT !.proxy = "ended"])
    /\ IF Of(o, i).worker = "alive" THEN CompleteRequest(o, a) ELSE UNCHANGED <<waiting, done, forgot, back>>
    /\ UNCHANGED <<page, shape, posted, asked, outcome, stops>>

ConnectFails(o, i) == Of(o, i).proxy = "started" /\ Reply(o, i, "error")

ForwardToSignServer(o, i) ==
    /\ Of(o, i).proxy = "started"
    /\ SetCall(o, i, [Of(o, i) EXCEPT !.proxy = "reading", !.daemon = "working"])
    /\ UNCHANGED <<page, shape, posted, asked, waiting, done, outcome, back, forgot, stops>>

(* What the signing service answers (SignService): it executes a body once, *)
(* decides by policy before it signs whether a person must confirm, and     *)
(* repeats its answer or refuses a body it has seen.                        *)
DaemonDecides(o, i) ==
    /\ Of(o, i).daemon = "working"
    /\ \E d \in {"signed", "human", "error"} :
          /\ outcome[o] # "none" => d \in {outcome[o], "error"}
          /\ SetCall(o, i, [Of(o, i) EXCEPT !.daemon = d])
          /\ outcome' = IF outcome[o] = "none" THEN [outcome EXCEPT ![o] = d] ELSE outcome
    /\ UNCHANGED <<page, shape, posted, asked, waiting, done, back, forgot, stops>>

(* mutant: any failure is left to the browser's own implementation *)
FallbackAlways(a) == IF a = "error" THEN "human" ELSE a

(* What the worker makes of the native response: an error code, of which    *)
(* only human_interaction_required is a fallback, or a payload, which may   *)
(* have been cut short.                                                     *)
Fallback(a) == a

ReadResponse(o, i) ==
    /\ Of(o, i).proxy = "reading" /\ Of(o, i).daemon \in {"signed", "human", "error"}
    /\ \/ Reply(o, i, Fallback(Of(o, i).daemon))
       \/ Of(o, i).daemon = "signed" /\ Reply(o, i, "garbled")

(* The read times out, or the connection is shed: no status line, so the    *)
(* proxy reports request_denied, whatever the daemon does next.             *)
ReadTimesOut(o, i) ==
    /\ Of(o, i).proxy = "reading" /\ Of(o, i).daemon = "working"
    /\ Reply(o, i, Fallback("error"))

-----------------------------------------------------------------------------
CallStep(o) ==
    \E i \in DOMAIN calls[o] :
        ConnectFails(o, i) \/ ForwardToSignServer(o, i) \/ DaemonDecides(o, i) \/ ReadResponse(o, i) \/ ReadTimesOut(o, i)

PageStep(o) == (\E k \in Shapes : Call(o, k)) \/ TimerFires(o) \/ SignalAborts(o) \/ Repost(o)

WorkerStep(o) == WorkerRefuses(o) \/ AnswerAgain(o) \/ Join(o) \/ DaemonRequest(o)

Next ==
    \/ \E o \in Ops : PageStep(o) \/ Forward(o) \/ WorkerStep(o) \/ CallStep(o)
    \/ Receive
    \/ WorkerStops

(* A page's timers fire while it is open. *)
Fairness == \A o \in Ops : WF_vars(TimerFires(o))

Spec == Init /\ [][Next]_vars /\ Fairness

-----------------------------------------------------------------------------
(* The browser's own implementation is asked for an operation only if the   *)
(* daemon has not signed for it and never will: the fallback of main.js     *)
(* rests on human_interaction_required alone, not on a proxy that gave up   *)
(* while the daemon was still working.                                      *)
NativeOnlyUnsigned == \A o \in Ops : page[o] = "native" => outcome[o] # "signed"

(* The daemon is asked twice for one request only if the worker that had    *)
(* asked, or the answer it had kept, is gone (daemonRequest joins a request *)
(* that is pending and repeats an answer that is cached).                   *)
AskedOnce == \A o \in Ops : Len(calls[o]) > 1 => o \in forgot

(* Every call of the page settles, whatever the broker drops, the worker    *)
(* loses or the proxy garbles.                                              *)
PageSettles == \A o \in Ops : page[o] = "pending" ~> page[o] \in Settled

=============================================================================
