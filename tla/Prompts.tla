------------------------------ MODULE Prompts ------------------------------
(***************************************************************************)
(* The confirmation prompt of an agent endpoint (agent/prompt.rs): one     *)
(* notification on the session bus, the thread that waits for its answer   *)
(* and the decision.  The notification server, its signals and the person  *)
(* in front of it are the world.                                           *)
(***************************************************************************)
EXTENDS Integers

CONSTANTS Reviewed,   \* ticks of min_review_delay_ms
          TimedOut    \* ticks of timeout_secs, larger than Reviewed

VARIABLES pc,        \* DesktopPromptHandle::prompt
          note,      \* the notification: "none", "shown" or "gone"
          listening, \* the match rule of the waiting thread
          signal,    \* what that thread has sent, and returned
          elapsed,   \* ticks since show_start
          result,    \* the ValidatedAction, then the decision
          person     \* history: what was done with the notification

vars == <<pc, note, listening, signal, elapsed, result, person>>

Actions == {"approve", "deny", "default"}

Init ==
  /\ pc = "idle" /\ note = "none" /\ listening = "no" /\ signal = "none"
  /\ elapsed = 0 /\ result = "none" /\ person = "nothing"

Ask ==
  /\ pc \in {"idle", "done"}
  /\ pc' = "query" /\ note' = "none" /\ listening' = "no" /\ signal' = "none"
  /\ elapsed' = 0 /\ result' = "none" /\ person' = "nothing"

Fail == pc' = "done" /\ result' = "error"

\* PromptRequestBuilder::build and normalize_rp_id: a request without one of its
\* fields, or for no relying party or a wildcard, is not prompted for.
Build(complete) ==
  /\ pc = "query"
  /\ IF complete THEN pc' = "capabilities" /\ UNCHANGED result ELSE Fail
  /\ UNCHANGED <<note, listening, signal, elapsed, person>>

\* query_server_capabilities: a server without actions of its own, or one that
\* does not answer, is refused.
QueryServer(capability) ==
  /\ pc = "capabilities"
  /\ IF capability = "full" THEN pc' = "resolve" /\ UNCHANGED result ELSE Fail
  /\ UNCHANGED <<note, listening, signal, elapsed, person>>

ResolveServer(resolved) ==
  /\ pc = "resolve"
  /\ IF resolved THEN pc' = "show" /\ UNCHANGED result ELSE Fail
  /\ UNCHANGED <<note, listening, signal, elapsed, person>>

Show(rendered) ==
  /\ pc = "show"
  /\ IF rendered THEN pc' = "subscribe" /\ note' = "shown" /\ UNCHANGED result
     ELSE Fail /\ UNCHANGED note
  /\ UNCHANGED <<listening, signal, elapsed, person>>

\* The signals are asked for after the notification is on the screen.
Subscribe(subscribed) ==
  /\ pc = "subscribe"
  /\ IF subscribed THEN pc' = "wait" /\ listening' = "yes" /\ UNCHANGED result
     ELSE pc' = "decide" /\ result' = "closed" /\ UNCHANGED listening
  /\ UNCHANGED <<note, signal, elapsed, person>>

-----------------------------------------------------------------------------
(* The world: a signal reaches the thread if it listens and has not         *)
(* returned.  Another sender's signals, and those of another notification,  *)
(* are skipped.                                                             *)

Signalled(s) ==
  /\ note = "shown" /\ note' = "gone"
  /\ signal' = IF listening = "yes" /\ signal = "none" THEN s ELSE signal

PersonActs(a) ==
  /\ Signalled(a)
  /\ person' = IF pc \in {"subscribe", "wait"} THEN a ELSE "late"
  /\ UNCHANGED <<pc, listening, elapsed, result>>

ServerCloses ==
  /\ Signalled("closed")
  /\ UNCHANGED <<pc, listening, elapsed, result, person>>

\* The server goes away with what it showed: nobody announces it.
ServerDies ==
  /\ note = "shown" /\ note' = "gone"
  /\ UNCHANGED <<pc, listening, signal, elapsed, result, person>>

Tick ==
  /\ pc \in {"subscribe", "wait"} /\ elapsed < TimedOut /\ elapsed' = elapsed + 1
  /\ UNCHANGED <<pc, note, listening, signal, result, person>>

-----------------------------------------------------------------------------
(* wait_for_validated_action and the decision.                              *)

Receive ==
  /\ pc = "wait" /\ signal # "none" /\ pc' = "join" /\ result' = signal
  /\ UNCHANGED <<note, listening, signal, elapsed, person>>

\* As Deadline, for a channel that is read without a limit.
DeadlineNever ==
  /\ pc = "wait" /\ signal # "none" /\ elapsed >= TimedOut
  /\ pc' = "join" /\ result' = "closed"
  /\ UNCHANGED <<note, listening, signal, elapsed, person>>

Deadline ==
  /\ pc = "wait" /\ elapsed >= TimedOut /\ pc' = "join" /\ result' = "closed"
  /\ UNCHANGED <<note, listening, signal, elapsed, person>>

\* The thread is joined; it returns only once it has seen a signal of this
\* notification.
Join ==
  /\ pc = "join" /\ signal # "none" /\ pc' = "decide"
  /\ UNCHANGED <<note, listening, signal, elapsed, result, person>>

\* As Decision, for an answer that is taken from the thread after its deadline.
DecisionLate(r, t) ==
  CASE signal = "approve" /\ t >= Reviewed -> "approved"
    [] r \in {"approve", "deny"} -> "denied"
    [] r = "closed" -> "timeout"
    [] OTHER -> "error"

Decision(r, t) ==
  CASE r = "approve" /\ t >= Reviewed -> "approved"
    [] r \in {"approve", "deny"} -> "denied"
    [] r = "closed" -> "timeout"
    [] OTHER -> "error"

Decide ==
  /\ pc = "decide" /\ pc' = "done" /\ result' = Decision(result, elapsed)
  /\ UNCHANGED <<note, listening, signal, elapsed, person>>

PromptStep ==
  \/ \E ok \in BOOLEAN : Build(ok) \/ ResolveServer(ok) \/ Show(ok) \/ Subscribe(ok)
  \/ \E c \in {"full", "default", "unknown"} : QueryServer(c)
  \/ Receive \/ Deadline \/ Join \/ Decide

World == (\E a \in Actions : PersonActs(a)) \/ ServerCloses \/ ServerDies

Next == Ask \/ PromptStep \/ World \/ Tick

Fairness == WF_vars(PromptStep) /\ WF_vars(Tick)
Spec == Init /\ [][Next]_vars /\ Fairness

-----------------------------------------------------------------------------
(* Properties.                                                              *)

\* DesktopPromptHandle::prompt approves only what a person approved on this
\* very notification before the wait was given up and was decided after the review
\* delay: no lost, late or ambiguous signal and no failing call becomes one.
ApprovedByPerson ==
  (pc = "done" /\ result = "approved") => person = "approve" /\ elapsed >= Reviewed

\* A prompt that is on its way returns, unless in the end the notification
\* stays on the screen for ever or its end was announced to nobody: then the
\* join after the deadline waits for a signal that will not come.
PromptReturns ==
  \/ <>[](note = "shown")
  \/ <>[](pc = "join" /\ note = "gone" /\ signal = "none")
  \/ (pc = "wait") ~> (pc = "done")
=============================================================================
