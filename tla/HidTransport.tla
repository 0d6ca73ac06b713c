--------------------------- MODULE HidTransport ----------------------------
(***************************************************************************)
(* One virtual FIDO device from CREATE2 to DESTROY (passless-uhid) and the *)
(* loop of its worker (worker.rs): the kernel queues events for the daemon *)
(* and drops what does not fit, hosts write the packets of one message     *)
(* each, the worker reads, hands every packet to the CTAPHID layer and     *)
(* writes the response back.  Kernel, hosts and the CTAPHID library are    *)
(* external.                                                               *)
(***************************************************************************)
EXTENDS Integers, Sequences, TLC

CONSTANTS Hosts,
          QueueSize,   \* events the kernel keeps for the daemon
          StartTries   \* START_TIMEOUT_ITERS

VARIABLES maker,     \* the thread that creates the device
          tries,     \* iterations of wait_for_start left
          mode,      \* of the file: "block" or "nonblock"
          started,   \* RawUhidDevice::started
          kernel,    \* the device in the kernel: "none", "added", "running", "gone"
          queue,     \* its events for the daemon
          opened,    \* hosts that have the device open
          cancel, draining,
          worker, packet,
          out,       \* packets of the response left to write
          partial,   \* the host whose message CTAPHID is assembling
          host       \* what became of the message of each host

vars == <<maker, tries, mode, started, kernel, queue, opened, cancel, draining,
          worker, packet, out, partial, host>>

deviceVars == <<maker, tries, mode, started>>
loopVars == <<cancel, draining, worker, packet, out, partial>>

Nobody == "nobody"
NoPacket == [of |-> Nobody, part |-> "none", fits |-> "no"]

\* Event types of the kernel and what parse_event makes of them.
UHID_START == 2
UHID_STOP == 3
UHID_OPEN == 4
UHID_CLOSE == 5
UHID_OUTPUT == 6
UHID_GET_REPORT == 9
UHID_SET_REPORT == 13

EventNames ==
  (UHID_START :> "Start") @@ (UHID_STOP :> "Stop") @@ (UHID_OPEN :> "Open")
  @@ (UHID_CLOSE :> "Close") @@ (UHID_OUTPUT :> "Output")
  @@ (UHID_GET_REPORT :> "GetReport") @@ (UHID_SET_REPORT :> "SetReport")

ParseEvent(type) == IF type \in DOMAIN EventNames THEN EventNames[type] ELSE "Unknown"

Event(type) == [type |-> type, packet |-> NoPacket]

Init ==
  /\ maker = "open" /\ tries = StartTries /\ mode = "block" /\ started = "no"
  /\ kernel = "none" /\ queue = <<>> /\ opened = {}
  /\ cancel = "no" /\ draining = "no" /\ worker = "none" /\ packet = NoPacket
  /\ out = 0 /\ partial = Nobody
  /\ host = [h \in Hosts |-> "quiet"]

-----------------------------------------------------------------------------
(* The kernel and the hosts.                                                *)

Room == Len(queue) < QueueSize

\* An event for which there is no room is dropped.
Offer(e) == queue' = IF Room THEN Append(queue, e) ELSE queue

KernelStart ==
  /\ kernel = "added" /\ kernel' = "running" /\ Offer(Event(UHID_START))
  /\ UNCHANGED <<deviceVars, opened, loopVars, host>>

\* The first host to open and the last one to close the device are announced.
HostOpen(h) ==
  /\ kernel = "running" /\ h \notin opened /\ host[h] = "quiet"
  /\ opened' = opened \cup {h}
  /\ IF opened = {} THEN Offer(Event(UHID_OPEN)) ELSE UNCHANGED queue
  /\ UNCHANGED <<deviceVars, kernel, loopVars, host>>

HostClose(h) ==
  /\ kernel = "running" /\ h \in opened /\ host[h] \in {"answered", "lost"}
  /\ opened' = opened \ {h}
  /\ IF opened = {h} THEN Offer(Event(UHID_CLOSE)) ELSE UNCHANGED queue
  /\ UNCHANGED <<deviceVars, kernel, loopVars, host>>

\* A feature report is asked for; nobody answers it.
HostReport(h, type) ==
  /\ kernel = "running" /\ h \in opened /\ host[h] = "quiet"
  /\ Offer(Event(type))
  /\ UNCHANGED <<deviceVars, kernel, opened, loopVars, host>>

\* A message is one packet, or a first and a last one.  It is owed an answer
\* once all of it is in the queue before the worker is cancelled.
HostWrite(h, part, fits) ==
  /\ kernel = "running" /\ h \in opened
  /\ IF part = "last" THEN host[h] = "half" ELSE host[h] = "quiet"
  /\ Offer([type |-> UHID_OUTPUT, packet |-> [of |-> h, part |-> part, fits |-> fits]])
  /\ host' = [host EXCEPT ![h] =
                IF ~Room \/ fits = "no" THEN "lost"
                ELSE IF part = "first" THEN "half"
                ELSE IF cancel = "no" THEN "owed" ELSE "late"]
  /\ UNCHANGED <<deviceVars, kernel, opened, loopVars>>

-----------------------------------------------------------------------------
(* RawUhidDevice::create and the mode of its file.                          *)

\* Dropped without having started, the file is closed; the device goes with it.
MakerFails == maker' = "failed" /\ kernel' = (IF kernel = "none" THEN "none" ELSE "gone")

\* A name, path or serial number with a zero byte or too long is refused.
ValidIdentity(identity) == identity \notin {"nul", "too long"}

\* One write for a whole event: a short one is an error too.
Written(write) == write = "whole"

\* open and send_create2.
SendCreate2(identity, write) ==
  /\ maker = "open"
  /\ IF ValidIdentity(identity) /\ Written(write)
     THEN maker' = "start" /\ kernel' = "added" ELSE MakerFails
  /\ UNCHANGED <<tries, mode, started, queue, opened, loopVars, host>>

SetNonblocking(on) == mode' = IF on THEN "nonblock" ELSE "block"

\* wait_for_start: the file does not block meanwhile.
WaitForStart ==
  /\ maker = "start" /\ maker' = "waiting" /\ SetNonblocking(TRUE)
  /\ UNCHANGED <<tries, started, kernel, queue, opened, loopVars, host>>

\* One iteration: Open and Start end the wait, any other event is thrown away.
WaitIteration ==
  /\ maker = "waiting"
  /\ queue' = IF queue = <<>> THEN queue ELSE Tail(queue)
  /\ IF queue # <<>> /\ ParseEvent(Head(queue).type) \in {"Open", "Start"}
     THEN maker' = "created" /\ started' = "yes" /\ SetNonblocking(FALSE)
          /\ UNCHANGED <<tries, kernel>>
     ELSE /\ tries' = tries - 1
          /\ IF tries = 1 THEN MakerFails ELSE UNCHANGED <<maker, kernel>>
          /\ UNCHANGED <<started, mode>>
  /\ UNCHANGED <<opened, loopVars, host>>

\* The mode cannot be changed, or a read fails.
WaitFails ==
  /\ maker \in {"start", "waiting"} /\ MakerFails
  /\ UNCHANGED <<tries, mode, started, queue, opened, loopVars, host>>

\* As Spawned, the file left in the mode create leaves it in.
SpawnedBlocking ==
  /\ maker = "created" /\ maker' = "done" /\ worker' = "loop" /\ UNCHANGED mode
  /\ UNCHANGED <<tries, started, kernel, queue, opened, cancel, draining, packet, out,
                 partial, host>>

\* create_and_start_full: set_nonblocking, RawUhidEndpoint::new_nonblocking, spawn.
Spawned ==
  /\ maker = "created" /\ maker' = "done" /\ worker' = "loop" /\ SetNonblocking(TRUE)
  /\ UNCHANGED <<tries, started, kernel, queue, opened, cancel, draining, packet, out,
                 partial, host>>

\* fcntl fails: the device has started, so that its drop sends DESTROY.
SpawnFails ==
  /\ maker = "created" /\ maker' = "failed" /\ started' = "no" /\ kernel' = "gone"
  /\ UNCHANGED <<tries, mode, queue, opened, loopVars, host>>

-----------------------------------------------------------------------------
(* run_loop.                                                                *)

\* WorkerHandle::cancel.
Cancel ==
  /\ worker # "none" /\ cancel = "no" /\ cancel' = "yes"
  /\ UNCHANGED <<deviceVars, kernel, queue, opened, draining, worker, packet, out, partial,
                 host>>

\* The head of the loop; the flag is looked at here and nowhere else.
LoopHead ==
  /\ worker = "loop" /\ worker' = "read" /\ draining' = cancel
  /\ UNCHANGED <<deviceVars, kernel, queue, opened, cancel, packet, out, partial, host>>

\* The thread ends: the endpoint is dropped and with it the device, DESTROY
\* written if it had started, the file closed in any case.
Ends(how) ==
  /\ worker' = how /\ started' = "no" /\ kernel' = "gone"
  /\ UNCHANGED <<maker, tries, mode>>

Goes(where) == worker' = where /\ UNCHANGED <<deviceVars, kernel>>

Readable(e) == ParseEvent(e.type) = "Output" /\ e.packet.fits = "yes"

\* As SkipEvent, giving up this reading instead of going on.
SkipEventReturning ==
  /\ worker = "read" /\ queue # <<>> /\ ~Readable(Head(queue))
  /\ queue' = Tail(queue)
  /\ IF draining = "yes" THEN Ends("drained") ELSE Goes("loop")
  /\ UNCHANGED <<opened, cancel, draining, packet, out, partial, host>>

\* read_packet goes on after any other event and after a report longer than 64
\* bytes, or 65 without a leading zero.
SkipEvent ==
  /\ worker = "read" /\ queue # <<>> /\ ~Readable(Head(queue))
  /\ queue' = Tail(queue) /\ Goes("read")
  /\ UNCHANGED <<opened, cancel, draining, packet, out, partial, host>>

ReadPacket ==
  /\ worker = "read" /\ queue # <<>> /\ Readable(Head(queue))
  /\ queue' = Tail(queue) /\ packet' = Head(queue).packet /\ Goes("process")
  /\ UNCHANGED <<opened, cancel, draining, out, partial, host>>

\* EWOULDBLOCK, in a file that does not block.
ReadNothing ==
  /\ worker = "read" /\ queue = <<>> /\ mode = "nonblock"
  /\ IF draining = "yes" THEN Ends("drained") ELSE Goes("loop")
  /\ UNCHANGED <<queue, opened, cancel, draining, packet, out, partial, host>>

\* A read or a write fails.
Breaks == Ends(IF draining = "yes" THEN "broken" ELSE "failed")

ReadFails ==
  /\ worker = "read" /\ Breaks
  /\ UNCHANGED <<queue, opened, cancel, draining, packet, out, partial, host>>

\* process_packet, for as long as the command takes: a response of one packet or
\* more, or none yet.  A second channel is told that the device is busy.
ProcessPacket(n) ==
  LET h == packet.of IN
  /\ worker = "process"
  /\ IF packet.part = "first" /\ partial = Nobody
     THEN n = 0 /\ partial' = h
     ELSE IF packet.part = "last" /\ partial # h
     THEN n = 0 /\ UNCHANGED partial
     ELSE n > 0 /\ partial' = IF partial = h THEN Nobody ELSE partial
  /\ out' = n /\ Goes(IF n = 0 THEN "loop" ELSE "write")
  /\ host' = [host EXCEPT ![h] = IF n = 0 /\ packet.part = "last" THEN "lost" ELSE @]
  /\ UNCHANGED <<queue, opened, cancel, draining, packet>>

\* An error of the CTAPHID layer is logged, and ends a worker that drains.
ProcessFails ==
  /\ worker = "process"
  /\ IF draining = "yes" THEN Ends("broken") ELSE Goes("loop")
  /\ host' = [host EXCEPT ![packet.of] = IF @ = "answered" THEN @ ELSE "lost"]
  /\ partial' = IF partial = packet.of THEN Nobody ELSE partial
  /\ UNCHANGED <<queue, opened, cancel, draining, packet, out>>

\* One packet as INPUT2; after the last one the hook announces the response,
\* which CeremonySlot takes up.  (Answering the first packet of a message ends
\* it: the device was busy.)
WritePacket ==
  /\ worker = "write" /\ out' = out - 1 /\ Goes(IF out = 1 THEN "loop" ELSE "write")
  /\ host' = IF out = 1 THEN [host EXCEPT ![packet.of] = "answered"] ELSE host
  /\ UNCHANGED <<queue, opened, cancel, draining, packet, partial>>

WriteFails ==
  /\ worker = "write" /\ Breaks
  /\ UNCHANGED <<queue, opened, cancel, draining, packet, out, partial, host>>

-----------------------------------------------------------------------------
MakerStep ==
  \/ \E id \in {"fits", "nul", "too long"}, w \in {"whole", "short", "error"} : SendCreate2(id, w)
  \/ WaitForStart \/ WaitIteration \/ WaitFails \/ Spawned \/ SpawnFails

WorkerRuns ==
  \/ LoopHead \/ SkipEvent \/ ReadPacket \/ ReadNothing
  \/ (\E n \in 0 .. 2 : ProcessPacket(n)) \/ WritePacket

Next ==
  \/ MakerStep \/ WorkerRuns \/ ReadFails \/ ProcessFails \/ WriteFails \/ Cancel \/ KernelStart
  \/ \E h \in Hosts :
       \/ HostOpen(h) \/ HostClose(h)
       \/ \E t \in {UHID_GET_REPORT, UHID_SET_REPORT} : HostReport(h, t)
       \/ \E part \in {"whole", "first", "last"}, f \in {"yes", "no"} : HostWrite(h, part, f)

\* The threads run, and a command comes to an end, since its prompts do.  No
\* call has to fail.
Fairness == WF_vars(MakerStep) /\ WF_vars(WorkerRuns)

Spec == Init /\ [][Next]_vars /\ Fairness

-----------------------------------------------------------------------------
(* Properties.                                                              *)

\* A worker that is cancelled still answers every message that was in the queue
\* by then, whatever else is queued between its packets (opening, closing and
\* feature reports, reports of the wrong length), unless it breaks on the way.
DrainAnswers == worker = "drained" => \A h \in Hosts : host[h] # "owed"

\* A cancelled worker ends, unless the hosts never stop sending: also when none
\* ever writes again, since its file does not block, although create leaves it
\* blocking.
CancelledEnds ==
  \/ []<>(queue # <<>>)
  \/ (cancel = "yes") ~> (worker \in {"drained", "broken", "failed"})
=============================================================================
