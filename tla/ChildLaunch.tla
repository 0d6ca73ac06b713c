----------------------------- MODULE ChildLaunch ----------------------------
(***************************************************************************)
(* How the daemon starts a principal or a browser: the forked child        *)
(* arranges its descriptors, hardens itself and executes the program,      *)
(* while the thread that forked it waits for the spawn to be reported,     *)
(* verifies what it finds in /proc and hands over the capability           *)
(* (launcher.rs: spawn_principal, HardenedChildSetup::apply,               *)
(* close_range_preserving; browser.rs: spawn_browser_hardened,             *)
(* spawn_browser_port_mode).                                               *)
(*                                                                         *)
(* The two run concurrently.  A spawn is reported by the closing of a      *)
(* pipe that the child inherits (external: std::process), and the child    *)
(* closes it when it closes its other descriptors, which is before it has  *)
(* given up its privileges.  The kernel's parent-death signal follows the  *)
(* thread that forked, not the process, and a change of user clears it.    *)
(***************************************************************************)
EXTENDS Naturals, Sequences, FiniteSets
LOCAL INSTANCE SequencesExt

CONSTANTS
    MaxFd,    \* bound: the largest descriptor in use
    NofileCap,\* get_nofile_limit: the limit of open files, at most 4096
    Control   \* CONTROL_FD, CDP_FD_READ: the first descriptor handed over

VARIABLES
    cfg,     \* what is started, and for whom
    fds,     \* descriptor -> what the child has there
    cloexec, \* the child's descriptors that close at exec
    child,   \* the state of the child
    thread,  \* where the launching thread is
    cap,     \* the capability in the child's control socket
    daemon   \* "up" or "down"

vars == <<cfg, fds, cloexec, child, thread, cap, daemon>>

Fds == 0..MaxFd
Stdio == 0..2

SameUser == cfg.user = "same"

(* browser_scope = "profile" leaves a browser unbound; principals are bound *)
Launches ==
    {[what |-> w, user |-> u, bound |-> b, kernel |-> k] :
        w \in {"principal", "pipe", "port"}, u \in {"same", "other"}, b \in {"yes", "no"}, k \in {"new", "old"}}

(* After the fork the child has its standard streams, the pipe that reports *)
(* a failed exec, its end of the control socket or of the CDP pipes, and    *)
(* copies of the daemon's own descriptors, of which some lack O_CLOEXEC.    *)
Init ==
    /\ cfg \in {c \in Launches : c.what = "principal" => c.bound = "yes"}
    /\ \E ends \in {e \in [1..3 -> (Control + 1)..MaxFd] : e[1] < e[2] /\ e[3] # e[1] /\ e[3] # e[2]} :
       \E leaky \in {{}, {MaxFd}} :
         /\ fds = [f \in Fds |-> CASE f = 0 -> "stdin" [] f = 1 -> "stdout" [] f = 2 -> "stderr"
                                   [] f = ends[1] /\ cfg.what # "port" -> "in"
                                   [] f = ends[2] /\ cfg.what = "pipe" -> "out"
                                   [] f = ends[3] -> "report"
                                   [] OTHER -> "daemon"]
         /\ cloexec = {f \in Fds \ Stdio : f \notin leaky \/ f \in {ends[1], ends[2], ends[3]}}
    /\ child = [at |-> 1, uid |-> "daemon", groups |-> "daemon", leader |-> "no", nnp |-> "no",
                limits |-> "no", tied |-> "no", state |-> "forked"]
    /\ thread = "spawning"
    /\ cap = "none"
    /\ daemon = "up"

-----------------------------------------------------------------------------
(* The child, step by step                                                  *)

Where(what) == {f \in Fds : fds[f] = what}

(* dup2 onto the fixed descriptor, and close of the old one *)
Moved(what, to) ==
    [f \in Fds |-> IF f = to THEN what ELSE IF fds[f] = what THEN "closed" ELSE fds[f]]

(* The ranges that are closed, from the preserved descriptors in order: what *)
(* is below the first, between two of them that are not neighbours, and     *)
(* above the last.                                                          *)
Between(s) == {<<s[i] + 1, s[i + 1] - 1>> : i \in {j \in 1..Len(s) - 1 : s[j] + 1 <= s[j + 1] - 1}}

(* mutant: the last range begins with the last descriptor to keep *)
CloseRangesFromLast(s, top) ==
    {<<0, s[1] - 1>> : first \in {s[1]} \ {0}} \cup Between(s) \cup {<<Last(s), top>>}

CloseRanges(s, top) ==
    {<<0, s[1] - 1>> : first \in {s[1]} \ {0}} \cup Between(s) \cup {<<Last(s) + 1, top>>}

(* close_range_preserving.  To learn whether the system call exists it      *)
(* calls close_range(0, 0): where it exists, that closes descriptor 0; on   *)
(* an old kernel the descriptors are closed one by one up to the limit.     *)
ClosePreserving(preserved) ==
    LET new == cfg.kernel = "new"
        ranges == CloseRanges(SetToSortSeq(preserved, <), IF new THEN MaxFd ELSE NofileCap - 1)
        probed == IF new THEN {<<0, 0>>} ELSE {}
    IN [f \in Fds |-> IF \E r \in ranges \cup probed : f \in r[1]..r[2] THEN "closed" ELSE fds[f]]

Handed == CASE cfg.what = "principal" -> {Control} [] cfg.what = "pipe" -> {Control, Control + 1} [] OTHER -> {}
Preserved == Stdio \cup Handed

(* HardenedChildSetup::apply: the order of its system calls *)
Apply ==
    (IF ~SameUser THEN <<"close">> ELSE <<>>) \o <<"setsid">>
        \o (IF cfg.bound = "yes" THEN <<"tie">> ELSE <<>>)
        \o (IF ~SameUser THEN <<"groups", "gid", "uid">> ELSE <<>>) \o <<"nnp">>
        \o (IF ~SameUser THEN <<"limits">> ELSE <<>>)

(* spawn_browser_port_mode for the daemon's own user *)
ApplyTrusted == <<"close", "setsid">> \o (IF cfg.bound = "yes" THEN <<"tie">> ELSE <<>>)

Trusted == cfg.what = "port" /\ SameUser

(* the descriptors first: spawn_principal, spawn_browser_hardened *)
Program ==
    (IF cfg.what = "port" THEN <<>> ELSE <<"dup">>) \o (IF Trusted THEN ApplyTrusted ELSE Apply) \o <<"exec">>

Op == Program[child.at]
Advance(c) == child' = [c EXCEPT !.at = @ + 1]
Stepping(op) == child.state = "forked" /\ Op = op

(* dup2 clears O_CLOEXEC on the new descriptor *)
Dup ==
    /\ Stepping("dup")
    /\ fds' = IF cfg.what = "principal" THEN Moved("in", Control)
              ELSE [f \in Fds |-> CASE f = Control -> "in" [] f = Control + 1 -> "out"
                                    [] fds[f] \in {"in", "out"} -> "closed" [] OTHER -> fds[f]]
    /\ cloexec' = cloexec \ Handed
    /\ Advance(child)
    /\ UNCHANGED <<cfg, thread, cap, daemon>>

Close ==
    /\ Stepping("close")
    /\ fds' = ClosePreserving(Preserved)
    /\ Advance(child)
    /\ UNCHANGED <<cfg, cloexec, thread, cap, daemon>>

Setsid ==
    /\ Stepping("setsid")
    /\ Advance([child EXCEPT !.leader = "yes"])
    /\ UNCHANGED <<cfg, fds, cloexec, thread, cap, daemon>>

Tie ==
    /\ Stepping("tie")
    /\ Advance([child EXCEPT !.tied = "yes"])
    /\ UNCHANGED <<cfg, fds, cloexec, thread, cap, daemon>>

(* setgroups; setgid and setuid, which clear the parent-death signal *)
Groups ==
    /\ Stepping("groups")
    /\ Advance([child EXCEPT !.groups = "none"])
    /\ UNCHANGED <<cfg, fds, cloexec, thread, cap, daemon>>

SetIds ==
    /\ Stepping("gid") \/ Stepping("uid")
    /\ Advance([child EXCEPT !.uid = IF Op = "uid" THEN "target" ELSE @, !.tied = "no"])
    /\ UNCHANGED <<cfg, fds, cloexec, thread, cap, daemon>>

NoNewPrivs ==
    /\ Stepping("nnp")
    /\ Advance([child EXCEPT !.nnp = "yes"])
    /\ UNCHANGED <<cfg, fds, cloexec, thread, cap, daemon>>

Limits ==
    /\ Stepping("limits")
    /\ Advance([child EXCEPT !.limits = "yes"])
    /\ UNCHANGED <<cfg, fds, cloexec, thread, cap, daemon>>

Exec ==
    /\ Stepping("exec")
    /\ fds' = [f \in Fds |-> IF f \in cloexec THEN "closed" ELSE fds[f]]
    /\ cloexec' = {}
    /\ child' = [child EXCEPT !.state = "running"]
    /\ UNCHANGED <<cfg, thread, cap, daemon>>

(* A step fails: the child writes the error into the pipe if it still has   *)
(* it, and exits.                                                           *)
Fails ==
    /\ child.state = "forked"
    /\ child' = [child EXCEPT !.state = IF Where("report") # {} THEN "reported" ELSE "exited"]
    /\ fds' = [f \in Fds |-> "closed"]
    /\ cloexec' = {}
    /\ UNCHANGED <<cfg, thread, cap, daemon>>

Dead == {"reported", "exited", "killed"}
Gone(how) ==
    /\ child' = [child EXCEPT !.state = how]
    /\ fds' = [f \in Fds |-> "closed"]
    /\ cloexec' = {}

Exits == child.state = "running" /\ Gone("exited") /\ UNCHANGED <<cfg, thread, cap, daemon>>

-----------------------------------------------------------------------------
(* The thread that forked                                                   *)

(* Command::spawn returns when the pipe is closed, or with the error in it. *)
SpawnReturns ==
    /\ thread = "spawning"
    /\ Where("report") = {}
    /\ thread' = CASE child.state = "reported" -> "failed"
                   [] cfg.what # "principal" -> "launched"
                   [] OTHER -> "identify"
    /\ UNCHANGED <<cfg, fds, cloexec, child, cap, daemon>>

(* kill_verified_process_group: it reaches the child only as the leader of  *)
(* a group of its own.                                                      *)
GiveUp ==
    /\ thread' = "failed"
    /\ IF child.leader = "yes" /\ child.state \notin Dead THEN Gone("killed") ELSE UNCHANGED <<child, fds, cloexec>>
    /\ UNCHANGED <<cfg, cap, daemon>>

Verify(pc, ok, next) ==
    /\ thread = pc
    /\ \/ ok /\ thread' = next /\ UNCHANGED <<cfg, fds, cloexec, child, cap, daemon>>
       \/ ~ok /\ GiveUp

(* start time and cgroup are there for a child that has already exited; its *)
(* namespaces are not, and for the same user the daemon's are taken.        *)
Identify == Verify("identify", SameUser \/ child.state \notin Dead, "owner")

(* uid and gid: the same user's never change *)
CheckOwner == Verify("owner", SameUser \/ child.uid = "target", "privs")

CheckNnpLater == Verify("privs", TRUE, "sending")
CheckNnp == Verify("privs", child.nnp = "yes", "sending")

(* The daemon keeps its own copy of the child's end of the socket, so the   *)
(* capability is taken by the socket even when the child has gone.          *)
SendCapability ==
    /\ thread = "sending"
    /\ \/ cap' = "sent" /\ thread' = "launched" /\ UNCHANGED <<cfg, fds, cloexec, child, daemon>>
       \/ GiveUp

(* handle_one_admin's worker stays until the principal it launched is gone; *)
(* the worker that launched a browser ends with its request.                *)
WorkerEnds ==
    /\ \/ thread = "failed"
       \/ thread = "launched" /\ (cfg.what = "principal" => child.state \in Dead)
    /\ thread' = "ended"
    /\ UNCHANGED <<cfg, fds, cloexec, child, cap, daemon>>

DaemonEnds ==
    /\ daemon = "up"
    /\ daemon' = "down" /\ thread' = "ended"
    /\ UNCHANGED <<cfg, fds, cloexec, child, cap>>

(* PR_SET_PDEATHSIG: SIGTERM when the thread that forked has ended *)
ParentDeathSignal ==
    /\ thread = "ended" /\ child.tied = "yes" /\ child.state \in {"forked", "running"}
    /\ Gone("killed")
    /\ UNCHANGED <<cfg, thread, cap, daemon>>

-----------------------------------------------------------------------------
ChildStep == Dup \/ Close \/ Setsid \/ Tie \/ Groups \/ SetIds \/ NoNewPrivs \/ Limits \/ Exec \/ Fails \/ Exits

ThreadStep == SpawnReturns \/ Identify \/ CheckOwner \/ CheckNnp \/ SendCapability \/ WorkerEnds

Next == ChildStep \/ ThreadStep \/ DaemonEnds \/ ParentDeathSignal

Spec == Init /\ [][Next]_vars

-----------------------------------------------------------------------------
(* A program runs only after every step of its hardening: its own session,  *)
(* no new privileges (but for the trusted port browser), and, for another   *)
(* user, that user's identity, its limits and none of the daemon's          *)
(* descriptors, whichever of them lacks O_CLOEXEC.  On an old kernel the    *)
(* ones at and above get_nofile_limit are not reached by the loop.          *)
RunsHardened ==
    child.state = "running" =>
        /\ child.leader = "yes"
        /\ child.nnp = "yes" \/ Trusted
        /\ SameUser \/ /\ child.uid = "target" /\ child.groups = "none" /\ child.limits = "yes"
                       /\ \A f \in Where("daemon") : cfg.kernel = "old" /\ f >= NofileCap

(* The capability is given only to a child that has already given up what   *)
(* it must: the spawn returns while the child is still hardening itself, so *)
(* the checks of spawn_principal, not the spawn, decide.                    *)
CapabilityToHardened ==
    cap = "sent" => child.nnp = "yes" /\ (SameUser \/ child.uid = "target")

(* A program that runs has every descriptor that was transferred to it, its *)
(* control socket or the pipes of the browser included, but perhaps its     *)
(* standard input, which the probe of a new kernel closes.                  *)
TransferredButStdin ==
    child.state = "running" => \A f \in Preserved : fds[f] = "closed" => f = 0 /\ cfg.kernel = "new"

(* "preserved_fds must contain only descriptors intentionally transferred   *)
(* to the principal": a program that runs has every descriptor transferred. *)
TransferredDescriptorsOpen ==
    child.state = "running" => \A f \in Preserved : fds[f] # "closed"

(* A browser launched for a session lives until the session's cleanup: it   *)
(* does not end while the daemon is up and nobody has ended it.             *)
BrowserOutlivesRequest ==
    (cfg.what # "principal" /\ daemon = "up") => child.state # "killed"

=============================================================================
