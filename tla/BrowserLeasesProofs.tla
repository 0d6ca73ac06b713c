------------------------ MODULE BrowserLeasesProofs ------------------------
(***************************************************************************)
(* Proofs about the browsers of a profile, for every number of leases,     *)
(* sessions and administrators, and whatever calls fail.                   *)
(***************************************************************************)
EXTENDS BrowserLeases, TLAPS

-----------------------------------------------------------------------------
(* The threads.                                                             *)

\* One thread moves.
LEMMA GoDoes ==
  ASSUME TypeOK, NEW t \in Threads, NEW r, Go(t, r)
  PROVE  /\ th' = [u \in Threads |-> th'[u]]
         /\ th'[t] = r
         /\ \A u \in Threads : u # t => th'[u] = th[u]
BY DEF TypeOK, Go

\* The threads have names of their own.
LEMMA Names ==
  /\ P \in Threads /\ "loop" \in Threads /\ "main" \in Threads /\ Admins \subseteq Threads
  /\ P # "loop" /\ P # "main" /\ "loop" # "main" /\ "free" \notin Threads
  /\ \A t \in Admins : t # P /\ t # "loop" /\ t # "main"
BY BrowserNamesAssumption DEF Threads, P

\* What a request of a principal has in hand.
LEMMA EnsurerShape ==
  ASSUME NEW r \in Ensurer
  PROVE  /\ r.pc \in AtWork \cup {"idle", "checked", "verified"}
         /\ r.pc \notin {"ending", "detach", "kill"}
         /\ r.pc = "idle" => r = Idle
         /\ r.pc \in {"checked", "verified", "shared", "unshare", "own", "disown", "launch"} =>
              r.s \in Sessions /\ r = [pc |-> r.pc, s |-> r.s]
         /\ r.pc \in {"attach", "insert", "finish", "record", "share"} =>
              r.s \in Sessions /\ r.l \in Leases /\ r = [pc |-> r.pc, s |-> r.s, l |-> r.l]
BY DEF Ensurer, AtWork, Idle

\* What a thread that serves an administrator has in hand.
LEMMA AdminShape ==
  ASSUME NEW r \in Admin
  PROVE  /\ r.pc \in {"idle", "find", "adminlaunch", "drain", "unshare", "killall", "ending", "detach", "kill"}
         /\ r.pc = "idle" => r = Idle
         /\ r.pc \in {"unshare", "killall"} =>
              /\ r.why \in {"reload", "disable"} /\ r.todo \subseteq Leases
              /\ r = [pc |-> r.pc, why |-> r.why, todo |-> r.todo]
         /\ r.pc = "drain" => r.why \in {"reload", "disable"} /\ r = [pc |-> "drain", why |-> r.why]
         /\ r.pc \in {"ending", "detach", "kill"} => r \in Ender
BY DEF Admin, Ender, Idle

\* What a thread that ends sessions has in hand.
LEMMA EnderShape ==
  ASSUME NEW r \in Ender
  PROVE  /\ r.pc \in {"ending", "detach", "kill"} /\ r.ending \subseteq Sessions
         /\ r.pc = "ending" => r = [pc |-> "ending", ending |-> r.ending]
         /\ r.pc = "detach" => r.s \in Sessions
         /\ r.pc = "kill" => r.l \in Leases
BY DEF Ender

\* What the runtime loop has in hand.
LEMMA LoopShape ==
  ASSUME NEW r \in Loop
  PROVE  /\ r.pc \in Looping \cup {"idle", "ending", "detach", "kill"}
         /\ r.pc = "idle" => r = Idle
         /\ r.pc \in Looping => r.todo \subseteq Leases
         /\ r.pc \in {"exits", "expired"} => r = [pc |-> r.pc, todo |-> r.todo]
         /\ r.pc = "forget" => r.l \in Leases /\ r.back \in {"exits", "expired"} /\ r.cleared \in {"no", "yes"}
         /\ r.pc = "expire" => r.over \subseteq Leases /\ r = [pc |-> "expire", todo |-> r.todo, over |-> r.over]
         /\ r.pc \in {"ending", "detach", "kill"} => r \in Ender
BY DEF Loop, Ender, Idle, Looping

\* What the thread that shuts down has in hand.
LEMMA MainShape ==
  ASSUME NEW r \in Main
  PROVE  /\ r.pc \in {"idle", "join", "terminate", "stopped", "ending", "detach", "kill"}
         /\ r.pc = "idle" => r = Idle
         /\ r.pc \in {"ending", "detach", "kill"} => r \in Ender
BY DEF Main, Ender, Idle

\* The threads of an inductive state, by kind.
LEMMA Shapes ==
  ASSUME TypeOK
  PROVE  /\ th[P] \in Ensurer /\ th["loop"] \in Loop /\ th["main"] \in Main
         /\ \A t \in Admins : th[t] \in Admin
         /\ \A t \in Threads : th[t].pc \in {"ending", "detach", "kill"} => th[t] \in Ender /\ t # P
         /\ \A t \in Threads : th[t].pc = "idle" => th[t] = Idle
         /\ \A t \in Threads : t \notin Admins => th[t].pc \notin {"killall", "adminlaunch"}
<1>1. th[P] \in Ensurer /\ th["loop"] \in Loop /\ th["main"] \in Main /\ \A t \in Admins : th[t] \in Admin
  BY DEF TypeOK, P
<1>2. \A t \in Threads : t = P \/ t = "loop" \/ t = "main" \/ t \in Admins
  BY DEF Threads, P
<1>3. th[P].pc \notin {"ending", "detach", "kill", "killall", "adminlaunch"} /\ (th[P].pc = "idle" => th[P] = Idle)
  BY <1>1, EnsurerShape DEF AtWork
<1>4. /\ th["loop"].pc \in {"ending", "detach", "kill"} => th["loop"] \in Ender
      /\ th["loop"].pc = "idle" => th["loop"] = Idle
      /\ th["loop"].pc \notin {"killall", "adminlaunch"}
  BY <1>1, LoopShape DEF Looping
<1>5. /\ th["main"].pc \in {"ending", "detach", "kill"} => th["main"] \in Ender
      /\ th["main"].pc = "idle" => th["main"] = Idle
      /\ th["main"].pc \notin {"killall", "adminlaunch"}
  BY <1>1, MainShape
<1>6. \A t \in Admins : /\ th[t].pc \in {"ending", "detach", "kill"} => th[t] \in Ender
                        /\ th[t].pc = "idle" => th[t] = Idle
  BY <1>1, AdminShape
<1> QED BY <1>1, <1>2, <1>3, <1>4, <1>5, <1>6, Names

\* What the threads have in hand is of the right kind.
FieldsOK ==
  /\ th[P].pc \in {"checked", "verified"} \cup AtWork => th[P].s \in Sessions
  /\ th[P].pc \in {"attach", "insert", "finish", "record", "share"} => th[P].l \in Leases
  /\ th[P].pc \notin {"ending", "detach", "kill"}
  /\ th["loop"].pc \in Looping => th["loop"].todo \subseteq Leases
  /\ th["loop"].pc = "forget" => th["loop"].l \in Leases
  /\ th["loop"].pc = "expire" => th["loop"].over \subseteq Leases
  /\ \A t \in Threads : th[t].pc \in {"ending", "detach", "kill"} => th[t].ending \subseteq Sessions
  /\ \A t \in Threads : th[t].pc = "detach" => th[t].s \in Sessions
  /\ \A t \in Threads : th[t].pc = "kill" => th[t].l \in Leases
  /\ \A s \in Sessions : active[s] \in Leases \cup {None}
  /\ shared.lease \in Leases \cup {None} /\ shared.attached \subseteq Sessions
  /\ None \notin Leases /\ Running \subseteq Leases

\* From the type invariant.
LEMMA Fields == TypeOK => FieldsOK
<1> SUFFICES ASSUME TypeOK PROVE FieldsOK
  OBVIOUS
<1>1. /\ th[P].pc \in {"checked", "verified"} \cup AtWork => th[P].s \in Sessions
      /\ th[P].pc \in {"attach", "insert", "finish", "record", "share"} => th[P].l \in Leases
      /\ th[P].pc \notin {"ending", "detach", "kill"}
  BY Shapes, EnsurerShape DEF AtWork
<1>2. /\ th["loop"].pc \in Looping => th["loop"].todo \subseteq Leases
      /\ th["loop"].pc = "forget" => th["loop"].l \in Leases
      /\ th["loop"].pc = "expire" => th["loop"].over \subseteq Leases
  BY Shapes, LoopShape
<1>3. \A t \in Threads :
        /\ th[t].pc \in {"ending", "detach", "kill"} => th[t].ending \subseteq Sessions
        /\ th[t].pc = "detach" => th[t].s \in Sessions
        /\ th[t].pc = "kill" => th[t].l \in Leases
  BY Shapes, EnderShape
<1>4. (\A s \in Sessions : active[s] \in Leases \cup {None}) /\ None \notin Leases
      /\ shared.lease \in Leases \cup {None} /\ shared.attached \subseteq Sessions
  BY BrowserNamesAssumption DEF TypeOK, None
<1> QED BY <1>1, <1>2, <1>3, <1>4 DEF FieldsOK, Running

-----------------------------------------------------------------------------
(* What the operations of the manager do.                                   *)

\* revoke_by_lease.
LEMMA RevokeDoes ==
  ASSUME TypeOK, NEW L, RevokeByLease(L)
  PROVE  /\ token' \in [Leases -> {"none", "registration", "signing"}]
         /\ \A k \in Leases : token'[k] = "signing" <=> token[k] = "signing" /\ k \notin L
         /\ \A k \in Leases : token'[k] = "none" <=> token[k] = "none"
BY DEF TypeOK, RevokeByLease

\* Stopping a browser: whatever happens to its process, it no longer runs
\* without an excuse.
LEMMA StopDoes ==
  ASSUME IInv, NEW l \in Leases, Stop(l)
  PROVE  /\ proc' \in [Leases -> {"unborn", "running", "zombie", "gone"}]
         /\ \A k \in Leases : proc'[k] = "unborn" <=> proc[k] = "unborn"
         /\ Running' = Running \ {l} /\ Ended \subseteq Ended'
         /\ proc[l] # "unborn" => l \in Ended'
<1>1. PICK p \in AfterTerminate(l) :
        /\ proc' = [proc EXCEPT ![l] = p]
        /\ IF Exists(l) /\ p = "running" /\ lease[l].child = "held"
           THEN faults' = faults + 1 /\ slips' = slips \cup {<<"unkillable", l>>}
           ELSE UNCHANGED <<faults, slips>>
  BY DEF Stop
<1>2. p \in {proc[l], "gone"}
  BY <1>1 DEF AfterTerminate, OutOfReach
<1>3. proc' \in [Leases -> {"unborn", "running", "zombie", "gone"}] /\ proc'[l] = p
      /\ \A k \in Leases : k # l => proc'[k] = proc[k]
  BY <1>1, <1>2 DEF IInv, TypeOK
<1>4. proc[l] = "unborn" => p = "unborn"
  BY <1>1 DEF AfterTerminate, IInv, Known, Exists
<1>5. slips \subseteq slips' /\ \A k \in Leases : \A why : k # l => (<<why, k>> \in slips' <=> <<why, k>> \in slips)
  BY <1>1
<1>6. \A k \in Leases : (Excused(k) => Excused(k)') /\ (k # l => (Excused(k)' <=> Excused(k)))
  BY <1>5 DEF Excused
<1>7. p = "running" => Excused(l)'
  <2> SUFFICES ASSUME p = "running" PROVE Excused(l)'
    OBVIOUS
  <2>1. proc[l] = "running"
    BY <1>2
  <2>2. CASE Excused(l)
    BY <2>2, <1>6
  <2>3. CASE ~Excused(l)
    <3>1. Exists(l) /\ lease[l].child = "held"
      BY <2>1, <2>3 DEF IInv, BrowsersAreOwned, Running
    <3>2. <<"unkillable", l>> \in slips'
      BY <3>1, <1>1
    <3> QED BY <3>2 DEF Excused
  <2> QED BY <2>2, <2>3
<1>8. Running' = Running \ {l}
  BY <1>3, <1>6, <1>7 DEF Running
<1>9. Ended \subseteq Ended'
  BY <1>2, <1>3, <1>6 DEF Ended
<1>10. proc[l] # "unborn" => l \in Ended'
  BY <1>2, <1>3, <1>7 DEF Ended, IInv, TypeOK
<1> QED BY <1>2, <1>3, <1>4, <1>8, <1>9, <1>10

\* revoke, terminate, cleanup and remove.
LEMMA DiscardDoes ==
  ASSUME IInv, NEW l \in Leases, Discard(l)
  PROVE  /\ lease' \in [Leases -> Lease \cup {NoLease}]
         /\ lease'[l] = NoLease /\ \A k \in Leases : k # l => lease'[k] = lease[k]
         /\ proc' \in [Leases -> {"unborn", "running", "zombie", "gone"}]
         /\ \A k \in Leases : proc'[k] = "unborn" <=> proc[k] = "unborn"
         /\ Running' = Running \ {l} /\ Ended \subseteq Ended'
BY StopDoes DEF Discard, IInv, TypeOK

\* A launch: a new browser, one that nobody holds, or none.
LEMMA LaunchDoes ==
  ASSUME IInv, NEW l \in Leases, NEW by \in {"principal", "admin"}, NEW outcome \in {"ok", "stray", "refused"},
         Launch(l, by, outcome)
  PROVE  /\ lease' \in [Leases -> Lease \cup {NoLease}]
         /\ \A k \in Leases : k # l => lease'[k] = lease[k]
         /\ proc' \in [Leases -> {"unborn", "running", "zombie", "gone"}]
         /\ \A k \in Leases : proc'[k] = "unborn" => proc[k] = "unborn"
         /\ Ended \subseteq Ended'
         /\ outcome # "refused" => proc[l] = "unborn" /\ proc'[l] = "running"
         /\ outcome = "ok" =>
              /\ lease'[l] # NoLease /\ lease'[l].state = "pending" /\ lease'[l].child = "held" /\ lease'[l].by = by
              /\ Running' \subseteq Running \cup {l} /\ (daemon = "stopped" => l \notin Running')
         /\ outcome # "ok" => Running' = Running /\ lease' = lease
<1>1. /\ lease' = [lease EXCEPT ![l] =
             IF outcome = "ok"
             THEN [state |-> "pending", child |-> "held", reaped |-> "no", due |-> "no", by |-> by]
             ELSE @]
      /\ proc' = [proc EXCEPT ![l] = IF outcome \in {"stray", "ok"} THEN "running" ELSE @]
      /\ outcome # "refused" => proc[l] = "unborn"
  BY DEF Launch
<1>2. \A k \in Leases : /\ Excused(k) => Excused(k)'
                        /\ k # l \/ outcome = "refused" => (Excused(k)' <=> Excused(k))
                        /\ outcome = "stray" \/ (outcome = "ok" /\ daemon = "stopped") => Excused(l)'
  BY DEF Launch, Excused
<1>3. /\ lease' \in [Leases -> Lease \cup {NoLease}]
      /\ \A k \in Leases : k # l => lease'[k] = lease[k]
      /\ proc' \in [Leases -> {"unborn", "running", "zombie", "gone"}]
      /\ \A k \in Leases : k # l => proc'[k] = proc[k]
      /\ outcome # "refused" => proc'[l] = "running"
      /\ outcome = "refused" => proc' = proc
      /\ outcome # "ok" => lease' = lease
  BY <1>1 DEF IInv, TypeOK, Lease, LeaseStates, LiveStates
<1>4. outcome = "ok" =>
        /\ lease'[l] # NoLease /\ lease'[l].state = "pending" /\ lease'[l].child = "held" /\ lease'[l].by = by
  BY <1>1 DEF IInv, TypeOK, NoLease
<1>5. Ended \subseteq Ended'
  BY <1>1, <1>2, <1>3 DEF Ended
<1>6. /\ outcome = "ok" => Running' \subseteq Running \cup {l} /\ (daemon = "stopped" => l \notin Running')
      /\ outcome # "ok" => Running' = Running
  BY <1>1, <1>2, <1>3 DEF Running
<1> QED BY <1>1, <1>3, <1>4, <1>5, <1>6

-----------------------------------------------------------------------------
(* Every step keeps the invariant.                                          *)

\* A browser exits by itself.
LEMMA BrowserExitsInv ==
  ASSUME IInv, NEW l \in Leases, BrowserExits(l)
  PROVE  IInv'
<1>1. /\ proc' = [proc EXCEPT ![l] = "zombie"] /\ proc[l] = "running"
      /\ proc' \in [Leases -> {"unborn", "running", "zombie", "gone"}]
      /\ \A k \in Leases : proc'[k] = "unborn" <=> proc[k] = "unborn"
      /\ UNCHANGED <<scope, lease, token, active, shared, sess, enabled, th, lifecycle, mgr, managed, daemon, slips>>
  BY DEF BrowserExits, IInv, TypeOK, locks
<1>2. FieldsOK
  BY Fields DEF IInv
<1>3. Running' = Running \ {l} /\ Ended \subseteq Ended' /\ Doomed' = Doomed
  BY <1>1, Names DEF Running, Ended, Excused, Doomed, IInv, TypeOK
<1>4. InHand' = InHand
  BY <1>1, <1>2, <1>3, Names DEF InHand, Idle
<1>a. TypeOK'
  BY <1>1, Names DEF IInv, TypeOK, P
<1>b. LocksHeld'
  BY <1>1, Names DEF IInv, LocksHeld, Idle, AtWork, Looping
<1>c. Known'
  BY <1>1, <1>2, Names DEF IInv, FieldsOK, Known, Idle
<1>d. TokensTaken' /\ TokensDieWithLease'
  BY <1>1, <1>2, Names DEF IInv, FieldsOK, TokensTaken, TokensDieWithLease, Idle, Exists, LiveStates, NoLease
<1>e. Ensuring'
  BY <1>1, <1>2, <1>3, Names DEF IInv, FieldsOK, AtWork, Ensuring, Idle, NoShared
<1>f. Sharing'
  BY <1>1, <1>2, <1>3, Names, SMTT(30) DEF IInv, FieldsOK, AtWork, Sharing, TypeOK, Idle, NoShared
<1>l. Leaving'
  BY <1>1, <1>2, Names DEF IInv, FieldsOK, Leaving, Idle
<1>g. LoopEnded'
  BY <1>1, <1>2, <1>3, Names DEF IInv, FieldsOK, LoopEnded, Idle
<1>h. BrowsersAreOwned'
  BY <1>1, <1>2, <1>3, <1>4, Names DEF IInv, FieldsOK, BrowsersAreOwned, Exists
<1> QED BY <1>a, <1>b, <1>c, <1>d, <1>e, <1>f, <1>l, <1>g, <1>h DEF IInv

\* The deadline of a lease passes.
LEMMA DeadlinePassesInv ==
  ASSUME IInv, NEW l \in Leases, DeadlinePasses(l)
  PROVE  IInv'
<1>1. /\ lease' \in [Leases -> Lease \cup {NoLease}] /\ \A k \in Leases : k # l => lease'[k] = lease[k]
      /\ lease[l] # NoLease /\ lease'[l] # NoLease
      /\ lease'[l].state = lease[l].state /\ lease'[l].child = lease[l].child /\ lease'[l].due = "yes" /\ lease'[l].by = lease[l].by
      /\ UNCHANGED <<scope, proc, token, active, shared, sess, enabled, th, lifecycle, mgr, managed, daemon, slips>>
  BY DEF DeadlinePasses, IInv, TypeOK, locks, IsLive, Exists, Lease, NoLease
<1>2. FieldsOK
  BY Fields DEF IInv
<1>3. Running' = Running /\ Ended' = Ended /\ Doomed' = Doomed
  BY <1>1, Names DEF Running, Ended, Excused, Doomed
<1>4. InHand' = InHand
  BY <1>1, <1>2, <1>3, Names DEF InHand, Idle
<1>a. TypeOK'
  BY <1>1, Names DEF IInv, TypeOK, P
<1>b. LocksHeld'
  BY <1>1, Names DEF IInv, LocksHeld, Idle, AtWork, Looping
<1>c. Known'
  BY <1>1, <1>2, Names DEF IInv, FieldsOK, Known, Idle
<1>d. TokensTaken' /\ TokensDieWithLease'
  BY <1>1, <1>2, Names DEF IInv, FieldsOK, TokensTaken, TokensDieWithLease, Idle, Exists, LiveStates, NoLease
<1>e. Ensuring'
  BY <1>1, <1>2, <1>3, Names DEF IInv, FieldsOK, AtWork, Ensuring, Idle, NoShared
<1>f. Sharing'
  BY <1>1, <1>2, <1>3, Names, SMTT(30) DEF IInv, FieldsOK, AtWork, Sharing, TypeOK, Idle, NoShared
<1>l. Leaving'
  BY <1>1, <1>2, Names DEF IInv, FieldsOK, Leaving, Idle
<1>g. LoopEnded'
  BY <1>1, <1>2, <1>3, Names DEF IInv, FieldsOK, LoopEnded, Idle
<1>h. BrowsersAreOwned'
  BY <1>1, <1>2, <1>3, <1>4, Names DEF IInv, FieldsOK, BrowsersAreOwned, Exists
<1> QED BY <1>a, <1>b, <1>c, <1>d, <1>e, <1>f, <1>l, <1>g, <1>h DEF IInv

\* AssertionActivatingKeyProvider.sign activates a pending lease.
LEMMA ActivateAfterAssertionInv ==
  ASSUME IInv, NEW l \in Leases, ActivateAfterAssertion(l)
  PROVE  IInv'
<1>1. /\ lease' \in [Leases -> Lease \cup {NoLease}] /\ \A k \in Leases : k # l => lease'[k] = lease[k]
      /\ lease[l] # NoLease /\ lease'[l] # NoLease /\ mgr = "free"
      /\ lease'[l].state = "active" /\ lease'[l].child = lease[l].child /\ lease'[l].due = lease[l].due /\ lease'[l].by = lease[l].by
      /\ UNCHANGED <<scope, proc, token, active, shared, sess, enabled, th, lifecycle, mgr, managed, daemon, slips>>
  BY DEF ActivateAfterAssertion, IInv, TypeOK, locks, Exists, Lease, NoLease, LeaseStates, LiveStates
<1>2. FieldsOK
  BY Fields DEF IInv
<1>3. Running' = Running /\ Ended' = Ended /\ Doomed' = Doomed
  BY <1>1, Names DEF Running, Ended, Excused, Doomed
<1>4. InHand' = InHand
  BY <1>1, <1>2, <1>3, Names DEF InHand, Idle
<1>a. TypeOK'
  BY <1>1, Names DEF IInv, TypeOK, P
<1>b. LocksHeld'
  BY <1>1, Names DEF IInv, LocksHeld, Idle, AtWork, Looping
<1>c. Known'
  BY <1>1, <1>2, Names DEF IInv, FieldsOK, Known, Idle
<1>d. TokensTaken' /\ TokensDieWithLease'
  BY <1>1, <1>2, Names DEF IInv, FieldsOK, TokensTaken, TokensDieWithLease, Idle, Exists, LiveStates, NoLease, LocksHeld, AtWork
<1>e. Ensuring'
  BY <1>1, <1>2, <1>3, Names DEF IInv, FieldsOK, AtWork, Ensuring, Idle, NoShared
<1>f. Sharing'
  BY <1>1, <1>2, <1>3, Names, SMTT(30) DEF IInv, FieldsOK, AtWork, Sharing, TypeOK, Idle, NoShared
<1>l. Leaving'
  BY <1>1, <1>2, Names DEF IInv, FieldsOK, Leaving, Idle
<1>g. LoopEnded'
  BY <1>1, <1>2, <1>3, Names DEF IInv, FieldsOK, LoopEnded, Idle
<1>h. BrowsersAreOwned'
  BY <1>1, <1>2, <1>3, <1>4, Names DEF IInv, FieldsOK, BrowsersAreOwned, Exists
<1> QED BY <1>a, <1>b, <1>c, <1>d, <1>e, <1>f, <1>l, <1>g, <1>h DEF IInv

\* A request for a browser arrives.
LEMMA EnsureBeginInv ==
  ASSUME IInv, NEW s \in Sessions, EnsureBegin(s)
  PROVE  IInv'
<1>1. /\ th[P].pc = "idle" /\ th'[P] = [pc |-> "checked", s |-> s]
      /\ th' = [u \in Threads |-> th'[u]] /\ \A u \in Threads : u # P => th'[u] = th[u]
      /\ UNCHANGED <<scope, lease, proc, token, active, shared, sess, enabled, lifecycle, mgr, managed, daemon, slips>>
  BY GoDoes, Names DEF EnsureBegin, Ensure, IInv, locks
<1>2. FieldsOK
  BY Fields DEF IInv
<1>3. Running' = Running /\ Ended' = Ended /\ Doomed' = Doomed
  BY <1>1, Names DEF Running, Ended, Excused, Doomed
<1>4. InHand' = InHand
  BY <1>1, <1>2, <1>3, Names DEF InHand, Idle
<1>a. TypeOK'
  BY <1>1, Names, SMTT(30) DEF IInv, TypeOK, P, Ensurer
<1>b. LocksHeld'
  BY <1>1, Names DEF IInv, LocksHeld, Idle, AtWork, Looping
<1>c. Known'
  BY <1>1, <1>2, Names DEF IInv, FieldsOK, Known, Idle
<1>d. TokensTaken' /\ TokensDieWithLease'
  BY <1>1, <1>2, Names DEF IInv, FieldsOK, TokensTaken, TokensDieWithLease, Idle, Exists, LiveStates, NoLease
<1>e. Ensuring'
  BY <1>1, <1>2, <1>3, Names DEF IInv, FieldsOK, AtWork, Ensuring, Idle, NoShared
<1>f. Sharing'
  BY <1>1, <1>2, <1>3, Names, SMTT(30) DEF IInv, FieldsOK, AtWork, Sharing, TypeOK, Idle, NoShared
<1>l. Leaving'
  BY <1>1, <1>2, Names DEF IInv, FieldsOK, Leaving, Idle
<1>g. LoopEnded'
  BY <1>1, <1>2, <1>3, Names DEF IInv, FieldsOK, LoopEnded, Idle
<1>h. BrowsersAreOwned'
  BY <1>1, <1>2, <1>3, <1>4, Names DEF IInv, FieldsOK, BrowsersAreOwned, Exists
<1> QED BY <1>a, <1>b, <1>c, <1>d, <1>e, <1>f, <1>l, <1>g, <1>h DEF IInv

\* The capability of the request is looked up.
LEMMA EnsureVerifyInv ==
  ASSUME IInv, EnsureVerify
  PROVE  IInv'
<1>0. PICK s : s = th[P].s
  OBVIOUS
<1>1. /\ th[P].pc = "checked" /\ s \in Sessions /\ managed = "free"
      /\ \/ th'[P] = [pc |-> "verified", s |-> s] /\ managed' = P /\ sess[s] = "live"
         \/ th'[P] = Idle /\ managed' = managed
      /\ th' = [u \in Threads |-> th'[u]] /\ \A u \in Threads : u # P => th'[u] = th[u]
      /\ UNCHANGED <<scope, lease, proc, token, active, shared, sess, enabled, lifecycle, mgr, daemon, slips>>
 <2>1. th[P].pc = "checked" /\ s \in Sessions /\ th[P] = [pc |-> "checked", s |-> s]
    BY <1>0, Shapes, EnsurerShape DEF EnsureVerify, Ensure, IInv
  <2>2. CASE sess[s] = "live"
    <3>1. Go(P, [pc |-> "verified", s |-> s])
      BY <1>0, <2>1, <2>2 DEF EnsureVerify
    <3> QED BY <1>0, <2>1, <2>2, <3>1, GoDoes, Names DEF EnsureVerify, IInv
  <2>3. CASE sess[s] # "live"
    BY <1>0, <2>1, <2>3, GoDoes, Names DEF EnsureVerify, IInv
  <2> QED BY <2>2, <2>3
<1>2. FieldsOK
  BY Fields DEF IInv
<1>3. Running' = Running /\ Ended' = Ended /\ Doomed' = Doomed
  BY <1>0, <1>1, Names DEF Running, Ended, Excused, Doomed
<1>4. InHand' = InHand
  BY <1>0, <1>1, <1>2, <1>3, Names DEF InHand, Idle
<1>a. TypeOK'
  BY <1>0, <1>1, Names, SMTT(30) DEF IInv, TypeOK, P, Ensurer, Idle
<1>b. LocksHeld'
  BY <1>0, <1>1, Names DEF IInv, LocksHeld, Idle, AtWork, Looping
<1>c. Known'
  BY <1>0, <1>1, <1>2, Names DEF IInv, FieldsOK, Known, Idle
<1>d. TokensTaken' /\ TokensDieWithLease'
  BY <1>0, <1>1, <1>2, Names DEF IInv, FieldsOK, TokensTaken, TokensDieWithLease, Idle, Exists, LiveStates, NoLease
<1>e. Ensuring'
  BY <1>0, <1>1, <1>2, <1>3, Names DEF IInv, FieldsOK, AtWork, Ensuring, Idle, NoShared
<1>f. Sharing'
  BY <1>0, <1>1, <1>2, <1>3, Names, SMTT(30) DEF IInv, FieldsOK, AtWork, Sharing, TypeOK, Idle, NoShared
<1>l. Leaving'
  BY <1>0, <1>1, <1>2, Names DEF IInv, FieldsOK, Leaving, Idle
<1>g. LoopEnded'
  BY <1>0, <1>1, <1>2, <1>3, Names DEF IInv, FieldsOK, LoopEnded, Idle
<1>h. BrowsersAreOwned'
  BY <1>0, <1>1, <1>2, <1>3, <1>4, Names DEF IInv, FieldsOK, BrowsersAreOwned, Exists
<1> QED BY <1>a, <1>b, <1>c, <1>d, <1>e, <1>f, <1>l, <1>g, <1>h DEF IInv

\* The request takes lifecycle_lock and browser_manager.
LEMMA EnsureLockInv ==
  ASSUME IInv, EnsureLock
  PROVE  IInv'
<1>0. PICK s : s = th[P].s
  OBVIOUS
<1>1. /\ th[P].pc = "verified" /\ s \in Sessions /\ lifecycle = "free" /\ mgr = "free" /\ lifecycle' = P /\ mgr' = P
      /\ \/ th'[P] = [pc |-> "shared", s |-> s] /\ scope = "profile"
         \/ th'[P] = [pc |-> "own", s |-> s] /\ scope = "session"
      /\ th' = [u \in Threads |-> th'[u]] /\ \A u \in Threads : u # P => th'[u] = th[u]
      /\ UNCHANGED <<scope, lease, proc, token, active, shared, sess, enabled, managed, daemon, slips>>
 <2>1. th[P].pc = "verified" /\ s \in Sessions /\ th[P] = [pc |-> "verified", s |-> s]
    BY <1>0, Shapes, EnsurerShape DEF EnsureLock, Ensure, IInv
  <2>2. scope \in {"session", "profile"}
    BY ScopesAssumption DEF IInv, TypeOK
  <2>3. Go(P, [pc |-> IF scope = "profile" THEN "shared" ELSE "own", s |-> s])
    BY <2>1 DEF EnsureLock
  <2> QED BY <2>1, <2>2, <2>3, GoDoes, Names DEF EnsureLock, IInv
<1>2. FieldsOK
  BY Fields DEF IInv
<1>3. Running' = Running /\ Ended' = Ended /\ Doomed' = Doomed
  BY <1>0, <1>1, Names DEF Running, Ended, Excused, Doomed
<1>4. InHand' = InHand
  BY <1>0, <1>1, <1>2, <1>3, Names DEF InHand, Idle
<1>a. TypeOK'
  BY <1>0, <1>1, Names, SMTT(30) DEF IInv, TypeOK, P, Ensurer
<1>b. LocksHeld'
  BY <1>0, <1>1, Names DEF IInv, LocksHeld, Idle, AtWork, Looping
<1>c. Known'
  BY <1>0, <1>1, <1>2, Names DEF IInv, FieldsOK, Known, Idle
<1>d. TokensTaken' /\ TokensDieWithLease'
  BY <1>0, <1>1, <1>2, Names DEF IInv, FieldsOK, TokensTaken, TokensDieWithLease, Idle, Exists, LiveStates, NoLease
<1>e. Ensuring'
  BY <1>0, <1>1, <1>2, <1>3, Names DEF IInv, FieldsOK, AtWork, Ensuring, Idle, NoShared, Sharing
<1>f. Sharing'
  BY <1>0, <1>1, <1>2, <1>3, Names, SMTT(30) DEF IInv, FieldsOK, AtWork, Sharing, TypeOK, Idle, NoShared
<1>l. Leaving'
  BY <1>0, <1>1, <1>2, Names DEF IInv, FieldsOK, Leaving, Idle
<1>g. LoopEnded'
  BY <1>0, <1>1, <1>2, <1>3, Names DEF IInv, FieldsOK, LoopEnded, Idle
<1>h. BrowsersAreOwned'
  BY <1>0, <1>1, <1>2, <1>3, <1>4, Names DEF IInv, FieldsOK, BrowsersAreOwned, Exists
<1> QED BY <1>a, <1>b, <1>c, <1>d, <1>e, <1>f, <1>l, <1>g, <1>h DEF IInv

\* A shared entry without a browser is the empty one.
LEMMA SharedNone ==
  ASSUME TypeOK, Sharing, shared.lease = None
  PROVE  shared = NoShared
BY DEF TypeOK, Sharing, NoShared

\* No browser is shared: the session gets one of its own.
LEMMA EnsureSharedNone ==
  ASSUME IInv, EnsureShared, shared.lease = None
  PROVE  IInv'
<1>0. PICK s : s = th[P].s
  OBVIOUS
<1>1. /\ th[P].pc = "shared" /\ s \in Sessions /\ shared = NoShared
      /\ th'[P] = [pc |-> "own", s |-> s]
      /\ th' = [u \in Threads |-> th'[u]] /\ \A u \in Threads : u # P => th'[u] = th[u]
      /\ UNCHANGED <<scope, active, shared, sess, enabled, lifecycle, mgr, managed, daemon, lease, proc, token, slips>>
  BY <1>0, SharedNone, GoDoes, Names, Fields DEF EnsureShared, Ensure, IInv, IsLive, Exists, locks, FieldsOK, AtWork
<1>2. FieldsOK
  BY Fields DEF IInv
<1>3. Running' = Running /\ Ended' = Ended /\ Doomed' = Doomed
  BY <1>0, <1>1, Names DEF Running, Ended, Excused, Doomed
<1>4. InHand' = InHand
  BY <1>0, <1>1, <1>2, <1>3, Names DEF InHand, Idle
<1>a. TypeOK'
  BY <1>0, <1>1, Names, SMTT(30) DEF IInv, TypeOK, P, Ensurer
<1>b. LocksHeld'
  BY <1>0, <1>1, Names DEF IInv, LocksHeld, Idle, AtWork, Looping
<1>c. Known'
  BY <1>0, <1>1, <1>2, Names DEF IInv, FieldsOK, Known, Idle
<1>d. TokensTaken' /\ TokensDieWithLease'
  BY <1>0, <1>1, <1>2, Names DEF IInv, FieldsOK, TokensTaken, TokensDieWithLease, Idle, Exists, LiveStates, NoLease
<1>e. Ensuring'
  BY <1>0, <1>1, <1>2, <1>3, Names DEF IInv, FieldsOK, AtWork, Ensuring, Idle, NoShared
<1>f. Sharing'
  BY <1>0, <1>1, <1>2, <1>3, Names, SMTT(30) DEF IInv, FieldsOK, AtWork, Sharing, TypeOK, Idle, NoShared
<1>l. Leaving'
  BY <1>0, <1>1, <1>2, Names DEF IInv, FieldsOK, Leaving, Idle
<1>g. LoopEnded'
  BY <1>0, <1>1, <1>2, <1>3, Names DEF IInv, FieldsOK, LoopEnded, Idle
<1>h. BrowsersAreOwned'
  BY <1>0, <1>1, <1>2, <1>3, <1>4, Names DEF IInv, FieldsOK, BrowsersAreOwned, Exists
<1> QED BY <1>a, <1>b, <1>c, <1>d, <1>e, <1>f, <1>l, <1>g, <1>h DEF IInv

\* The shared browser is live and is joined.
LEMMA EnsureSharedJoin ==
  ASSUME IInv, EnsureShared, shared.lease # None, IsLive(shared.lease)
  PROVE  IInv'
<1>0. PICK s, l : s = th[P].s /\ l = shared.lease
  OBVIOUS
<1>1. /\ th[P].pc = "shared" /\ s \in Sessions /\ l \in Leases
      /\ th'[P] = [pc |-> "attach", s |-> s, l |-> l]
      /\ th' = [u \in Threads |-> th'[u]] /\ \A u \in Threads : u # P => th'[u] = th[u]
      /\ UNCHANGED <<scope, active, shared, sess, enabled, lifecycle, mgr, managed, daemon, lease, proc, token, slips>>
  BY <1>0, GoDoes, Names, Fields DEF EnsureShared, Ensure, IInv, locks, FieldsOK, AtWork
<1>2. FieldsOK
  BY Fields DEF IInv
<1>3. Running' = Running /\ Ended' = Ended /\ Doomed' = Doomed
  BY <1>0, <1>1, Names DEF Running, Ended, Excused, Doomed
<1>4. InHand \subseteq InHand'
  BY <1>0, <1>1, <1>2, <1>3, Names DEF InHand, Idle
<1>a. TypeOK'
  BY <1>0, <1>1, Names, SMTT(30) DEF IInv, TypeOK, P, Ensurer
<1>b. LocksHeld'
  BY <1>0, <1>1, Names DEF IInv, LocksHeld, Idle, AtWork, Looping
<1>c. Known'
  BY <1>0, <1>1, <1>2, Names DEF IInv, FieldsOK, Known, Idle
<1>d. TokensTaken' /\ TokensDieWithLease'
  BY <1>0, <1>1, <1>2, Names DEF IInv, FieldsOK, TokensTaken, TokensDieWithLease, Idle, Exists, LiveStates, NoLease
<1>e. Ensuring'
  BY <1>0, <1>1, <1>2, <1>3, Names DEF IInv, FieldsOK, AtWork, Ensuring, Idle, NoShared
<1>f. Sharing'
  BY <1>0, <1>1, <1>2, <1>3, Names, SMTT(30) DEF IInv, FieldsOK, AtWork, Sharing, TypeOK, Idle, NoShared
<1>l. Leaving'
  BY <1>0, <1>1, <1>2, Names DEF IInv, FieldsOK, Leaving, Idle
<1>g. LoopEnded'
  BY <1>0, <1>1, <1>2, <1>3, Names DEF IInv, FieldsOK, LoopEnded, Idle
<1>h. BrowsersAreOwned'
  BY <1>0, <1>1, <1>2, <1>3, <1>4, Names DEF IInv, FieldsOK, BrowsersAreOwned, Exists
<1> QED BY <1>a, <1>b, <1>c, <1>d, <1>e, <1>f, <1>l, <1>g, <1>h DEF IInv

\* The shared browser is over and is dropped.
LEMMA EnsureSharedDrop ==
  ASSUME IInv, EnsureShared, shared.lease # None, ~IsLive(shared.lease)
  PROVE  IInv'
<1>0. PICK s, l : s = th[P].s /\ l = shared.lease
  OBVIOUS
<1>1. /\ th[P].pc = "shared" /\ s \in Sessions /\ l \in Leases
      /\ th'[P] = [pc |-> "unshare", s |-> s]
      /\ th' = [u \in Threads |-> th'[u]] /\ \A u \in Threads : u # P => th'[u] = th[u]
      /\ lease' \in [Leases -> Lease \cup {NoLease}]
      /\ lease'[l] = NoLease /\ \A k \in Leases : k # l => lease'[k] = lease[k]
      /\ proc' \in [Leases -> {"unborn", "running", "zombie", "gone"}]
      /\ \A k \in Leases : proc'[k] = "unborn" <=> proc[k] = "unborn"
      /\ Running' = Running \ {l} /\ Ended \subseteq Ended'
      /\ token' \in [Leases -> {"none", "registration", "signing"}]
      /\ \A k \in Leases : token'[k] = "signing" <=> token[k] = "signing" /\ k # l
      /\ \A k \in Leases : token'[k] = "none" <=> token[k] = "none"
      /\ UNCHANGED <<scope, active, shared, sess, enabled, lifecycle, mgr, managed, daemon>>
 <2>1. th[P].pc = "shared" /\ s \in Sessions /\ l \in Leases
    BY <1>0, Fields DEF EnsureShared, Ensure, IInv, FieldsOK, AtWork
  <2>2. Go(P, [pc |-> "unshare", s |-> s]) /\ RevokeByLease({l}) /\ Discard(l)
    BY <1>0 DEF EnsureShared
  <2>3. UNCHANGED <<scope, active, shared, sess, enabled, lifecycle, mgr, managed, daemon>>
    BY DEF EnsureShared, locks
  <2> QED BY <2>1, <2>2, <2>3, DiscardDoes, RevokeDoes, GoDoes, Names DEF IInv
<1>2. FieldsOK
  BY Fields DEF IInv
<1>3. Running' = Running \ {l} /\ Ended \subseteq Ended' /\ Doomed' = Doomed
  BY <1>0, <1>1, Names DEF Doomed
<1>4. InHand' = InHand
  BY <1>0, <1>1, <1>2, <1>3, Names DEF InHand, Idle
<1>a. TypeOK'
  BY <1>0, <1>1, Names, SMTT(30) DEF IInv, TypeOK, P, Ensurer
<1>b. LocksHeld'
  BY <1>0, <1>1, Names DEF IInv, LocksHeld, Idle, AtWork, Looping
<1>c. Known'
  BY <1>0, <1>1, <1>2, Names DEF IInv, FieldsOK, Known, Idle
<1>d. TokensTaken' /\ TokensDieWithLease'
  BY <1>0, <1>1, <1>2, Names DEF IInv, FieldsOK, TokensTaken, TokensDieWithLease, Idle, Exists, LiveStates, NoLease, LocksHeld, AtWork, Looping
<1>e. Ensuring'
  BY <1>0, <1>1, <1>2, <1>3, Names DEF IInv, FieldsOK, AtWork, Ensuring, Idle, NoShared
<1>f. Sharing'
  BY <1>0, <1>1, <1>2, <1>3, Names, SMTT(30) DEF IInv, FieldsOK, AtWork, Sharing, TypeOK, Idle, NoShared
<1>l. Leaving'
  BY <1>0, <1>1, <1>2, Names DEF IInv, FieldsOK, Leaving, Idle
<1>g. LoopEnded'
  BY <1>0, <1>1, <1>2, <1>3, Names DEF IInv, FieldsOK, LoopEnded, Idle
<1>h. BrowsersAreOwned'
  BY <1>0, <1>1, <1>2, <1>3, <1>4, Names DEF IInv, FieldsOK, BrowsersAreOwned, Exists
<1> QED BY <1>a, <1>b, <1>c, <1>d, <1>e, <1>f, <1>l, <1>g, <1>h DEF IInv

\* The entry of the dropped browser is removed.
LEMMA EnsureUnshareInv ==
  ASSUME IInv, EnsureUnshare
  PROVE  IInv'
<1>0. PICK s : s = th[P].s
  OBVIOUS
<1>1. /\ th[P].pc = "unshare" /\ s \in Sessions
      /\ th'[P] = [pc |-> "own", s |-> s]
      /\ shared' = NoShared
      /\ th' = [u \in Threads |-> th'[u]] /\ \A u \in Threads : u # P => th'[u] = th[u]
      /\ UNCHANGED <<scope, active, sess, enabled, lifecycle, mgr, managed, daemon, lease, proc, token, slips>>
 <2>1. th[P].pc = "unshare" /\ s \in Sessions /\ th[P] = [pc |-> "unshare", s |-> s]
    BY <1>0, Shapes, EnsurerShape DEF EnsureUnshare, Ensure, IInv
  <2>2. Go(P, [pc |-> "own", s |-> s])
    BY <2>1 DEF EnsureUnshare
  <2> QED BY <2>1, <2>2, GoDoes, Names DEF IInv, EnsureUnshare, locks
<1>2. FieldsOK
  BY Fields DEF IInv
<1>3. Running' = Running /\ Ended' = Ended /\ Doomed' = Doomed
  BY <1>0, <1>1, Names DEF Running, Ended, Excused, Doomed
<1>4. InHand \subseteq InHand' \cup {shared.lease}
  BY <1>0, <1>1, <1>2, <1>3, Names DEF InHand, Idle
<1>5. shared.lease \notin Running
  BY <1>1, <1>2 DEF IInv, Ensuring, BrowsersAreOwned, Exists, FieldsOK
<1>a. TypeOK'
  BY <1>0, <1>1, Names, SMTT(30) DEF IInv, TypeOK, P, Ensurer, NoShared
<1>b. LocksHeld'
  BY <1>0, <1>1, Names DEF IInv, LocksHeld, Idle, AtWork, Looping
<1>c. Known'
  BY <1>0, <1>1, <1>2, Names DEF IInv, FieldsOK, Known, Idle, NoShared
<1>d. TokensTaken' /\ TokensDieWithLease'
  BY <1>0, <1>1, <1>2, Names DEF IInv, FieldsOK, TokensTaken, TokensDieWithLease, Idle, Exists, LiveStates, NoLease, NoShared
<1>e. Ensuring'
  BY <1>0, <1>1, <1>2, <1>3, Names DEF IInv, FieldsOK, AtWork, Ensuring, Idle, NoShared
<1>f. Sharing'
  BY <1>0, <1>1, <1>2, <1>3, <1>5, Names, SMTT(30) DEF IInv, FieldsOK, AtWork, Sharing, TypeOK, Idle, NoShared, LocksHeld
<1>l. Leaving'
  BY <1>0, <1>1, <1>2, Names DEF IInv, FieldsOK, Leaving, Idle, NoShared
<1>g. LoopEnded'
  BY <1>0, <1>1, <1>2, <1>3, Names DEF IInv, FieldsOK, LoopEnded, Idle
<1>h. BrowsersAreOwned'
  BY <1>0, <1>1, <1>2, <1>3, <1>4, <1>5, Names DEF IInv, FieldsOK, BrowsersAreOwned, Exists
<1> QED BY <1>a, <1>b, <1>c, <1>d, <1>e, <1>f, <1>l, <1>g, <1>h DEF IInv

\* The session joins the shared browser.
LEMMA EnsureAttachInv ==
  ASSUME IInv, EnsureAttach, shared.lease # None
  PROVE  IInv'
<1>0. PICK s, l : s = th[P].s /\ l = th[P].l
  OBVIOUS
<1>1. /\ th[P].pc = "attach" /\ s \in Sessions /\ l \in Leases
      /\ th'[P] = [pc |-> "insert", s |-> s, l |-> l]
      /\ shared' \in [lease : Leases \cup {None}, attached : SUBSET Sessions]
      /\ shared'.lease = shared.lease /\ shared'.attached = shared.attached \cup {s}
      /\ th' = [u \in Threads |-> th'[u]] /\ \A u \in Threads : u # P => th'[u] = th[u]
      /\ UNCHANGED <<scope, active, sess, enabled, lifecycle, mgr, managed, daemon, lease, proc, token, slips>>
 <2>1. th[P].pc = "attach" /\ s \in Sessions /\ l \in Leases /\ th[P] = [pc |-> "attach", s |-> s, l |-> l]
    BY <1>0, Shapes, EnsurerShape DEF EnsureAttach, Ensure, IInv
  <2>2. Go(P, [pc |-> "insert", s |-> s, l |-> l])
    BY <2>1 DEF EnsureAttach
  <2>3. shared' = [shared EXCEPT !.attached = @ \cup {s}]
    BY <1>0 DEF EnsureAttach
  <2> QED BY <2>1, <2>2, <2>3, GoDoes, Names DEF IInv, TypeOK, EnsureAttach, locks
<1>2. FieldsOK
  BY Fields DEF IInv
<1>3. Running' = Running /\ Ended' = Ended /\ Doomed' = Doomed
  BY <1>0, <1>1, Names DEF Running, Ended, Excused, Doomed
<1>4. InHand' = InHand
  BY <1>0, <1>1, <1>2, <1>3, Names DEF InHand, Idle
<1>a. TypeOK'
  BY <1>0, <1>1, Names, SMTT(30) DEF IInv, TypeOK, P, Ensurer
<1>b. LocksHeld'
  BY <1>0, <1>1, Names DEF IInv, LocksHeld, Idle, AtWork, Looping
<1>c. Known'
  BY <1>0, <1>1, <1>2, Names DEF IInv, FieldsOK, Known, Idle
<1>d. TokensTaken' /\ TokensDieWithLease'
  BY <1>0, <1>1, <1>2, Names DEF IInv, FieldsOK, TokensTaken, TokensDieWithLease, Idle, Exists, LiveStates, NoLease
<1>e. Ensuring'
  BY <1>0, <1>1, <1>2, <1>3, Names DEF IInv, FieldsOK, AtWork, Ensuring, Idle, NoShared
<1>f. Sharing'
  BY <1>0, <1>1, <1>2, <1>3, Names, SMTT(30) DEF IInv, FieldsOK, AtWork, Sharing, TypeOK, Idle, NoShared, Ensuring
<1>l. Leaving'
  BY <1>0, <1>1, <1>2, Names DEF IInv, FieldsOK, Leaving, Idle
<1>g. LoopEnded'
  BY <1>0, <1>1, <1>2, <1>3, Names DEF IInv, FieldsOK, LoopEnded, Idle
<1>h. BrowsersAreOwned'
  BY <1>0, <1>1, <1>2, <1>3, <1>4, Names DEF IInv, FieldsOK, BrowsersAreOwned, Exists
<1> QED BY <1>a, <1>b, <1>c, <1>d, <1>e, <1>f, <1>l, <1>g, <1>h DEF IInv

\* The entry was removed meanwhile: the daemon aborts, and what runs is excused.
LEMMA EnsureAttachPanics ==
  ASSUME IInv, EnsureAttach, shared.lease = None
  PROVE  IInv'
<1>1. Abort /\ UNCHANGED <<scope, proc, enabled>>
  BY DEF EnsureAttach
<1>2. /\ th' = [u \in Threads |-> th'[u]] /\ \A u \in Threads : th'[u] = Idle /\ th'[u].pc = "idle"
      /\ lease' \in [Leases -> Lease \cup {NoLease}] /\ \A l \in Leases : lease'[l] = NoLease
      /\ token' \in [Leases -> {"none", "registration", "signing"}] /\ \A l \in Leases : token'[l] = "none"
      /\ active' \in [Sessions -> Leases \cup {None}] /\ \A s \in Sessions : active'[s] = None
      /\ shared' = NoShared /\ shared'.lease = None /\ shared'.attached = {}
      /\ sess' \in [Sessions -> {"live", "ended"}] /\ daemon' = "aborted"
      /\ lifecycle' = "free" /\ mgr' = "free" /\ managed' = "free"
  BY <1>1 DEF Abort, Idle, NoShared
<1>3. Running' = {}
  <2>1. \A l \in Leases : proc[l] = "running" => <<"panic", l>> \in slips'
    BY <1>1 DEF Abort
  <2> QED BY <1>1, <2>1 DEF Running, Excused
<1>4. Idle \in Ensurer /\ Idle \in Loop /\ Idle \in Main /\ Idle \in Admin
  BY DEF Idle, Ensurer, Loop, Main, Admin
<1>5. TypeOK'
  BY <1>1, <1>2, <1>4, Names DEF IInv, TypeOK, NoShared, P
<1>6. LocksHeld' /\ Known' /\ LoopEnded'
  BY <1>2, Names DEF LocksHeld, Known, LoopEnded, AtWork, Looping
<1>7. TokensTaken' /\ TokensDieWithLease' /\ BrowsersAreOwned'
  BY <1>2, <1>3, Names DEF TokensTaken, TokensDieWithLease, BrowsersAreOwned
<1>8. Ensuring' /\ Sharing' /\ Leaving'
  BY <1>2, <1>3, Names DEF Ensuring, Sharing, Leaving
<1> QED BY <1>5, <1>6, <1>7, <1>8 DEF IInv

\* The session has the shared browser.
LEMMA EnsureInsertInv ==
  ASSUME IInv, EnsureInsert
  PROVE  IInv'
<1>0. PICK s, l : s = th[P].s /\ l = th[P].l
  OBVIOUS
<1>1. /\ th[P].pc = "insert" /\ s \in Sessions /\ l \in Leases
      /\ th'[P] = Idle
      /\ active' \in [Sessions -> Leases \cup {None}] /\ active'[s] = l /\ \A r \in Sessions : r # s => active'[r] = active[r]
      /\ mgr' = "free" /\ managed' = "free" /\ lifecycle' = "free"
      /\ th' = [u \in Threads |-> th'[u]] /\ \A u \in Threads : u # P => th'[u] = th[u]
      /\ UNCHANGED <<scope, shared, sess, enabled, daemon, lease, proc, token, slips>>
  BY <1>0, GoDoes, Names, Fields, SMTT(30) DEF EnsureInsert, Answer, Ensure, IInv, TypeOK, FieldsOK, AtWork
<1>2. FieldsOK
  BY Fields DEF IInv
<1>3. Running' = Running /\ Ended' = Ended /\ Doomed' = Doomed
  BY <1>0, <1>1, Names DEF Running, Ended, Excused, Doomed
<1>4. InHand \subseteq InHand' \cup {l, active[s]} /\ Doomed \subseteq InHand'
  BY <1>0, <1>1, <1>2, <1>3, Names DEF InHand, Idle, Doomed, FieldsOK
<1>a. TypeOK'
  BY <1>0, <1>1, Names, SMTT(30) DEF IInv, TypeOK, P, Ensurer, Idle
<1>b. LocksHeld'
  BY <1>0, <1>1, Names DEF IInv, LocksHeld, Idle, AtWork, Looping
<1>c. Known'
  BY <1>0, <1>1, <1>2, Names DEF IInv, FieldsOK, Known, Idle
<1>d. TokensTaken' /\ TokensDieWithLease'
  BY <1>0, <1>1, <1>2, Names DEF IInv, FieldsOK, TokensTaken, TokensDieWithLease, Idle, Exists, LiveStates, NoLease
<1>e. Ensuring'
  BY <1>0, <1>1, <1>2, <1>3, Names DEF IInv, FieldsOK, AtWork, Ensuring, Idle, NoShared
<1>f. Sharing'
  BY <1>0, <1>1, <1>2, <1>3, Names, SMTT(30) DEF IInv, FieldsOK, AtWork, Sharing, TypeOK, Idle, NoShared, Ensuring, LocksHeld
<1>l. Leaving'
  BY <1>0, <1>1, <1>2, Names DEF IInv, FieldsOK, Leaving, Idle, Ensuring, LocksHeld, AtWork
<1>g. LoopEnded'
  BY <1>0, <1>1, <1>2, <1>3, Names DEF IInv, FieldsOK, LoopEnded, Idle
<1>h. BrowsersAreOwned'
  BY <1>0, <1>1, <1>2, <1>3, <1>4, Names DEF IInv, FieldsOK, BrowsersAreOwned, Exists, Sharing, Ensuring, LocksHeld, AtWork
<1> QED BY <1>a, <1>b, <1>c, <1>d, <1>e, <1>f, <1>l, <1>g, <1>h DEF IInv

\* The session has no browser: one is launched.
LEMMA EnsureOwnNone ==
  ASSUME IInv, EnsureOwn, active[th[P].s] = None
  PROVE  IInv'
<1>0. PICK s : s = th[P].s
  OBVIOUS
<1>1. /\ th[P].pc = "own" /\ s \in Sessions /\ active[s] = None
      /\ th'[P] = [pc |-> "launch", s |-> s]
      /\ th' = [u \in Threads |-> th'[u]] /\ \A u \in Threads : u # P => th'[u] = th[u]
      /\ UNCHANGED <<scope, active, shared, sess, enabled, lifecycle, mgr, managed, daemon, lease, proc, token, slips>>
  BY <1>0, GoDoes, Names, Fields DEF EnsureOwn, Ensure, IInv, IsLive, Exists, FieldsOK, AtWork
<1>2. FieldsOK
  BY Fields DEF IInv
<1>3. Running' = Running /\ Ended' = Ended /\ Doomed' = Doomed
  BY <1>0, <1>1, Names DEF Running, Ended, Excused, Doomed
<1>4. InHand' = InHand
  BY <1>0, <1>1, <1>2, <1>3, Names DEF InHand, Idle
<1>a. TypeOK'
  BY <1>0, <1>1, Names, SMTT(30) DEF IInv, TypeOK, P, Ensurer
<1>b. LocksHeld'
  BY <1>0, <1>1, Names DEF IInv, LocksHeld, Idle, AtWork, Looping
<1>c. Known'
  BY <1>0, <1>1, <1>2, Names DEF IInv, FieldsOK, Known, Idle
<1>d. TokensTaken' /\ TokensDieWithLease'
  BY <1>0, <1>1, <1>2, Names DEF IInv, FieldsOK, TokensTaken, TokensDieWithLease, Idle, Exists, LiveStates, NoLease
<1>e. Ensuring'
  BY <1>0, <1>1, <1>2, <1>3, Names DEF IInv, FieldsOK, AtWork, Ensuring, Idle, NoShared
<1>f. Sharing'
  BY <1>0, <1>1, <1>2, <1>3, Names, SMTT(30) DEF IInv, FieldsOK, AtWork, Sharing, TypeOK, Idle, NoShared
<1>l. Leaving'
  BY <1>0, <1>1, <1>2, Names DEF IInv, FieldsOK, Leaving, Idle
<1>g. LoopEnded'
  BY <1>0, <1>1, <1>2, <1>3, Names DEF IInv, FieldsOK, LoopEnded, Idle
<1>h. BrowsersAreOwned'
  BY <1>0, <1>1, <1>2, <1>3, <1>4, Names DEF IInv, FieldsOK, BrowsersAreOwned, Exists
<1> QED BY <1>a, <1>b, <1>c, <1>d, <1>e, <1>f, <1>l, <1>g, <1>h DEF IInv

\* The browser of the session is live and handed out again.
LEMMA EnsureOwnAgain ==
  ASSUME IInv, EnsureOwn, active[th[P].s] # None, IsLive(active[th[P].s])
  PROVE  IInv'
<1>1. /\ th[P].pc = "own" /\ th'[P] = Idle
      /\ mgr' = "free" /\ managed' = "free" /\ lifecycle' = "free"
      /\ th' = [u \in Threads |-> th'[u]] /\ \A u \in Threads : u # P => th'[u] = th[u]
      /\ UNCHANGED <<scope, active, shared, sess, enabled, daemon, lease, proc, token, slips>>
  BY GoDoes, Names, Fields DEF EnsureOwn, Answer, Ensure, IInv, FieldsOK, AtWork
<1>2. FieldsOK
  BY Fields DEF IInv
<1>3. Running' = Running /\ Ended' = Ended /\ Doomed' = Doomed
  BY <1>1, Names DEF Running, Ended, Excused, Doomed
<1>4. InHand' = InHand
  BY <1>1, <1>2, <1>3, Names DEF InHand, Idle
<1>a. TypeOK'
  BY <1>1, Names, SMTT(30) DEF IInv, TypeOK, P, Ensurer, Idle
<1>b. LocksHeld'
  BY <1>1, Names DEF IInv, LocksHeld, Idle, AtWork, Looping
<1>c. Known'
  BY <1>1, <1>2, Names DEF IInv, FieldsOK, Known, Idle
<1>d. TokensTaken' /\ TokensDieWithLease'
  BY <1>1, <1>2, Names DEF IInv, FieldsOK, TokensTaken, TokensDieWithLease, Idle, Exists, LiveStates, NoLease
<1>e. Ensuring'
  BY <1>1, <1>2, <1>3, Names DEF IInv, FieldsOK, AtWork, Ensuring, Idle, NoShared
<1>f. Sharing'
  BY <1>1, <1>2, <1>3, Names, SMTT(30) DEF IInv, FieldsOK, AtWork, Sharing, TypeOK, Idle, NoShared
<1>l. Leaving'
  BY <1>1, <1>2, Names DEF IInv, FieldsOK, Leaving, Idle
<1>g. LoopEnded'
  BY <1>1, <1>2, <1>3, Names DEF IInv, FieldsOK, LoopEnded, Idle
<1>h. BrowsersAreOwned'
  BY <1>1, <1>2, <1>3, <1>4, Names DEF IInv, FieldsOK, BrowsersAreOwned, Exists
<1> QED BY <1>a, <1>b, <1>c, <1>d, <1>e, <1>f, <1>l, <1>g, <1>h DEF IInv

\* The browser of the session is over and dropped.
LEMMA EnsureOwnDrop ==
  ASSUME IInv, EnsureOwn, active[th[P].s] # None, ~IsLive(active[th[P].s])
  PROVE  IInv'
<1>0. PICK s, l : s = th[P].s /\ l = active[th[P].s]
  OBVIOUS
<1>1. /\ th[P].pc = "own" /\ s \in Sessions /\ l \in Leases /\ active[s] = l
      /\ th'[P] = [pc |-> "disown", s |-> s]
      /\ th' = [u \in Threads |-> th'[u]] /\ \A u \in Threads : u # P => th'[u] = th[u]
      /\ lease' \in [Leases -> Lease \cup {NoLease}]
      /\ lease'[l] = NoLease /\ \A k \in Leases : k # l => lease'[k] = lease[k]
      /\ proc' \in [Leases -> {"unborn", "running", "zombie", "gone"}]
      /\ \A k \in Leases : proc'[k] = "unborn" <=> proc[k] = "unborn"
      /\ Running' = Running \ {l} /\ Ended \subseteq Ended'
      /\ token' \in [Leases -> {"none", "registration", "signing"}]
      /\ \A k \in Leases : token'[k] = "signing" <=> token[k] = "signing" /\ k # l
      /\ \A k \in Leases : token'[k] = "none" <=> token[k] = "none"
      /\ UNCHANGED <<scope, active, shared, sess, enabled, lifecycle, mgr, managed, daemon>>
 <2>1. th[P].pc = "own" /\ s \in Sessions /\ l \in Leases
    BY <1>0, Fields DEF EnsureOwn, Ensure, IInv, FieldsOK, AtWork
  <2>2. Go(P, [pc |-> "disown", s |-> s]) /\ RevokeByLease({l}) /\ Discard(l)
    BY <1>0 DEF EnsureOwn
  <2>3. UNCHANGED <<scope, active, shared, sess, enabled, lifecycle, mgr, managed, daemon>>
    BY DEF EnsureOwn
  <2> QED BY <1>0, <2>1, <2>2, <2>3, DiscardDoes, RevokeDoes, GoDoes, Names DEF IInv
<1>2. FieldsOK
  BY Fields DEF IInv
<1>3. Running' = Running \ {l} /\ Ended \subseteq Ended' /\ Doomed' = Doomed
  BY <1>0, <1>1, Names DEF Doomed
<1>4. InHand' = InHand
  BY <1>0, <1>1, <1>2, <1>3, Names DEF InHand, Idle
<1>a. TypeOK'
  BY <1>0, <1>1, Names, SMTT(60) DEF IInv, TypeOK, P, Ensurer
<1>b. LocksHeld'
  BY <1>0, <1>1, Names DEF IInv, LocksHeld, Idle, AtWork, Looping
<1>c. Known'
  BY <1>0, <1>1, <1>2, Names DEF IInv, FieldsOK, Known, Idle
<1>d. TokensTaken' /\ TokensDieWithLease'
  BY <1>0, <1>1, <1>2, Names DEF IInv, FieldsOK, TokensTaken, TokensDieWithLease, Idle, Exists, LiveStates, NoLease, LocksHeld, AtWork, Looping
<1>e. Ensuring'
  BY <1>0, <1>1, <1>2, <1>3, Names DEF IInv, FieldsOK, AtWork, Ensuring, Idle, NoShared
<1>f. Sharing'
  BY <1>0, <1>1, <1>2, <1>3, Names, SMTT(30) DEF IInv, FieldsOK, AtWork, Sharing, TypeOK, Idle, NoShared
<1>l. Leaving'
  BY <1>0, <1>1, <1>2, Names DEF IInv, FieldsOK, Leaving, Idle
<1>g. LoopEnded'
  BY <1>0, <1>1, <1>2, <1>3, Names DEF IInv, FieldsOK, LoopEnded, Idle
<1>h. BrowsersAreOwned'
  BY <1>0, <1>1, <1>2, <1>3, <1>4, Names DEF IInv, FieldsOK, BrowsersAreOwned, Exists
<1> QED BY <1>a, <1>b, <1>c, <1>d, <1>e, <1>f, <1>l, <1>g, <1>h DEF IInv

\* The entry of the dropped browser is removed.
LEMMA EnsureDisownInv ==
  ASSUME IInv, EnsureDisown
  PROVE  IInv'
<1>0. PICK s : s = th[P].s
  OBVIOUS
<1>1. /\ th[P].pc = "disown" /\ s \in Sessions
      /\ th'[P] = [pc |-> "launch", s |-> s]
      /\ active' \in [Sessions -> Leases \cup {None}] /\ active'[s] = None /\ \A r \in Sessions : r # s => active'[r] = active[r]
      /\ th' = [u \in Threads |-> th'[u]] /\ \A u \in Threads : u # P => th'[u] = th[u]
      /\ UNCHANGED <<scope, shared, sess, enabled, lifecycle, mgr, managed, daemon, lease, proc, token, slips>>
 <2>1. th[P].pc = "disown" /\ s \in Sessions /\ th[P] = [pc |-> "disown", s |-> s]
    BY <1>0, Shapes, EnsurerShape DEF EnsureDisown, Ensure, IInv
  <2>2. Go(P, [pc |-> "launch", s |-> s]) /\ active' = [active EXCEPT ![s] = None]
    BY <1>0, <2>1 DEF EnsureDisown
  <2> QED BY <2>1, <2>2, GoDoes, Names DEF IInv, TypeOK, EnsureDisown, locks
<1>2. FieldsOK
  BY Fields DEF IInv
<1>3. Running' = Running /\ Ended' = Ended /\ Doomed' = Doomed
  BY <1>0, <1>1, Names DEF Running, Ended, Excused, Doomed
<1>4. InHand \subseteq InHand' \cup {active[s]}
  BY <1>0, <1>1, <1>2, <1>3, Names DEF InHand, FieldsOK
<1>5. active[s] \notin Running
  BY <1>0, <1>1, <1>2 DEF IInv, Ensuring, BrowsersAreOwned, Exists, FieldsOK
<1>a. TypeOK'
  BY <1>0, <1>1, Names, SMTT(30) DEF IInv, TypeOK, P, Ensurer
<1>b. LocksHeld'
  BY <1>0, <1>1, Names DEF IInv, LocksHeld, Idle, AtWork, Looping
<1>c. Known'
  BY <1>0, <1>1, <1>2, Names DEF IInv, FieldsOK, Known, Idle
<1>d. TokensTaken' /\ TokensDieWithLease'
  BY <1>0, <1>1, <1>2, Names DEF IInv, FieldsOK, TokensTaken, TokensDieWithLease, Idle, Exists, LiveStates, NoLease
<1>e. Ensuring'
  BY <1>0, <1>1, <1>2, <1>3, Names DEF IInv, FieldsOK, AtWork, Ensuring, Idle, NoShared
<1>f. Sharing'
  BY <1>0, <1>1, <1>2, <1>3, <1>5, Names, SMTT(60) DEF IInv, FieldsOK, AtWork, Sharing, TypeOK, Idle, NoShared
<1>l. Leaving'
  BY <1>0, <1>1, <1>2, Names DEF IInv, FieldsOK, Leaving, Idle
<1>g. LoopEnded'
  BY <1>0, <1>1, <1>2, <1>3, Names DEF IInv, FieldsOK, LoopEnded, Idle
<1>h. BrowsersAreOwned'
  BY <1>0, <1>1, <1>2, <1>3, <1>4, <1>5, Names DEF IInv, FieldsOK, BrowsersAreOwned, Exists
<1> QED BY <1>a, <1>b, <1>c, <1>d, <1>e, <1>f, <1>l, <1>g, <1>h DEF IInv

\* How a launch can come out.
LEMMA Outcomes == LaunchOutcomes = {"ok", "stray", "refused"}
BY DEF LaunchOutcomes

\* A browser is launched for the session.
LEMMA EnsureLaunchOk ==
  ASSUME IInv, NEW l \in Leases, EnsureLaunch(l, "ok")
  PROVE  IInv'
<1>0. PICK s : s = th[P].s
  OBVIOUS
<1>1. /\ th[P].pc = "launch" /\ s \in Sessions
      /\ th'[P] = [pc |-> "finish", s |-> s, l |-> l]
      /\ th' = [u \in Threads |-> th'[u]] /\ \A u \in Threads : u # P => th'[u] = th[u]
      /\ lease' \in [Leases -> Lease \cup {NoLease}]
      /\ \A k \in Leases : k # l => lease'[k] = lease[k]
      /\ proc' \in [Leases -> {"unborn", "running", "zombie", "gone"}]
      /\ \A k \in Leases : proc'[k] = "unborn" => proc[k] = "unborn"
      /\ proc[l] = "unborn" /\ proc'[l] = "running" /\ Ended \subseteq Ended'
      /\ lease'[l] # NoLease /\ lease'[l].state = "pending" /\ lease'[l].child = "held"
      /\ Running' \subseteq Running \cup {l} /\ (daemon = "stopped" => l \notin Running')
      /\ token' \in [Leases -> {"none", "registration", "signing"}] /\ token'[l] = "registration" /\ \A k \in Leases : k # l => token'[k] = token[k]
      /\ UNCHANGED <<scope, active, shared, sess, enabled, lifecycle, mgr, managed, daemon>>
 <2>1. th[P].pc = "launch" /\ s \in Sessions
    BY <1>0, Fields DEF EnsureLaunch, Ensure, IInv, FieldsOK, AtWork
  <2>2. Go(P, [pc |-> "finish", s |-> s, l |-> l]) /\ Launch(l, "principal", "ok")
    BY <1>0 DEF EnsureLaunch
  <2>3. token' = [token EXCEPT ![l] = "registration"]
        /\ UNCHANGED <<scope, active, shared, sess, enabled, lifecycle, mgr, managed, daemon>>
    BY DEF EnsureLaunch
  <2> HIDE DEF EnsureLaunch
  <2>4. th' = [u \in Threads |-> th'[u]] /\ th'[P] = [pc |-> "finish", s |-> s, l |-> l]
        /\ \A u \in Threads : u # P => th'[u] = th[u]
    BY <2>2, GoDoes, Names DEF IInv
  <2>5. token' \in [Leases -> {"none", "registration", "signing"}] /\ token'[l] = "registration"
        /\ \A k \in Leases : k # l => token'[k] = token[k]
    BY <2>3 DEF IInv, TypeOK
  <2> QED BY <2>1, <2>2, <2>3, <2>4, <2>5, LaunchDoes
<1>2. FieldsOK
  BY Fields DEF IInv
<1>3. Doomed' = Doomed
  BY <1>0, <1>1, Names DEF Doomed
<1>4. InHand \subseteq InHand' /\ l \in InHand' /\ l \notin Running
  BY <1>0, <1>1, <1>2, <1>3, Names DEF InHand, Running, FieldsOK
<1>5. /\ lease[l] = NoLease /\ shared.lease # l /\ \A r \in Sessions : active[r] # l
      /\ \A t \in Threads : th[t].pc = "kill" => th[t].l # l
  BY <1>1, <1>2 DEF IInv, Known, FieldsOK
<1>a. TypeOK'
  BY <1>0, <1>1, Names, SMTT(60) DEF IInv, TypeOK, P, Ensurer
<1>b. LocksHeld'
  BY <1>0, <1>1, Names DEF IInv, LocksHeld, Idle, AtWork, Looping
<1>c. Known'
  BY <1>0, <1>1, <1>2, Names DEF IInv, FieldsOK, Known, Idle
<1>d. TokensTaken' /\ TokensDieWithLease'
  BY <1>0, <1>1, <1>2, <1>5, Names DEF IInv, FieldsOK, TokensTaken, TokensDieWithLease, Idle, Exists, LiveStates, NoLease, LocksHeld, AtWork, Looping
<1>e. Ensuring'
  BY <1>0, <1>1, <1>2, <1>3, <1>4, <1>5, Names DEF IInv, FieldsOK, AtWork, Ensuring, Idle, NoShared
<1>f. Sharing'
 <2>1. (\A r \in Sessions : active'[r] \in Running' => active[r] \in Running)
        /\ (shared'.lease \in Running' => shared.lease \in Running)
    BY <1>1, <1>5
  <2> QED BY <1>1, <1>3, <2>1, Names DEF IInv, Sharing
<1>l. Leaving'
  BY <1>0, <1>1, <1>2, Names DEF IInv, FieldsOK, Leaving, Idle
<1>g. LoopEnded'
  BY <1>0, <1>1, <1>2, <1>3, Names DEF IInv, FieldsOK, LoopEnded, Idle
<1>h. BrowsersAreOwned'
  BY <1>0, <1>1, <1>2, <1>3, <1>4, Names DEF IInv, FieldsOK, BrowsersAreOwned, Exists
<1> QED BY <1>a, <1>b, <1>c, <1>d, <1>e, <1>f, <1>l, <1>g, <1>h DEF IInv

\* A launch fails and the request is answered.
LEMMA EnsureLaunchFails ==
  ASSUME IInv, NEW l \in Leases, NEW outcome \in {"stray", "refused"}, EnsureLaunch(l, outcome)
  PROVE  IInv'
<1>1. /\ th[P].pc = "launch" /\ th'[P] = Idle /\ mgr' = "free" /\ managed' = "free" /\ lifecycle' = "free"
      /\ th' = [u \in Threads |-> th'[u]] /\ \A u \in Threads : u # P => th'[u] = th[u]
      /\ proc' \in [Leases -> {"unborn", "running", "zombie", "gone"}] /\ \A k \in Leases : proc'[k] = "unborn" => proc[k] = "unborn"
      /\ Running' = Running /\ Ended \subseteq Ended'
      /\ UNCHANGED <<lease, token, scope, active, shared, sess, enabled, daemon>>
  BY LaunchDoes, GoDoes, Names DEF EnsureLaunch, Answer, Ensure, IInv
<1>2. FieldsOK
  BY Fields DEF IInv
<1>3. Doomed' = Doomed
  BY <1>1, Names DEF Doomed, Idle
<1>4. InHand' = InHand
  BY <1>1, <1>2, <1>3, Names DEF InHand, Idle
<1>a. TypeOK'
  BY <1>1, Names, SMTT(30) DEF IInv, TypeOK, P, Ensurer, Idle
<1>b. LocksHeld'
  BY <1>1, Names DEF IInv, LocksHeld, Idle, AtWork, Looping
<1>c. Known'
  BY <1>1, <1>2, Names DEF IInv, FieldsOK, Known, Idle
<1>d. TokensTaken' /\ TokensDieWithLease'
  BY <1>1, <1>2, Names DEF IInv, FieldsOK, TokensTaken, TokensDieWithLease, Idle, Exists, LiveStates, NoLease
<1>e. Ensuring'
  BY <1>1, <1>2, <1>3, Names DEF IInv, FieldsOK, AtWork, Ensuring, Idle, NoShared
<1>f. Sharing'
  BY <1>1, <1>2, <1>3, Names, SMTT(30) DEF IInv, FieldsOK, AtWork, Sharing, TypeOK, Idle, NoShared
<1>l. Leaving'
  BY <1>1, <1>2, Names DEF IInv, FieldsOK, Leaving, Idle
<1>g. LoopEnded'
  BY <1>1, <1>2, <1>3, Names DEF IInv, FieldsOK, LoopEnded, Idle
<1>h. BrowsersAreOwned'
  BY <1>1, <1>2, <1>3, <1>4, Names DEF IInv, FieldsOK, BrowsersAreOwned, Exists
<1> QED BY <1>a, <1>b, <1>c, <1>d, <1>e, <1>f, <1>l, <1>g, <1>h DEF IInv

\* finish_principal_browser_launch binds the token.
LEMMA EnsureFinishKeeps ==
  ASSUME IInv, EnsureFinish, th'[P].pc = "record"
  PROVE  IInv'
<1>0. PICK s, l : s = th[P].s /\ l = th[P].l
  OBVIOUS
<1>1. /\ th[P].pc = "finish" /\ s \in Sessions /\ l \in Leases
      /\ th'[P] = [pc |-> "record", s |-> s, l |-> l]
      /\ th' = [u \in Threads |-> th'[u]] /\ \A u \in Threads : u # P => th'[u] = th[u]
      /\ token' \in [Leases -> {"none", "registration", "signing"}] /\ token'[l] \in {"registration", "signing"} /\ \A k \in Leases : k # l => token'[k] = token[k]
      /\ UNCHANGED <<lease, proc, slips, scope, active, shared, sess, enabled, lifecycle, mgr, managed, daemon>>
 <2>1. th[P].pc = "finish" /\ s \in Sessions /\ l \in Leases /\ th[P] = [pc |-> "finish", s |-> s, l |-> l]
    BY <1>0, Shapes, EnsurerShape DEF EnsureFinish, Ensure, IInv
  <2>2. ~Answer
    <3> SUFFICES ASSUME Answer PROVE FALSE
      OBVIOUS
    <3>1. th'[P].pc = "idle"
      BY GoDoes, Names DEF Answer, IInv, Idle
    <3> QED BY <3>1
  <2>3. PICK k \in {"registration", "signing"} : token' = [token EXCEPT ![l] = k]
    BY <1>0, <2>2 DEF EnsureFinish
  <2>4. Go(P, [pc |-> "record", s |-> s, l |-> l]) /\ UNCHANGED <<lease, proc, managed, lifecycle, mgr, slips, faults>>
    BY <2>1, <2>2 DEF EnsureFinish
  <2>5. UNCHANGED <<scope, active, shared, sess, enabled, daemon>>
    BY DEF EnsureFinish
  <2> QED BY <2>1, <2>3, <2>4, <2>5, GoDoes, Names DEF IInv, TypeOK
<1>2. FieldsOK
  BY Fields DEF IInv
<1>3. Running' = Running /\ Ended' = Ended /\ Doomed' = Doomed
  BY <1>0, <1>1, Names DEF Running, Ended, Excused, Doomed
<1>4. InHand' = InHand
  BY <1>0, <1>1, <1>2, <1>3, Names DEF InHand, Idle
<1>a. TypeOK'
  BY <1>0, <1>1, Names, SMTT(30) DEF IInv, TypeOK, P, Ensurer
<1>b. LocksHeld'
  BY <1>0, <1>1, Names DEF IInv, LocksHeld, Idle, AtWork, Looping
<1>c. Known'
  BY <1>0, <1>1, <1>2, Names DEF IInv, FieldsOK, Known, Idle
<1>d. TokensTaken' /\ TokensDieWithLease'
  BY <1>0, <1>1, <1>2, Names DEF IInv, FieldsOK, TokensTaken, TokensDieWithLease, Idle, Exists, LiveStates, NoLease, LocksHeld, AtWork, Looping
<1>e. Ensuring'
  BY <1>0, <1>1, <1>2, <1>3, Names DEF IInv, FieldsOK, AtWork, Ensuring, Idle, NoShared, TokensTaken
<1>f. Sharing'
  BY <1>0, <1>1, <1>2, <1>3, Names, SMTT(30) DEF IInv, FieldsOK, AtWork, Sharing, TypeOK, Idle, NoShared
<1>l. Leaving'
  BY <1>0, <1>1, <1>2, Names DEF IInv, FieldsOK, Leaving, Idle
<1>g. LoopEnded'
  BY <1>0, <1>1, <1>2, <1>3, Names DEF IInv, FieldsOK, LoopEnded, Idle
<1>h. BrowsersAreOwned'
  BY <1>0, <1>1, <1>2, <1>3, <1>4, Names DEF IInv, FieldsOK, BrowsersAreOwned, Exists
<1> QED BY <1>a, <1>b, <1>c, <1>d, <1>e, <1>f, <1>l, <1>g, <1>h DEF IInv

\* finish_principal_browser_launch fails and undoes the launch.
LEMMA EnsureFinishUndoes ==
  ASSUME IInv, EnsureFinish, th'[P].pc # "record"
  PROVE  IInv'
<1>0. PICK l : l = th[P].l
  OBVIOUS
<1>1. /\ th[P].pc = "finish" /\ l \in Leases /\ th'[P] = Idle /\ mgr' = "free" /\ managed' = "free" /\ lifecycle' = "free"
      /\ th' = [u \in Threads |-> th'[u]] /\ \A u \in Threads : u # P => th'[u] = th[u]
      /\ lease' \in [Leases -> Lease \cup {NoLease}]
      /\ lease'[l] = NoLease /\ \A k \in Leases : k # l => lease'[k] = lease[k]
      /\ proc' \in [Leases -> {"unborn", "running", "zombie", "gone"}]
      /\ \A k \in Leases : proc'[k] = "unborn" <=> proc[k] = "unborn"
      /\ Running' = Running \ {l} /\ Ended \subseteq Ended'
      /\ token' \in [Leases -> {"none", "registration", "signing"}] /\ token'[l] = "none" /\ \A k \in Leases : k # l => token'[k] = token[k]
      /\ UNCHANGED <<scope, active, shared, sess, enabled, daemon>>
 <2>1. th[P].pc = "finish" /\ l \in Leases
    BY <1>0, Shapes, EnsurerShape DEF EnsureFinish, Ensure, IInv
  <2>2. ~Go(P, [th[P] EXCEPT !.pc = "record"])
    <3> SUFFICES ASSUME Go(P, [th[P] EXCEPT !.pc = "record"]) PROVE FALSE
      OBVIOUS
    <3>1. th[P] \in [pc : {"attach", "insert", "finish", "record", "share"}, s : Sessions, l : Leases]
      BY <2>1, Shapes, EnsurerShape DEF IInv
    <3>2. [th[P] EXCEPT !.pc = "record"].pc = "record"
      BY <3>1
    <3>3. th'[P].pc = "record"
      BY <3>2, GoDoes, Names DEF IInv
    <3> QED BY <3>3
  <2>3. token' = [token EXCEPT ![l] = "none"] /\ Discard(l) /\ Answer
    BY <1>0, <2>2 DEF EnsureFinish
  <2>4. UNCHANGED <<scope, active, shared, sess, enabled, daemon>>
    BY DEF EnsureFinish
  <2> QED BY <2>1, <2>3, <2>4, DiscardDoes, GoDoes, Names, SMTT(60) DEF Answer, IInv, TypeOK
<1>2. FieldsOK
  BY Fields DEF IInv
<1>3. Running' = Running \ {l} /\ Ended \subseteq Ended' /\ Doomed' = Doomed
  BY <1>0, <1>1, Names DEF Doomed, Idle
<1>4. InHand \subseteq InHand' \cup {l}
  BY <1>0, <1>1, <1>2, <1>3, Names DEF InHand, Idle
<1>a. TypeOK'
  BY <1>0, <1>1, Names, SMTT(30) DEF IInv, TypeOK, P, Ensurer, Idle
<1>b. LocksHeld'
  BY <1>0, <1>1, Names DEF IInv, LocksHeld, Idle, AtWork, Looping
<1>c. Known'
  BY <1>0, <1>1, <1>2, Names DEF IInv, FieldsOK, Known, Idle, TokensTaken
<1>d. TokensTaken' /\ TokensDieWithLease'
  BY <1>0, <1>1, <1>2, Names DEF IInv, FieldsOK, TokensTaken, TokensDieWithLease, Idle, Exists, LiveStates, NoLease, LocksHeld, AtWork, Looping
<1>e. Ensuring'
  BY <1>0, <1>1, <1>2, <1>3, Names DEF IInv, FieldsOK, AtWork, Ensuring, Idle, NoShared
<1>f. Sharing'
  BY <1>0, <1>1, <1>2, <1>3, Names, SMTT(30) DEF IInv, FieldsOK, AtWork, Sharing, TypeOK, Idle, NoShared
<1>l. Leaving'
  BY <1>0, <1>1, <1>2, Names DEF IInv, FieldsOK, Leaving, Idle
<1>g. LoopEnded'
  BY <1>0, <1>1, <1>2, <1>3, Names DEF IInv, FieldsOK, LoopEnded, Idle
<1>h. BrowsersAreOwned'
  BY <1>0, <1>1, <1>2, <1>3, <1>4, Names DEF IInv, FieldsOK, BrowsersAreOwned, Exists
<1> QED BY <1>a, <1>b, <1>c, <1>d, <1>e, <1>f, <1>l, <1>g, <1>h DEF IInv

\* The session has the browser, which is to be shared.
LEMMA EnsureRecordShares ==
  ASSUME IInv, EnsureRecord, scope = "profile"
  PROVE  IInv'
<1>0. PICK s, l : s = th[P].s /\ l = th[P].l
  OBVIOUS
<1>1. /\ th[P].pc = "record" /\ s \in Sessions /\ l \in Leases
      /\ th'[P] = [pc |-> "share", s |-> s, l |-> l]
      /\ th' = [u \in Threads |-> th'[u]] /\ \A u \in Threads : u # P => th'[u] = th[u]
      /\ active' \in [Sessions -> Leases \cup {None}] /\ active'[s] = l /\ \A r \in Sessions : r # s => active'[r] = active[r]
      /\ UNCHANGED <<lease, proc, token, slips, scope, shared, sess, enabled, lifecycle, mgr, managed, daemon>>
 <2>1. th[P].pc = "record" /\ s \in Sessions /\ l \in Leases /\ th[P] = [pc |-> "record", s |-> s, l |-> l]
    BY <1>0, Shapes, EnsurerShape DEF EnsureRecord, Ensure, IInv
  <2>2. active' = [active EXCEPT ![s] = l]
    BY <1>0 DEF EnsureRecord
  <2>3. Go(P, [pc |-> "share", s |-> s, l |-> l])
    BY <2>1 DEF EnsureRecord
  <2> QED BY <2>1, <2>2, <2>3, GoDoes, Names DEF IInv, TypeOK, EnsureRecord
<1>2. FieldsOK
  BY Fields DEF IInv
<1>3. Running' = Running /\ Ended' = Ended /\ Doomed' = Doomed
  BY <1>0, <1>1, Names DEF Running, Ended, Excused, Doomed
<1>4. InHand \subseteq InHand'
  BY <1>0, <1>1, <1>2, <1>3, Names DEF InHand, FieldsOK, IInv, Ensuring
<1>a. TypeOK'
  BY <1>0, <1>1, Names, SMTT(30) DEF IInv, TypeOK, P, Ensurer
<1>b. LocksHeld'
  BY <1>0, <1>1, Names DEF IInv, LocksHeld, Idle, AtWork, Looping
<1>c. Known'
  BY <1>0, <1>1, <1>2, Names DEF IInv, FieldsOK, Known, Idle
<1>d. TokensTaken' /\ TokensDieWithLease'
  BY <1>0, <1>1, <1>2, Names DEF IInv, FieldsOK, TokensTaken, TokensDieWithLease, Idle, Exists, LiveStates, NoLease
<1>e. Ensuring'
  BY <1>0, <1>1, <1>2, <1>3, Names DEF IInv, FieldsOK, AtWork, Ensuring, Idle, NoShared
<1>f. Sharing'
  BY <1>0, <1>1, <1>2, <1>3, Names, SMTT(30) DEF IInv, FieldsOK, AtWork, Sharing, TypeOK, Idle, NoShared, Ensuring, LocksHeld
<1>l. Leaving'
  BY <1>0, <1>1, <1>2, Names DEF IInv, FieldsOK, Leaving, Idle, Ensuring, LocksHeld, AtWork, NoShared
<1>g. LoopEnded'
  BY <1>0, <1>1, <1>2, <1>3, Names DEF IInv, FieldsOK, LoopEnded, Idle
<1>h. BrowsersAreOwned'
  BY <1>0, <1>1, <1>2, <1>3, <1>4, Names DEF IInv, FieldsOK, BrowsersAreOwned, Exists, Ensuring
<1> QED BY <1>a, <1>b, <1>c, <1>d, <1>e, <1>f, <1>l, <1>g, <1>h DEF IInv

\* The session has the browser.
LEMMA EnsureRecordAnswers ==
  ASSUME IInv, EnsureRecord, scope # "profile"
  PROVE  IInv'
<1>0. PICK s, l : s = th[P].s /\ l = th[P].l
  OBVIOUS
<1>1. /\ th[P].pc = "record" /\ s \in Sessions /\ l \in Leases /\ th'[P] = Idle /\ mgr' = "free" /\ managed' = "free" /\ lifecycle' = "free"
      /\ th' = [u \in Threads |-> th'[u]] /\ \A u \in Threads : u # P => th'[u] = th[u]
      /\ active' \in [Sessions -> Leases \cup {None}] /\ active'[s] = l /\ \A r \in Sessions : r # s => active'[r] = active[r]
      /\ UNCHANGED <<lease, proc, token, slips, scope, shared, sess, enabled, daemon>>
 <2>1. th[P].pc = "record" /\ s \in Sessions /\ l \in Leases /\ th[P] = [pc |-> "record", s |-> s, l |-> l]
    BY <1>0, Shapes, EnsurerShape DEF EnsureRecord, Ensure, IInv
  <2>2. active' = [active EXCEPT ![s] = l]
    BY <1>0 DEF EnsureRecord
  <2>3. Answer
    BY DEF EnsureRecord
  <2> QED BY <2>1, <2>2, <2>3, GoDoes, Names DEF IInv, TypeOK, EnsureRecord, Answer
<1>2. FieldsOK
  BY Fields DEF IInv
<1>3. Running' = Running /\ Ended' = Ended /\ Doomed' = Doomed
  BY <1>0, <1>1, Names DEF Running, Ended, Excused, Doomed
<1>4. InHand \subseteq InHand' \cup {l}
  BY <1>0, <1>1, <1>2, <1>3, Names DEF InHand, Idle, FieldsOK, IInv, Ensuring
<1>a. TypeOK'
  BY <1>0, <1>1, Names, SMTT(30) DEF IInv, TypeOK, P, Ensurer, Idle
<1>b. LocksHeld'
  BY <1>0, <1>1, Names DEF IInv, LocksHeld, Idle, AtWork, Looping
<1>c. Known'
  BY <1>0, <1>1, <1>2, Names DEF IInv, FieldsOK, Known, Idle
<1>d. TokensTaken' /\ TokensDieWithLease'
  BY <1>0, <1>1, <1>2, Names DEF IInv, FieldsOK, TokensTaken, TokensDieWithLease, Idle, Exists, LiveStates, NoLease
<1>e. Ensuring'
  BY <1>0, <1>1, <1>2, <1>3, Names DEF IInv, FieldsOK, AtWork, Ensuring, Idle, NoShared
<1>f. Sharing'
  BY <1>0, <1>1, <1>2, <1>3, Names, SMTT(30) DEF IInv, FieldsOK, AtWork, Sharing, TypeOK, Idle, NoShared, Ensuring, LocksHeld
<1>l. Leaving'
  BY <1>0, <1>1, <1>2, Names DEF IInv, FieldsOK, Leaving, Idle, Ensuring, LocksHeld, AtWork, NoShared
<1>g. LoopEnded'
  BY <1>0, <1>1, <1>2, <1>3, Names DEF IInv, FieldsOK, LoopEnded, Idle
<1>h. BrowsersAreOwned'
  BY <1>0, <1>1, <1>2, <1>3, <1>4, Names DEF IInv, FieldsOK, BrowsersAreOwned, Exists, Ensuring, LocksHeld, AtWork
<1> QED BY <1>a, <1>b, <1>c, <1>d, <1>e, <1>f, <1>l, <1>g, <1>h DEF IInv

\* The browser is shared.
LEMMA EnsureShareInv ==
  ASSUME IInv, EnsureShare
  PROVE  IInv'
<1>0. PICK s, l : s = th[P].s /\ l = th[P].l
  OBVIOUS
<1>1. /\ th[P].pc = "share" /\ s \in Sessions /\ l \in Leases /\ th'[P] = Idle /\ mgr' = "free" /\ managed' = "free" /\ lifecycle' = "free"
      /\ th' = [u \in Threads |-> th'[u]] /\ \A u \in Threads : u # P => th'[u] = th[u]
      /\ shared' = [lease |-> l, attached |-> {s}] /\ shared'.lease = l /\ shared'.attached = {s}
      /\ shared = NoShared /\ shared.lease = None
      /\ UNCHANGED <<lease, proc, token, slips, scope, active, sess, enabled, daemon>>
  BY <1>0, GoDoes, Names, Fields DEF EnsureShare, Answer, Ensure, IInv, FieldsOK, AtWork, Ensuring, NoShared
<1>2. FieldsOK
  BY Fields DEF IInv
<1>3. Running' = Running /\ Ended' = Ended /\ Doomed' = Doomed
  BY <1>0, <1>1, Names DEF Running, Ended, Excused, Doomed
<1>4. InHand \subseteq InHand' \cup {l} /\ Doomed \subseteq InHand'
  BY <1>0, <1>1, <1>2, <1>3, Names DEF InHand, Idle, Doomed, NoShared, FieldsOK
<1>a. TypeOK'
  BY <1>0, <1>1, Names, SMTT(30) DEF IInv, TypeOK, P, Ensurer, Idle
<1>b. LocksHeld'
  BY <1>0, <1>1, Names DEF IInv, LocksHeld, Idle, AtWork, Looping
<1>c. Known'
  BY <1>0, <1>1, <1>2, Names DEF IInv, FieldsOK, Known, Idle
<1>d. TokensTaken' /\ TokensDieWithLease'
  BY <1>0, <1>1, <1>2, Names DEF IInv, FieldsOK, TokensTaken, TokensDieWithLease, Idle, Exists, LiveStates, NoLease
<1>e. Ensuring'
  BY <1>0, <1>1, <1>2, <1>3, Names DEF IInv, FieldsOK, AtWork, Ensuring, Idle, NoShared
<1>f. Sharing'
 <2>1. scope = "profile"
    BY <1>1 DEF IInv, Ensuring
  <2>2. \A r \in Sessions : active'[r] \in Running' => shared'.lease = active'[r] \/ active'[r] \in Doomed'
    BY <1>0, <1>1, <1>2, <1>3, <2>1 DEF IInv, Sharing, FieldsOK
  <2>3. \A r \in Sessions : active'[r] \in Running' /\ sess'[r] = "ended" =>
          \E u \in Threads : th'[u].pc \in {"ending", "detach", "kill"} /\ r \in th'[u].ending
    BY <1>1, <1>2, <1>3 DEF IInv, Sharing, FieldsOK
  <2>4. l \in Running' => active'[s] = l \/ l \in Doomed'
    BY <1>0, <1>1, <1>3 DEF IInv, Ensuring
  <2> QED BY <1>1, <2>1, <2>2, <2>3, <2>4, Fields DEF Sharing, FieldsOK, IInv
<1>l. Leaving'
  BY <1>0, <1>1, <1>2, Names DEF IInv, FieldsOK, Leaving, Idle, Ensuring, LocksHeld, AtWork, NoShared
<1>g. LoopEnded'
  BY <1>0, <1>1, <1>2, <1>3, Names DEF IInv, FieldsOK, LoopEnded, Idle
<1>h. BrowsersAreOwned'
  BY <1>0, <1>1, <1>2, <1>3, <1>4, Names DEF IInv, FieldsOK, BrowsersAreOwned, Exists, Ensuring, LocksHeld, AtWork
<1> QED BY <1>a, <1>b, <1>c, <1>d, <1>e, <1>f, <1>l, <1>g, <1>h DEF IInv

\* A thread that ends sessions: it serves an administrator, or it is the loop, or
\* the one that shuts down, and it may have any of an ender's things in hand.
LEMMA EnderMoves ==
  ASSUME TypeOK, NEW t \in Threads, th[t].pc \in {"ending", "detach", "kill"} \/ (t \in Admins \cup {"loop"} /\ th[t] = Idle),
         th'[t] \in Ender, th' = [u \in Threads |-> th'[u]], \A u \in Threads : u # t => th'[u] = th[u]
  PROVE  /\ th'["principal"] \in Ensurer /\ th'["loop"] \in Loop /\ th'["main"] \in Main
         /\ \A u \in Admins : th'[u] \in Admin
         /\ t # P
<1>1. t # P
  BY Shapes, EnsurerShape, Names DEF Idle
<1> QED BY <1>1, Names DEF TypeOK, Loop, Main, Admin, P

\* Sessions end: the loop reaps them or an administrator ends them.
LEMMA EndSessionsInv ==
  ASSUME IInv, NEW t \in Admins \cup {"loop"}, NEW S \in SUBSET Sessions, EndSessions(t, S)
  PROVE  IInv'
<1>1. /\ t \in Threads /\ t # P /\ t # "main" /\ th[t] = Idle /\ th[t].pc = "idle" /\ managed = "free"
      /\ th'[t] = [pc |-> "ending", ending |-> S] /\ th'[t].pc = "ending" /\ th'[t].ending = S
      /\ th' = [u \in Threads |-> th'[u]] /\ \A u \in Threads : u # t => th'[u] = th[u]
      /\ sess' \in [Sessions -> {"live", "ended"}] /\ \A s \in Sessions : sess'[s] = IF s \in S THEN "ended" ELSE sess[s]
      /\ UNCHANGED <<lease, proc, token, slips, scope, active, shared, enabled, lifecycle, mgr, managed, daemon>>
  BY GoDoes, Names DEF EndSessions, IInv, TypeOK, locks, Idle
<1>2. FieldsOK
  BY Fields DEF IInv
<1>3. Running' = Running /\ Ended' = Ended /\ Doomed' = Doomed
  BY <1>1, Names DEF Running, Ended, Excused, Doomed
<1>4. InHand \subseteq InHand' /\ \A s \in S : active[s] \in Leases => active[s] \in InHand'
  BY <1>1, <1>2, <1>3, Names DEF InHand, Idle
<1>a. TypeOK'
 <2>1. th'[t] \in Ender
    BY <1>1, <1>2 DEF Ender, FieldsOK
  <2>2. /\ th'["principal"] \in Ensurer /\ th'["loop"] \in Loop /\ th'["main"] \in Main
        /\ \A u \in Admins : th'[u] \in Admin
    BY <1>1, <2>1, EnderMoves, Names DEF IInv
  <2> QED BY <1>1, <2>2, Names DEF IInv, TypeOK
<1>b. LocksHeld'
  BY <1>1, Names DEF IInv, LocksHeld, Idle, AtWork, Looping
<1>c. Known'
  BY <1>1, <1>2, Names DEF IInv, FieldsOK, Known, Idle
<1>d. TokensTaken' /\ TokensDieWithLease'
  BY <1>1, <1>2, Names DEF IInv, FieldsOK, TokensTaken, TokensDieWithLease, Idle, Exists, LiveStates, NoLease
<1>e. Ensuring'
  BY <1>1, <1>2, <1>3, Names DEF IInv, FieldsOK, AtWork, Ensuring, Idle, NoShared
<1>f. Sharing'
  BY <1>1, <1>2, <1>3, Names, SMTT(30) DEF IInv, FieldsOK, AtWork, Sharing, TypeOK, Idle, NoShared
<1>l. Leaving'
  BY <1>1, <1>2, Names DEF IInv, FieldsOK, Leaving, Idle
<1>g. LoopEnded'
  BY <1>1, <1>2, <1>3, Names DEF IInv, FieldsOK, LoopEnded, Idle
<1>h. BrowsersAreOwned'
  BY <1>1, <1>2, <1>3, <1>4, Names DEF IInv, FieldsOK, BrowsersAreOwned, Exists
<1> QED BY <1>a, <1>b, <1>c, <1>d, <1>e, <1>f, <1>l, <1>g, <1>h DEF IInv

\* The session that ended had no browser.
LEMMA EndDetachNothing ==
  ASSUME IInv, NEW t \in Threads, NEW s \in Sessions, EndDetach(t, s), active[s] = None
  PROVE  IInv'
<1>1. /\ th[t].pc = "ending" /\ t # P /\ s \in th[t].ending
      /\ th'[t] = [pc |-> "ending", ending |-> th[t].ending \ {s}] /\ th'[t].pc = "ending" /\ th'[t].ending = th[t].ending \ {s}
      /\ th' = [u \in Threads |-> th'[u]] /\ \A u \in Threads : u # t => th'[u] = th[u]
      /\ UNCHANGED <<lease, proc, token, slips, scope, active, shared, sess, enabled, lifecycle, mgr, managed, daemon>>
 <2>1. th[t].pc = "ending" /\ t # P /\ s \in th[t].ending /\ th[t] = [pc |-> "ending", ending |-> th[t].ending]
    BY Shapes, EnderShape DEF EndDetach, IInv
  <2>2. [th[t] EXCEPT !.ending = th[t].ending \ {s}] = [pc |-> "ending", ending |-> th[t].ending \ {s}]
    BY <2>1
  <2>3. Go(t, [pc |-> "ending", ending |-> th[t].ending \ {s}])
    BY <2>2 DEF EndDetach
  <2>4. active' = active
    BY DEF EndDetach, IInv, TypeOK
  <2> QED BY <2>1, <2>3, <2>4, GoDoes DEF EndDetach, IInv
<1>2. FieldsOK
  BY Fields DEF IInv
<1>3. Running' = Running /\ Ended' = Ended /\ Doomed' = Doomed
  BY <1>1, Names DEF Running, Ended, Excused, Doomed
<1>4. InHand' = InHand
  BY <1>1, <1>2, <1>3, Names DEF InHand, Idle, FieldsOK
<1>a. TypeOK'
 <2>1. th'[t] \in Ender
    BY <1>1, <1>2 DEF Ender, FieldsOK
  <2>2. /\ th'["principal"] \in Ensurer /\ th'["loop"] \in Loop /\ th'["main"] \in Main
        /\ \A u \in Admins : th'[u] \in Admin
    BY <1>1, <2>1, EnderMoves, Names DEF IInv
  <2> QED BY <1>1, <2>2, Names DEF IInv, TypeOK
<1>b. LocksHeld'
  BY <1>1, Names DEF IInv, LocksHeld, Idle, AtWork, Looping
<1>c. Known'
  BY <1>1, <1>2, Names DEF IInv, FieldsOK, Known, Idle
<1>d. TokensTaken' /\ TokensDieWithLease'
  BY <1>1, <1>2, Names DEF IInv, FieldsOK, TokensTaken, TokensDieWithLease, Idle, Exists, LiveStates, NoLease
<1>e. Ensuring'
  BY <1>1, <1>2, <1>3, Names DEF IInv, FieldsOK, AtWork, Ensuring, Idle, NoShared
<1>f. Sharing'
  BY <1>1, <1>2, <1>3, Names, SMTT(30) DEF IInv, FieldsOK, AtWork, Sharing, TypeOK, Idle, NoShared
<1>l. Leaving'
  BY <1>1, <1>2, Names DEF IInv, FieldsOK, Leaving, Idle
<1>g. LoopEnded'
  BY <1>1, <1>2, <1>3, Names DEF IInv, FieldsOK, LoopEnded, Idle
<1>h. BrowsersAreOwned'
  BY <1>1, <1>2, <1>3, <1>4, Names DEF IInv, FieldsOK, BrowsersAreOwned, Exists
<1> QED BY <1>a, <1>b, <1>c, <1>d, <1>e, <1>f, <1>l, <1>g, <1>h DEF IInv

\* The session that ended leaves the shared browser.
LEMMA EndDetachShared ==
  ASSUME IInv, NEW t \in Threads, NEW s \in Sessions, EndDetach(t, s), active[s] # None, scope = "profile"
  PROVE  IInv'
<1>0. PICK e : e = th[t].ending \ {s}
  OBVIOUS
<1>1. /\ th[t].pc = "ending" /\ t # P /\ s \in th[t].ending /\ lifecycle = "free" /\ lifecycle' = t
      /\ th'[t] = [pc |-> "detach", ending |-> e, s |-> s] /\ th'[t].pc = "detach" /\ th'[t].ending = e /\ th'[t].s = s
      /\ th' = [u \in Threads |-> th'[u]] /\ \A u \in Threads : u # t => th'[u] = th[u]
      /\ active' \in [Sessions -> Leases \cup {None}] /\ active'[s] = None /\ \A r \in Sessions : r # s => active'[r] = active[r]
      /\ UNCHANGED <<lease, proc, token, slips, scope, shared, sess, enabled, mgr, managed, daemon>>
  BY <1>0, Shapes, GoDoes DEF EndDetach, IInv, TypeOK
<1>2. FieldsOK
  BY Fields DEF IInv
<1>3. Running' = Running /\ Ended' = Ended /\ Doomed' = Doomed
  BY <1>0, <1>1, Names DEF Running, Ended, Excused, Doomed
<1>4. InHand \subseteq InHand' \cup {active[s]} /\ (shared.lease \in Leases => shared.lease \in InHand') /\ Doomed \subseteq InHand'
  BY <1>0, <1>1, <1>2, <1>3, Names DEF InHand, FieldsOK, Doomed
<1>a. TypeOK'
 <2>1. th'[t] \in Ender
    BY <1>0, <1>1, <1>2 DEF Ender, FieldsOK
  <2>2. /\ th'["principal"] \in Ensurer /\ th'["loop"] \in Loop /\ th'["main"] \in Main
        /\ \A u \in Admins : th'[u] \in Admin
    BY <1>1, <2>1, EnderMoves, Names DEF IInv
  <2> QED BY <1>1, <2>2, Names DEF IInv, TypeOK
<1>b. LocksHeld'
  BY <1>0, <1>1, Names DEF IInv, LocksHeld, Idle, AtWork, Looping
<1>c. Known'
  BY <1>0, <1>1, <1>2, Names DEF IInv, FieldsOK, Known, Idle
<1>d. TokensTaken' /\ TokensDieWithLease'
  BY <1>0, <1>1, <1>2, Names DEF IInv, FieldsOK, TokensTaken, TokensDieWithLease, Idle, Exists, LiveStates, NoLease
<1>e. Ensuring'
  BY <1>0, <1>1, <1>2, <1>3, Names DEF IInv, FieldsOK, AtWork, Ensuring, Idle, NoShared, LocksHeld
<1>f. Sharing'
  BY <1>0, <1>1, <1>2, <1>3, Names, SMTT(30) DEF IInv, FieldsOK, AtWork, Sharing, TypeOK, Idle, NoShared, LocksHeld
<1>l. Leaving'
  BY <1>0, <1>1, <1>2, Names DEF IInv, FieldsOK, Leaving, Idle
<1>g. LoopEnded'
  BY <1>0, <1>1, <1>2, <1>3, Names DEF IInv, FieldsOK, LoopEnded, Idle
<1>h. BrowsersAreOwned'
  BY <1>0, <1>1, <1>2, <1>3, <1>4, Names DEF IInv, FieldsOK, BrowsersAreOwned, Exists, Sharing, LocksHeld, AtWork
<1> QED BY <1>a, <1>b, <1>c, <1>d, <1>e, <1>f, <1>l, <1>g, <1>h DEF IInv

\* The browser of the session that ended is to be stopped.
LEMMA EndDetachOwn ==
  ASSUME IInv, NEW t \in Threads, NEW s \in Sessions, EndDetach(t, s), active[s] # None, scope # "profile"
  PROVE  IInv'
<1>0. PICK e, l : e = th[t].ending \ {s} /\ l = active[s]
  OBVIOUS
<1>1. /\ th[t].pc = "ending" /\ t # P /\ s \in th[t].ending /\ lifecycle = "free" /\ lifecycle' = t /\ l \in Leases /\ active[s] = l
      /\ th'[t] = [pc |-> "kill", ending |-> e, l |-> l] /\ th'[t].pc = "kill" /\ th'[t].ending = e /\ th'[t].l = l
      /\ th' = [u \in Threads |-> th'[u]] /\ \A u \in Threads : u # t => th'[u] = th[u]
      /\ active' \in [Sessions -> Leases \cup {None}] /\ active'[s] = None /\ \A r \in Sessions : r # s => active'[r] = active[r]
      /\ token' \in [Leases -> {"none", "registration", "signing"}]
      /\ \A k \in Leases : token'[k] = "signing" <=> token[k] = "signing" /\ k # l
      /\ \A k \in Leases : token'[k] = "none" <=> token[k] = "none"
      /\ UNCHANGED <<lease, proc, slips, scope, shared, sess, enabled, mgr, managed, daemon>>
  BY <1>0, Shapes, Fields, GoDoes, RevokeDoes DEF EndDetach, IInv, TypeOK, FieldsOK
<1>2. FieldsOK
  BY Fields DEF IInv
<1>3. Running' = Running /\ Ended' = Ended /\ Doomed' = Doomed
  BY <1>0, <1>1, Names DEF Running, Ended, Excused, Doomed
<1>4. InHand \subseteq InHand' /\ l \in InHand'
  BY <1>0, <1>1, <1>2, <1>3, Names DEF InHand, FieldsOK
<1>a. TypeOK'
 <2>1. th'[t] \in Ender
    BY <1>0, <1>1, <1>2 DEF Ender, FieldsOK
  <2>2. /\ th'["principal"] \in Ensurer /\ th'["loop"] \in Loop /\ th'["main"] \in Main
        /\ \A u \in Admins : th'[u] \in Admin
    BY <1>1, <2>1, EnderMoves, Names DEF IInv
  <2> QED BY <1>1, <2>2, Names DEF IInv, TypeOK
<1>b. LocksHeld'
  BY <1>0, <1>1, Names DEF IInv, LocksHeld, Idle, AtWork, Looping
<1>c. Known'
  BY <1>0, <1>1, <1>2, Names DEF IInv, FieldsOK, Known, Idle
<1>d. TokensTaken' /\ TokensDieWithLease'
  BY <1>0, <1>1, <1>2, Names DEF IInv, FieldsOK, TokensTaken, TokensDieWithLease, Idle, Exists, LiveStates, NoLease
<1>e. Ensuring'
  BY <1>0, <1>1, <1>2, <1>3, Names DEF IInv, FieldsOK, AtWork, Ensuring, Idle, NoShared, LocksHeld
<1>f. Sharing'
  BY <1>0, <1>1, <1>2, <1>3, ScopesAssumption, Names, SMTT(30) DEF IInv, FieldsOK, AtWork, Sharing, TypeOK, Idle, NoShared, LocksHeld
<1>l. Leaving'
  BY <1>0, <1>1, <1>2, Names DEF IInv, FieldsOK, Leaving, Idle
<1>g. LoopEnded'
  BY <1>0, <1>1, <1>2, <1>3, Names DEF IInv, FieldsOK, LoopEnded, Idle
<1>h. BrowsersAreOwned'
  BY <1>0, <1>1, <1>2, <1>3, <1>4, Names DEF IInv, FieldsOK, BrowsersAreOwned, Exists
<1> QED BY <1>a, <1>b, <1>c, <1>d, <1>e, <1>f, <1>l, <1>g, <1>h DEF IInv

\* The last session leaves the shared browser, which is to be stopped.
LEMMA DetachLast ==
  ASSUME IInv, NEW t \in Threads, DetachSession(t), th[t].s \in shared.attached, shared.attached \ {th[t].s} = {}
  PROVE  IInv'
<1>0. PICK s, l, e : s = th[t].s /\ l = shared.lease /\ e = th[t].ending
  OBVIOUS
<1>1. /\ th[t].pc = "detach" /\ t # P /\ s \in Sessions /\ l \in Leases /\ shared.lease = l /\ shared.attached = {s}
      /\ th'[t] = [pc |-> "kill", ending |-> e, l |-> l] /\ th'[t].pc = "kill" /\ th'[t].ending = e /\ th'[t].l = l /\ e = th[t].ending
      /\ shared' = NoShared /\ shared'.lease = None /\ shared'.attached = {} /\ shared' \in [lease : Leases \cup {None}, attached : SUBSET Sessions]
      /\ th' = [u \in Threads |-> th'[u]] /\ \A u \in Threads : u # t => th'[u] = th[u]
      /\ token' \in [Leases -> {"none", "registration", "signing"}]
      /\ \A k \in Leases : token'[k] = "signing" <=> token[k] = "signing" /\ k # l
      /\ \A k \in Leases : token'[k] = "none" <=> token[k] = "none"
      /\ UNCHANGED <<lease, proc, slips, scope, active, sess, enabled, lifecycle, mgr, managed, daemon>>
 <2>1. th[t].pc = "detach" /\ t # P /\ s \in Sessions
    BY <1>0, Shapes, EnderShape DEF DetachSession, IInv
  <2>2. shared.attached = {s} /\ l \in Leases
    BY <1>0, Fields DEF IInv, Sharing, FieldsOK
  <2>3. Go(t, [pc |-> "kill", ending |-> e, l |-> l]) /\ RevokeByLease({l}) /\ shared' = NoShared
    BY <1>0 DEF DetachSession
  <2>4. UNCHANGED <<lease, proc, slips, scope, active, sess, enabled, lifecycle, mgr, managed, daemon>>
    BY <1>0 DEF DetachSession
  <2>5. NoShared \in [lease : Leases \cup {None}, attached : SUBSET Sessions]
    BY DEF NoShared
  <2>6. NoShared.lease = None /\ NoShared.attached = {}
    BY DEF NoShared
  <2> HIDE DEF DetachSession
  <2>7. th' = [u \in Threads |-> th'[u]] /\ th'[t] = [pc |-> "kill", ending |-> e, l |-> l]
        /\ \A u \in Threads : u # t => th'[u] = th[u]
    BY <2>3, GoDoes DEF IInv
  <2> QED BY <1>0, <2>1, <2>2, <2>3, <2>4, <2>5, <2>6, <2>7, RevokeDoes DEF IInv
<1>2. FieldsOK
  BY Fields DEF IInv
<1>3. Running' = Running /\ Ended' = Ended /\ Doomed' = Doomed
  BY <1>0, <1>1, Names DEF Running, Ended, Excused, Doomed
<1>4. InHand \subseteq InHand'
  BY <1>0, <1>1, <1>2, <1>3, Names DEF InHand, FieldsOK
<1>a. TypeOK'
 <2>1. th'[t] \in Ender
    BY <1>0, <1>1, <1>2 DEF Ender, FieldsOK
  <2>2. /\ th'["principal"] \in Ensurer /\ th'["loop"] \in Loop /\ th'["main"] \in Main
        /\ \A u \in Admins : th'[u] \in Admin
    BY <1>1, <2>1, EnderMoves, Names DEF IInv
  <2> QED BY <1>1, <2>2, Names DEF IInv, TypeOK
<1>b. LocksHeld'
  BY <1>0, <1>1, Names DEF IInv, LocksHeld, Idle, AtWork, Looping
<1>c. Known'
  BY <1>0, <1>1, <1>2, Names DEF IInv, FieldsOK, Known, Idle
<1>d. TokensTaken' /\ TokensDieWithLease'
  BY <1>0, <1>1, <1>2, Names DEF IInv, FieldsOK, TokensTaken, TokensDieWithLease, Idle, Exists, LiveStates, NoLease
<1>e. Ensuring'
  BY <1>0, <1>1, <1>2, <1>3, Names DEF IInv, FieldsOK, AtWork, Ensuring, Idle, NoShared, LocksHeld
<1>f. Sharing'
 <2>1. scope = "profile"
    BY <1>1, ScopesAssumption DEF IInv, Sharing, TypeOK
  <2>2. th[P].pc \notin AtWork
    BY <1>1, Names DEF IInv, LocksHeld
  <2> QED BY <1>0, <1>1, <1>2, <1>3, <2>1, <2>2, Names DEF IInv, FieldsOK, AtWork, Sharing, NoShared, Leaving
<1>l. Leaving'
  BY <1>0, <1>1, <1>2, Names DEF IInv, FieldsOK, Leaving, Idle
<1>g. LoopEnded'
  BY <1>0, <1>1, <1>2, <1>3, Names DEF IInv, FieldsOK, LoopEnded, Idle
<1>h. BrowsersAreOwned'
  BY <1>0, <1>1, <1>2, <1>3, <1>4, Names DEF IInv, FieldsOK, BrowsersAreOwned, Exists
<1> QED BY <1>a, <1>b, <1>c, <1>d, <1>e, <1>f, <1>l, <1>g, <1>h DEF IInv

\* A session leaves the shared browser to others.
LEMMA DetachOne ==
  ASSUME IInv, NEW t \in Threads, DetachSession(t), ~(th[t].s \in shared.attached /\ shared.attached \ {th[t].s} = {})
  PROVE  IInv'
<1>0. PICK s, e : s = th[t].s /\ e = th[t].ending
  OBVIOUS
<1>1. /\ th[t].pc = "detach" /\ t # P /\ s \in Sessions /\ e = th[t].ending /\ s = th[t].s /\ lifecycle = t /\ lifecycle' = "free"
      /\ th'[t] = [pc |-> "ending", ending |-> e] /\ th'[t].pc = "ending" /\ th'[t].ending = e
      /\ shared' \in [lease : Leases \cup {None}, attached : SUBSET Sessions] /\ shared'.lease = shared.lease /\ shared'.attached = shared.attached \ {s}
      /\ th' = [u \in Threads |-> th'[u]] /\ \A u \in Threads : u # t => th'[u] = th[u]
      /\ UNCHANGED <<lease, proc, slips, scope, active, sess, enabled, token, mgr, managed, daemon>>
 <2>1. th[t].pc = "detach" /\ t # P /\ s \in Sessions /\ lifecycle = t
    BY <1>0, Shapes, EnderShape DEF DetachSession, IInv, LocksHeld
  <2>2. Go(t, [pc |-> "ending", ending |-> e]) /\ shared' = [shared EXCEPT !.attached = shared.attached \ {s}]
    BY <1>0 DEF DetachSession
  <2>3. UNCHANGED <<lease, proc, slips, scope, active, sess, enabled, token, mgr, managed, daemon>> /\ lifecycle' = "free"
    BY <1>0 DEF DetachSession
  <2>4. shared' \in [lease : Leases \cup {None}, attached : SUBSET Sessions] /\ shared'.lease = shared.lease /\ shared'.attached = shared.attached \ {s}
    BY <2>2 DEF IInv, TypeOK
  <2> HIDE DEF DetachSession
  <2>5. th' = [u \in Threads |-> th'[u]] /\ th'[t] = [pc |-> "ending", ending |-> e]
        /\ \A u \in Threads : u # t => th'[u] = th[u]
    BY <2>2, GoDoes DEF IInv
  <2> QED BY <1>0, <2>1, <2>3, <2>4, <2>5
<1>2. FieldsOK
  BY Fields DEF IInv
<1>3. Running' = Running /\ Ended' = Ended /\ Doomed' = Doomed
  BY <1>0, <1>1, Names DEF Running, Ended, Excused, Doomed
<1>4. InHand \subseteq InHand' \cup {shared.lease} /\ Doomed \subseteq InHand'
  BY <1>0, <1>1, <1>2, <1>3, Names DEF InHand, FieldsOK, Doomed
<1>6. \A r \in Sessions : active[r] \in Leases /\ sess[r] = "ended" /\ active[r] \in Running => active[r] \in InHand'
  <2> SUFFICES ASSUME NEW r \in Sessions, active[r] \in Leases, sess[r] = "ended", active[r] \in Running
               PROVE  active[r] \in InHand'
    OBVIOUS
  <2>1. PICK u \in Threads : th[u].pc \in {"ending", "detach", "kill"} /\ r \in th[u].ending
    BY DEF IInv, Sharing
  <2>2. th'[u].pc \in {"ending", "detach", "kill"} /\ r \in th'[u].ending
    BY <1>1, <2>1
  <2> QED BY <1>1, <2>2 DEF InHand
<1>7. shared.lease \in Running => shared.lease \in InHand' \/ \E r \in Sessions : active[r] = shared.lease /\ sess[r] = "live"
  <2> SUFFICES ASSUME shared.lease \in Running
               PROVE  shared.lease \in InHand' \/ \E r \in Sessions : active[r] = shared.lease /\ sess[r] = "live"
    OBVIOUS
  <2>1. shared.lease \in Leases /\ shared.attached # {}
    BY <1>2 DEF FieldsOK, IInv, Sharing
  <2>2. PICK r \in shared.attached : r # s
    BY <1>0, <2>1
  <2>3. \/ active[r] = shared.lease \/ shared.lease \in Doomed
        \/ \E u \in Threads : th[u].pc = "detach" /\ th[u].s = r
    BY <1>1, <2>2, Names DEF IInv, Sharing, LocksHeld, AtWork
  <2>4. ~\E u \in Threads : th[u].pc = "detach" /\ th[u].s = r
    BY <1>1, <2>2 DEF IInv, LocksHeld
  <2>5. r \in Sessions /\ sess[r] \in {"live", "ended"}
    BY <2>2, <1>2 DEF FieldsOK, IInv, TypeOK
  <2> QED BY <1>4, <1>6, <2>1, <2>3, <2>4, <2>5
<1>a. TypeOK'
 <2>1. th'[t] \in Ender
    BY <1>0, <1>1, <1>2 DEF Ender, FieldsOK
  <2>2. /\ th'["principal"] \in Ensurer /\ th'["loop"] \in Loop /\ th'["main"] \in Main
        /\ \A u \in Admins : th'[u] \in Admin
    BY <1>1, <2>1, EnderMoves, Names DEF IInv
  <2> QED BY <1>1, <2>2, Names DEF IInv, TypeOK
<1>b. LocksHeld'
  BY <1>0, <1>1, Names DEF IInv, LocksHeld, Idle, AtWork, Looping
<1>c. Known'
  BY <1>0, <1>1, <1>2, Names DEF IInv, FieldsOK, Known, Idle
<1>d. TokensTaken' /\ TokensDieWithLease'
  BY <1>0, <1>1, <1>2, Names DEF IInv, FieldsOK, TokensTaken, TokensDieWithLease, Idle, Exists, LiveStates, NoLease
<1>e. Ensuring'
  BY <1>0, <1>1, <1>2, <1>3, Names DEF IInv, FieldsOK, AtWork, Ensuring, Idle, NoShared, LocksHeld
<1>f. Sharing'
 <2>1. shared.lease = None <=> shared'.attached = {}
    BY <1>0, <1>1 DEF IInv, Sharing
  <2>2. scope = "profile"
    BY <1>1, ScopesAssumption DEF IInv, Sharing, TypeOK
  <2> QED BY <1>0, <1>1, <1>3, <2>1, <2>2, Names DEF IInv, Sharing
<1>l. Leaving'
  BY <1>0, <1>1, <1>2, Names DEF IInv, FieldsOK, Leaving, Idle
<1>g. LoopEnded'
  BY <1>0, <1>1, <1>2, <1>3, Names DEF IInv, FieldsOK, LoopEnded, Idle
<1>h. BrowsersAreOwned'
  BY <1>0, <1>1, <1>2, <1>3, <1>4, <1>7, Names DEF IInv, FieldsOK, BrowsersAreOwned, Exists
<1> QED BY <1>a, <1>b, <1>c, <1>d, <1>e, <1>f, <1>l, <1>g, <1>h DEF IInv

\* The browser of a session that ended is stopped.
LEMMA EndKillInv ==
  ASSUME IInv, NEW t \in Threads, EndKill(t)
  PROVE  IInv'
<1>0. PICK l, e : l = th[t].l /\ e = th[t].ending
  OBVIOUS
<1>1. /\ th[t].pc = "kill" /\ t # P /\ l \in Leases /\ e = th[t].ending /\ lifecycle = t /\ lifecycle' = "free" /\ mgr = "free"
      /\ th'[t] = [pc |-> "ending", ending |-> e] /\ th'[t].pc = "ending" /\ th'[t].ending = e
      /\ th' = [u \in Threads |-> th'[u]] /\ \A u \in Threads : u # t => th'[u] = th[u]
      /\ lease' \in [Leases -> Lease \cup {NoLease}]
      /\ lease'[l] = NoLease /\ \A k \in Leases : k # l => lease'[k] = lease[k]
      /\ proc' \in [Leases -> {"unborn", "running", "zombie", "gone"}]
      /\ \A k \in Leases : proc'[k] = "unborn" <=> proc[k] = "unborn"
      /\ Running' = Running \ {l} /\ Ended \subseteq Ended'
      /\ UNCHANGED <<scope, active, shared, sess, enabled, token, mgr, managed, daemon>>
 <2>1. th[t].pc = "kill" /\ t # P /\ l \in Leases /\ lifecycle = t /\ mgr = "free"
    BY <1>0, Shapes, EnderShape DEF EndKill, IInv, LocksHeld
  <2>2. Go(t, [pc |-> "ending", ending |-> e]) /\ Discard(l)
    BY <1>0 DEF EndKill
  <2>3. UNCHANGED <<scope, active, shared, sess, enabled, token, mgr, managed, daemon>> /\ lifecycle' = "free"
    BY <1>0 DEF EndKill
  <2> HIDE DEF EndKill
  <2>5. th' = [u \in Threads |-> th'[u]] /\ th'[t] = [pc |-> "ending", ending |-> e]
        /\ \A u \in Threads : u # t => th'[u] = th[u]
    BY <2>2, GoDoes DEF IInv
  <2> QED BY <1>0, <2>1, <2>2, <2>3, <2>5, DiscardDoes
<1>2. FieldsOK
  BY Fields DEF IInv
<1>3. Running' = Running \ {l} /\ Ended \subseteq Ended' /\ Doomed' = Doomed
  BY <1>0, <1>1, Names DEF Doomed
<1>4. InHand \subseteq InHand' \cup {l}
  BY <1>0, <1>1, <1>2, <1>3, Names DEF InHand
<1>a. TypeOK'
 <2>1. th'[t] \in Ender
    BY <1>0, <1>1, <1>2 DEF Ender, FieldsOK
  <2>2. /\ th'["principal"] \in Ensurer /\ th'["loop"] \in Loop /\ th'["main"] \in Main
        /\ \A u \in Admins : th'[u] \in Admin
    BY <1>1, <2>1, EnderMoves, Names DEF IInv
  <2> QED BY <1>1, <2>2, Names DEF IInv, TypeOK
<1>b. LocksHeld'
  BY <1>0, <1>1, Names DEF IInv, LocksHeld, Idle, AtWork, Looping
<1>c. Known'
  BY <1>0, <1>1, <1>2, Names DEF IInv, FieldsOK, Known, Idle
<1>d. TokensTaken' /\ TokensDieWithLease'
  BY <1>0, <1>1, <1>2, Names DEF IInv, FieldsOK, TokensTaken, TokensDieWithLease, Idle, Exists, LiveStates, NoLease, LocksHeld, AtWork, Looping
<1>e. Ensuring'
  BY <1>0, <1>1, <1>2, <1>3, Names DEF IInv, FieldsOK, AtWork, Ensuring, Idle, NoShared, LocksHeld
<1>f. Sharing'
  BY <1>0, <1>1, <1>2, <1>3, Names, SMTT(30) DEF IInv, FieldsOK, AtWork, Sharing, TypeOK, Idle, NoShared
<1>l. Leaving'
  BY <1>0, <1>1, <1>2, Names DEF IInv, FieldsOK, Leaving, Idle
<1>g. LoopEnded'
  BY <1>0, <1>1, <1>2, <1>3, Names DEF IInv, FieldsOK, LoopEnded, Idle
<1>h. BrowsersAreOwned'
  BY <1>0, <1>1, <1>2, <1>3, <1>4, Names DEF IInv, FieldsOK, BrowsersAreOwned, Exists
<1> QED BY <1>a, <1>b, <1>c, <1>d, <1>e, <1>f, <1>l, <1>g, <1>h DEF IInv

\* A thread has ended its sessions.
LEMMA EndDoneInv ==
  ASSUME IInv, NEW t \in Threads, EndDone(t)
  PROVE  IInv'
<1>1. /\ th[t].pc = "ending" /\ t # P /\ th[t].ending = {}
      /\ \/ t # "main" /\ th'[t] = Idle /\ managed' = managed
         \/ t = "main" /\ th'[t] = [pc |-> "terminate"] /\ managed' = "free"
      /\ th' = [u \in Threads |-> th'[u]] /\ \A u \in Threads : u # t => th'[u] = th[u]
      /\ UNCHANGED <<lease, proc, slips, scope, active, shared, sess, enabled, token, mgr, lifecycle, daemon>>
  BY Shapes, GoDoes DEF EndDone, IInv
<1>2. FieldsOK
  BY Fields DEF IInv
<1>3. Running' = Running /\ Ended' = Ended /\ Doomed' = Doomed
  BY <1>1, Names DEF Running, Ended, Excused, Doomed, Idle
<1>4. InHand' = InHand
  BY <1>1, <1>2, <1>3, Names DEF InHand, Idle
<1>a. TypeOK'
  BY <1>1, Names DEF IInv, TypeOK, P, Idle, Main, Loop, Admin
<1>b. LocksHeld'
  BY <1>1, Names DEF IInv, LocksHeld, Idle, AtWork, Looping
<1>c. Known'
  BY <1>1, <1>2, Names DEF IInv, FieldsOK, Known, Idle
<1>d. TokensTaken' /\ TokensDieWithLease'
  BY <1>1, <1>2, Names DEF IInv, FieldsOK, TokensTaken, TokensDieWithLease, Idle, Exists, LiveStates, NoLease
<1>e. Ensuring'
  BY <1>1, <1>2, <1>3, Names DEF IInv, FieldsOK, AtWork, Ensuring, Idle, NoShared
<1>f. Sharing'
  BY <1>1, <1>2, <1>3, Names, SMTT(30) DEF IInv, FieldsOK, AtWork, Sharing, TypeOK, Idle, NoShared
<1>l. Leaving'
  BY <1>1, <1>2, Names DEF IInv, FieldsOK, Leaving, Idle
<1>g. LoopEnded'
  BY <1>1, <1>2, <1>3, Names DEF IInv, FieldsOK, LoopEnded, Idle
<1>h. BrowsersAreOwned'
  BY <1>1, <1>2, <1>3, <1>4, Names DEF IInv, FieldsOK, BrowsersAreOwned, Exists
<1> QED BY <1>a, <1>b, <1>c, <1>d, <1>e, <1>f, <1>l, <1>g, <1>h DEF IInv

\* What a cleanup has in hand is what a thread that serves an administrator may have.
LEMMA AdminKinds ==
  ASSUME NEW why \in {"reload", "disable"}, NEW L \in SUBSET Leases
  PROVE  /\ Idle \in Admin /\ [pc |-> "find"] \in Admin /\ [pc |-> "adminlaunch"] \in Admin
         /\ [pc |-> "drain", why |-> why] \in Admin /\ [pc |-> "unshare", why |-> why, todo |-> L] \in Admin
         /\ [pc |-> "killall", why |-> why, todo |-> L] \in Admin
BY DEF Admin, Idle

\* A thread that serves an administrator moves.
LEMMA AdminMoves ==
  ASSUME TypeOK, NEW t \in Admins, th'[t] \in Admin,
         th' = [u \in Threads |-> th'[u]], \A u \in Threads : u # t => th'[u] = th[u]
  PROVE  /\ th'["principal"] \in Ensurer /\ th'["loop"] \in Loop /\ th'["main"] \in Main
         /\ \A u \in Admins : th'[u] \in Admin
BY Names DEF TypeOK, P

\* A reload, or the end of a profile, begins to clean up its browsers.
LEMMA CleanupBeginInv ==
  ASSUME IInv, NEW t \in Admins, NEW why \in {"reload", "disable"}, CleanupBegin(t, why)
  PROVE  IInv'
<1>1. /\ t \in Threads /\ th[t] = Idle /\ th[t].pc = "idle" /\ enabled' \in {"no", "yes"}
      /\ th'[t] = [pc |-> "drain", why |-> why]
      /\ th' = [u \in Threads |-> th'[u]] /\ \A u \in Threads : u # t => th'[u] = th[u]
      /\ UNCHANGED <<lease, proc, slips, scope, active, shared, sess, token, mgr, lifecycle, managed, daemon>>
  BY GoDoes, Names DEF CleanupBegin, IInv, TypeOK, locks, Idle
<1>2. FieldsOK
  BY Fields DEF IInv
<1>3. Running' = Running /\ Ended' = Ended /\ Doomed' = Doomed
  BY <1>1, Names DEF Running, Ended, Excused, Doomed
<1>4. InHand' = InHand
  BY <1>1, <1>2, <1>3, Names DEF InHand, Idle
<1>a. TypeOK'
 <2>1. Idle \in Admin /\ [pc |-> "find"] \in Admin /\ [pc |-> "adminlaunch"] \in Admin
    BY DEF Admin, Idle
  <2>2. th'[t] \in Admin
    BY <1>1, AdminKinds
  <2>3. /\ th'["principal"] \in Ensurer /\ th'["loop"] \in Loop /\ th'["main"] \in Main
        /\ \A u \in Admins : th'[u] \in Admin
    BY <1>1, <2>2, AdminMoves DEF IInv
  <2> QED BY <1>1, <2>3, Names DEF IInv, TypeOK
<1>b. LocksHeld'
  BY <1>1, Names DEF IInv, LocksHeld, Idle, AtWork, Looping
<1>c. Known'
  BY <1>1, <1>2, Names DEF IInv, FieldsOK, Known, Idle
<1>d. TokensTaken' /\ TokensDieWithLease'
  BY <1>1, <1>2, Names DEF IInv, FieldsOK, TokensTaken, TokensDieWithLease, Idle, Exists, LiveStates, NoLease
<1>e. Ensuring'
  BY <1>1, <1>2, <1>3, Names DEF IInv, FieldsOK, AtWork, Ensuring, Idle, NoShared
<1>f. Sharing'
  BY <1>1, <1>2, <1>3, Names, SMTT(30) DEF IInv, FieldsOK, AtWork, Sharing, TypeOK, Idle, NoShared
<1>l. Leaving'
  BY <1>1, <1>2, Names DEF IInv, FieldsOK, Leaving, Idle
<1>g. LoopEnded'
  BY <1>1, <1>2, <1>3, Names DEF IInv, FieldsOK, LoopEnded, Idle
<1>h. BrowsersAreOwned'
  BY <1>1, <1>2, <1>3, <1>4, Names DEF IInv, FieldsOK, BrowsersAreOwned, Exists
<1> QED BY <1>a, <1>b, <1>c, <1>d, <1>e, <1>f, <1>l, <1>g, <1>h DEF IInv

\* A profile is enabled again.
LEMMA EnableProfileInv ==
  ASSUME IInv, NEW t \in Admins, EnableProfile(t)
  PROVE  IInv'
<1>1. /\ enabled' = "yes"
      /\ UNCHANGED <<th, lease, proc, slips, scope, active, shared, sess, token, mgr, lifecycle, managed, daemon>>
  BY DEF EnableProfile, locks
<1>2. FieldsOK
  BY Fields DEF IInv
<1>3. Running' = Running /\ Ended' = Ended /\ Doomed' = Doomed
  BY <1>1, Names DEF Running, Ended, Excused, Doomed
<1>4. InHand' = InHand
  BY <1>1, <1>2, <1>3, Names DEF InHand, Idle
<1>a. TypeOK'
  BY <1>1, Names DEF IInv, TypeOK, P
<1>b. LocksHeld'
  BY <1>1, Names DEF IInv, LocksHeld, Idle, AtWork, Looping
<1>c. Known'
  BY <1>1, <1>2, Names DEF IInv, FieldsOK, Known, Idle
<1>d. TokensTaken' /\ TokensDieWithLease'
  BY <1>1, <1>2, Names DEF IInv, FieldsOK, TokensTaken, TokensDieWithLease, Idle, Exists, LiveStates, NoLease
<1>e. Ensuring'
  BY <1>1, <1>2, <1>3, Names DEF IInv, FieldsOK, AtWork, Ensuring, Idle, NoShared
<1>f. Sharing'
  BY <1>1, <1>2, <1>3, Names, SMTT(30) DEF IInv, FieldsOK, AtWork, Sharing, TypeOK, Idle, NoShared
<1>l. Leaving'
  BY <1>1, <1>2, Names DEF IInv, FieldsOK, Leaving, Idle
<1>g. LoopEnded'
  BY <1>1, <1>2, <1>3, Names DEF IInv, FieldsOK, LoopEnded, Idle
<1>h. BrowsersAreOwned'
  BY <1>1, <1>2, <1>3, <1>4, Names DEF IInv, FieldsOK, BrowsersAreOwned, Exists
<1> QED BY <1>a, <1>b, <1>c, <1>d, <1>e, <1>f, <1>l, <1>g, <1>h DEF IInv

\* An administrator asks for a browser.
LEMMA AdminAcceptInv ==
  ASSUME IInv, NEW t \in Admins, AdminAccept(t)
  PROVE  IInv'
<1>1. /\ t \in Threads /\ th[t] = Idle /\ th[t].pc = "idle"
      /\ th'[t] = [pc |-> "find"]
      /\ th' = [u \in Threads |-> th'[u]] /\ \A u \in Threads : u # t => th'[u] = th[u]
      /\ UNCHANGED <<lease, proc, slips, scope, active, shared, sess, enabled, token, mgr, lifecycle, managed, daemon>>
  BY GoDoes, Names DEF AdminAccept, IInv, TypeOK, locks, Idle
<1>2. FieldsOK
  BY Fields DEF IInv
<1>3. Running' = Running /\ Ended' = Ended /\ Doomed' = Doomed
  BY <1>1, Names DEF Running, Ended, Excused, Doomed
<1>4. InHand' = InHand
  BY <1>1, <1>2, <1>3, Names DEF InHand, Idle
<1>a. TypeOK'
 <2>1. Idle \in Admin /\ [pc |-> "find"] \in Admin /\ [pc |-> "adminlaunch"] \in Admin
    BY DEF Admin, Idle
  <2>2. th'[t] \in Admin
    BY <1>1, <2>1
  <2>3. /\ th'["principal"] \in Ensurer /\ th'["loop"] \in Loop /\ th'["main"] \in Main
        /\ \A u \in Admins : th'[u] \in Admin
    BY <1>1, <2>2, AdminMoves DEF IInv
  <2> QED BY <1>1, <2>3, Names DEF IInv, TypeOK
<1>b. LocksHeld'
  BY <1>1, Names DEF IInv, LocksHeld, Idle, AtWork, Looping
<1>c. Known'
  BY <1>1, <1>2, Names DEF IInv, FieldsOK, Known, Idle
<1>d. TokensTaken' /\ TokensDieWithLease'
  BY <1>1, <1>2, Names DEF IInv, FieldsOK, TokensTaken, TokensDieWithLease, Idle, Exists, LiveStates, NoLease
<1>e. Ensuring'
  BY <1>1, <1>2, <1>3, Names DEF IInv, FieldsOK, AtWork, Ensuring, Idle, NoShared
<1>f. Sharing'
  BY <1>1, <1>2, <1>3, Names, SMTT(30) DEF IInv, FieldsOK, AtWork, Sharing, TypeOK, Idle, NoShared
<1>l. Leaving'
  BY <1>1, <1>2, Names DEF IInv, FieldsOK, Leaving, Idle
<1>g. LoopEnded'
  BY <1>1, <1>2, <1>3, Names DEF IInv, FieldsOK, LoopEnded, Idle
<1>h. BrowsersAreOwned'
  BY <1>1, <1>2, <1>3, <1>4, Names DEF IInv, FieldsOK, BrowsersAreOwned, Exists
<1> QED BY <1>a, <1>b, <1>c, <1>d, <1>e, <1>f, <1>l, <1>g, <1>h DEF IInv

\* The browsers of the sessions are taken out of active_browser, to be stopped.
LEMMA DrainActiveInv ==
  ASSUME IInv, NEW t \in Admins, DrainActive(t)
  PROVE  IInv'
<1>0. PICK why, L : why = th[t].why /\ L = {active[s] : s \in Sessions} \ {None}
  OBVIOUS
<1>1. /\ t \in Threads /\ th[t].pc = "drain" /\ why \in {"reload", "disable"} /\ L \subseteq Leases
      /\ \A s \in Sessions : active[s] \in Leases => active[s] \in L
      /\ th'[t] = [pc |-> "unshare", why |-> why, todo |-> L] /\ th'[t].pc = "unshare" /\ th'[t].todo = L
      /\ th' = [u \in Threads |-> th'[u]] /\ \A u \in Threads : u # t => th'[u] = th[u]
      /\ active' \in [Sessions -> Leases \cup {None}] /\ \A s \in Sessions : active'[s] = None
      /\ UNCHANGED <<lease, proc, slips, scope, shared, sess, enabled, token, mgr, lifecycle, managed, daemon>>
 <2>1. th[t].pc = "drain" /\ why \in {"reload", "disable"} /\ t \in Threads
    BY <1>0, Shapes, AdminShape, Names DEF DrainActive, IInv
  <2>2. Go(t, [pc |-> "unshare", why |-> why, todo |-> L])
    BY <1>0 DEF DrainActive
  <2>3. L \subseteq Leases /\ \A s \in Sessions : active[s] \in Leases => active[s] \in L
    BY <1>0, Fields DEF IInv, FieldsOK
  <2>4. (active' \in [Sessions -> Leases \cup {None}] /\ \A s \in Sessions : active'[s] = None)
        /\ UNCHANGED <<lease, proc, slips, scope, shared, sess, enabled, token, mgr, lifecycle, managed, daemon>>
    BY DEF DrainActive, locks
  <2> HIDE DEF DrainActive
  <2>5. th' = [u \in Threads |-> th'[u]] /\ th'[t] = [pc |-> "unshare", why |-> why, todo |-> L]
        /\ \A u \in Threads : u # t => th'[u] = th[u]
    BY <2>1, <2>2, GoDoes DEF IInv
  <2> QED BY <2>1, <2>3, <2>4, <2>5
<1>2. FieldsOK
  BY Fields DEF IInv
<1>3. Running' = Running /\ Ended' = Ended /\ Doomed' = Doomed \cup L
  BY <1>0, <1>1, Names DEF Running, Ended, Excused, Doomed
<1>4. L \subseteq InHand' /\ InHand \subseteq InHand' /\ \A s \in Sessions : active[s] \in Leases => active[s] \in InHand'
  BY <1>0, <1>1, <1>2, <1>3, Names DEF InHand, FieldsOK
<1>a. TypeOK'
 <2>1. why \in {"reload", "disable"} /\ L \in SUBSET Leases
    BY <1>1
  <2>0. [pc |-> "unshare", why |-> why, todo |-> L] \in Admin /\ [pc |-> "killall", why |-> why, todo |-> L] \in Admin
    BY <2>1, AdminKinds
  <2>2. th'[t] \in Admin
    BY <1>1, <2>0
  <2>3. /\ th'["principal"] \in Ensurer /\ th'["loop"] \in Loop /\ th'["main"] \in Main
        /\ \A u \in Admins : th'[u] \in Admin
    BY <1>1, <2>2, AdminMoves DEF IInv
  <2> QED BY <1>1, <2>3, Names DEF IInv, TypeOK
<1>b. LocksHeld'
  BY <1>0, <1>1, Names DEF IInv, LocksHeld, Idle, AtWork, Looping
<1>c. Known'
  BY <1>0, <1>1, <1>2, Names DEF IInv, FieldsOK, Known, Idle
<1>d. TokensTaken' /\ TokensDieWithLease'
  BY <1>0, <1>1, <1>2, Names DEF IInv, FieldsOK, TokensTaken, TokensDieWithLease, Idle, Exists, LiveStates, NoLease
<1>e. Ensuring'
  BY <1>0, <1>1, <1>2, <1>3, Names DEF IInv, FieldsOK, AtWork, Ensuring, Idle, NoShared
<1>f. Sharing'
  BY <1>0, <1>1, <1>2, <1>3, Names, SMTT(60) DEF IInv, FieldsOK, AtWork, Sharing, TypeOK, Idle, NoShared
<1>l. Leaving'
  BY <1>0, <1>1, <1>2, Names DEF IInv, FieldsOK, Leaving, Idle
<1>g. LoopEnded'
  BY <1>0, <1>1, <1>2, <1>3, Names DEF IInv, FieldsOK, LoopEnded, Idle
<1>h. BrowsersAreOwned'
  BY <1>0, <1>1, <1>2, <1>3, <1>4, Names DEF IInv, FieldsOK, BrowsersAreOwned, Exists
<1> QED BY <1>a, <1>b, <1>c, <1>d, <1>e, <1>f, <1>l, <1>g, <1>h DEF IInv

\* The shared browser is taken out of shared_browsers, to be stopped.
LEMMA RemoveSharedInv ==
  ASSUME IInv, NEW t \in Admins, RemoveShared(t)
  PROVE  IInv'
<1>0. PICK why, L : why = th[t].why /\ L = th[t].todo \cup ({shared.lease} \ {None})
  OBVIOUS
<1>1. /\ t \in Threads /\ th[t].pc = "unshare" /\ why \in {"reload", "disable"} /\ L \subseteq Leases /\ th[t].todo \subseteq L
      /\ shared.lease \in Leases => shared.lease \in L
      /\ L \subseteq th[t].todo \cup {shared.lease}
      /\ th'[t] = [pc |-> "killall", why |-> why, todo |-> L] /\ th'[t].pc = "killall" /\ th'[t].todo = L
      /\ th' = [u \in Threads |-> th'[u]] /\ \A u \in Threads : u # t => th'[u] = th[u]
      /\ shared' = NoShared /\ shared'.lease = None /\ shared'.attached = {} /\ shared' \in [lease : Leases \cup {None}, attached : SUBSET Sessions]
      /\ UNCHANGED <<lease, proc, slips, scope, active, sess, enabled, token, mgr, lifecycle, managed, daemon>>
 <2>1. th[t].pc = "unshare" /\ why \in {"reload", "disable"} /\ t \in Threads /\ th[t].todo \subseteq Leases
        /\ th[t] = [pc |-> "unshare", why |-> why, todo |-> th[t].todo]
    BY <1>0, Shapes, AdminShape, Names DEF RemoveShared, IInv
  <2>2. [th[t] EXCEPT !.pc = "killall"] = [pc |-> "killall", why |-> why, todo |-> th[t].todo]
    BY <2>1
  <2>9. [[pc |-> "killall", why |-> why, todo |-> th[t].todo] EXCEPT !.todo = L] = [pc |-> "killall", why |-> why, todo |-> L]
    OBVIOUS
  <2>3. Go(t, [pc |-> "killall", why |-> why, todo |-> L])
    BY <1>0, <2>2, <2>9 DEF RemoveShared
  <2>4. L \subseteq Leases /\ th[t].todo \subseteq L /\ L \subseteq th[t].todo \cup {shared.lease}
        /\ (shared.lease \in Leases => shared.lease \in L)
    BY <1>0, <2>1, Fields DEF IInv, FieldsOK
  <2>5. shared' = NoShared /\ UNCHANGED <<lease, proc, slips, scope, active, sess, enabled, token, mgr, lifecycle, managed, daemon>>
    BY DEF RemoveShared, locks
  <2> HIDE DEF RemoveShared
  <2>6. NoShared \in [lease : Leases \cup {None}, attached : SUBSET Sessions] /\ NoShared.lease = None /\ NoShared.attached = {}
    BY DEF NoShared
  <2>7. th' = [u \in Threads |-> th'[u]] /\ th'[t] = [pc |-> "killall", why |-> why, todo |-> L]
        /\ \A u \in Threads : u # t => th'[u] = th[u]
    BY <2>1, <2>3, GoDoes DEF IInv
  <2> QED BY <2>1, <2>4, <2>5, <2>6, <2>7
<1>2. FieldsOK
  BY Fields DEF IInv
<1>3. Running' = Running /\ Ended' = Ended /\ Doomed \subseteq Doomed' /\ L \subseteq Doomed'
  BY <1>0, <1>1, Names DEF Running, Ended, Excused, Doomed
<1>4. L \subseteq InHand' /\ InHand \subseteq InHand'
  BY <1>0, <1>1, <1>2, <1>3, Names DEF InHand, FieldsOK
<1>a. TypeOK'
 <2>1. why \in {"reload", "disable"} /\ L \in SUBSET Leases
    BY <1>1
  <2>0. [pc |-> "unshare", why |-> why, todo |-> L] \in Admin /\ [pc |-> "killall", why |-> why, todo |-> L] \in Admin
    BY <2>1, AdminKinds
  <2>2. th'[t] \in Admin
    BY <1>1, <2>0
  <2>3. /\ th'["principal"] \in Ensurer /\ th'["loop"] \in Loop /\ th'["main"] \in Main
        /\ \A u \in Admins : th'[u] \in Admin
    BY <1>1, <2>2, AdminMoves DEF IInv
  <2> QED BY <1>1, <2>3, Names DEF IInv, TypeOK
<1>b. LocksHeld'
  BY <1>0, <1>1, Names DEF IInv, LocksHeld, Idle, AtWork, Looping
<1>c. Known'
  BY <1>0, <1>1, <1>2, Names DEF IInv, FieldsOK, Known, Idle
<1>d. TokensTaken' /\ TokensDieWithLease'
  BY <1>0, <1>1, <1>2, Names DEF IInv, FieldsOK, TokensTaken, TokensDieWithLease, Idle, Exists, LiveStates, NoLease
<1>e. Ensuring'
  BY <1>0, <1>1, <1>2, <1>3, Names DEF IInv, FieldsOK, AtWork, Ensuring, Idle, NoShared
<1>f. Sharing'
  BY <1>0, <1>1, <1>2, <1>3, Names, SMTT(30) DEF IInv, FieldsOK, AtWork, Sharing, TypeOK, Idle, NoShared
<1>l. Leaving'
  BY <1>0, <1>1, <1>2, Names DEF IInv, FieldsOK, Leaving, Idle
<1>g. LoopEnded'
  BY <1>0, <1>1, <1>2, <1>3, Names DEF IInv, FieldsOK, LoopEnded, Idle
<1>h. BrowsersAreOwned'
  BY <1>0, <1>1, <1>2, <1>3, <1>4, Names DEF IInv, FieldsOK, BrowsersAreOwned, Exists
<1> QED BY <1>a, <1>b, <1>c, <1>d, <1>e, <1>f, <1>l, <1>g, <1>h DEF IInv

\* One of the browsers of the profile is stopped.
LEMMA KillOneInv ==
  ASSUME IInv, NEW t \in Admins, NEW l \in Leases, KillOne(t, l)
  PROVE  IInv'
<1>0. PICK why, L : why = th[t].why /\ L = th[t].todo \ {l}
  OBVIOUS
<1>1. /\ t \in Threads /\ th[t].pc = "killall" /\ why \in {"reload", "disable"} /\ l \in th[t].todo /\ L \subseteq Leases /\ L = th[t].todo \ {l}
      /\ mgr \in {"free", t} /\ mgr' \in {"free", t}
      /\ th'[t] = [pc |-> "killall", why |-> why, todo |-> L] /\ th'[t].pc = "killall" /\ th'[t].todo = L
      /\ th' = [u \in Threads |-> th'[u]] /\ \A u \in Threads : u # t => th'[u] = th[u]
      /\ lease' \in [Leases -> Lease \cup {NoLease}]
      /\ lease'[l] = NoLease /\ \A k \in Leases : k # l => lease'[k] = lease[k]
      /\ proc' \in [Leases -> {"unborn", "running", "zombie", "gone"}]
      /\ \A k \in Leases : proc'[k] = "unborn" <=> proc[k] = "unborn"
      /\ Running' = Running \ {l} /\ Ended \subseteq Ended'
      /\ token' \in [Leases -> {"none", "registration", "signing"}]
      /\ \A k \in Leases : token'[k] = "signing" <=> token[k] = "signing" /\ k # l
      /\ \A k \in Leases : token'[k] = "none" <=> token[k] = "none"
      /\ UNCHANGED <<scope, active, shared, sess, enabled, lifecycle, managed, daemon>>
 <2>1. th[t].pc = "killall" /\ why \in {"reload", "disable"} /\ t \in Threads /\ th[t].todo \subseteq Leases
        /\ th[t] = [pc |-> "killall", why |-> why, todo |-> th[t].todo]
    BY <1>0, Shapes, AdminShape, Names DEF KillOne, IInv
  <2>2. [th[t] EXCEPT !.todo = L] = [pc |-> "killall", why |-> why, todo |-> L]
    BY <2>1
  <2>3. Go(t, [pc |-> "killall", why |-> why, todo |-> L])
    BY <1>0, <2>2 DEF KillOne
  <2>4. RevokeByLease({l}) /\ Discard(l) /\ l \in th[t].todo /\ mgr \in {"free", t} /\ mgr' \in {"free", t}
        /\ UNCHANGED <<scope, active, shared, sess, enabled, lifecycle, managed, daemon>>
    BY DEF KillOne
  <2> HIDE DEF KillOne
  <2>7. th' = [u \in Threads |-> th'[u]] /\ th'[t] = [pc |-> "killall", why |-> why, todo |-> L]
        /\ \A u \in Threads : u # t => th'[u] = th[u]
    BY <2>1, <2>3, GoDoes DEF IInv
  <2> QED BY <1>0, <2>1, <2>4, <2>7, DiscardDoes, RevokeDoes DEF IInv
<1>2. FieldsOK
  BY Fields DEF IInv
<1>3. Running' = Running \ {l} /\ Ended \subseteq Ended' /\ Doomed \subseteq Doomed' \cup {l}
  BY <1>0, <1>1, Names DEF Doomed
<1>4. InHand \subseteq InHand' \cup {l}
  BY <1>0, <1>1, <1>2, <1>3, Names DEF InHand
<1>a. TypeOK'
 <2>1. why \in {"reload", "disable"} /\ L \in SUBSET Leases
    BY <1>1
  <2>0. [pc |-> "unshare", why |-> why, todo |-> L] \in Admin /\ [pc |-> "killall", why |-> why, todo |-> L] \in Admin
    BY <2>1, AdminKinds
  <2>2. th'[t] \in Admin
    BY <1>1, <2>0
  <2>3. /\ th'["principal"] \in Ensurer /\ th'["loop"] \in Loop /\ th'["main"] \in Main
        /\ \A u \in Admins : th'[u] \in Admin
    BY <1>1, <2>2, AdminMoves DEF IInv
  <2> QED BY <1>1, <2>3, Names DEF IInv, TypeOK
<1>b. LocksHeld'
  BY <1>0, <1>1, Names DEF IInv, LocksHeld, Idle, AtWork, Looping
<1>c. Known'
  BY <1>0, <1>1, <1>2, Names DEF IInv, FieldsOK, Known, Idle
<1>d. TokensTaken' /\ TokensDieWithLease'
  BY <1>0, <1>1, <1>2, Names DEF IInv, FieldsOK, TokensTaken, TokensDieWithLease, Idle, Exists, LiveStates, NoLease, LocksHeld, AtWork, Looping
<1>e. Ensuring'
  BY <1>0, <1>1, <1>2, <1>3, Names DEF IInv, FieldsOK, AtWork, Ensuring, Idle, NoShared, LocksHeld
<1>f. Sharing'
  BY <1>0, <1>1, <1>2, <1>3, Names, SMTT(30) DEF IInv, FieldsOK, AtWork, Sharing, TypeOK, Idle, NoShared, LocksHeld
<1>l. Leaving'
  BY <1>0, <1>1, <1>2, Names DEF IInv, FieldsOK, Leaving, Idle
<1>g. LoopEnded'
  BY <1>0, <1>1, <1>2, <1>3, Names DEF IInv, FieldsOK, LoopEnded, Idle
<1>h. BrowsersAreOwned'
  BY <1>0, <1>1, <1>2, <1>3, <1>4, Names DEF IInv, FieldsOK, BrowsersAreOwned, Exists
<1> QED BY <1>a, <1>b, <1>c, <1>d, <1>e, <1>f, <1>l, <1>g, <1>h DEF IInv

\* The cleanup of a reload ends.
LEMMA CleanupEndReload ==
  ASSUME IInv, NEW t \in Admins, CleanupEnd(t), th[t].why # "disable"
  PROVE  IInv'
<1>1. /\ t \in Threads /\ th[t].pc = "killall" /\ th[t].todo = {} /\ th'[t] = Idle
      /\ th' = [u \in Threads |-> th'[u]] /\ \A u \in Threads : u # t => th'[u] = th[u]
      /\ UNCHANGED <<lease, proc, slips, scope, active, shared, sess, enabled, token, mgr, lifecycle, managed, daemon>>
  BY GoDoes, Names DEF CleanupEnd, IInv, locks
<1>2. FieldsOK
  BY Fields DEF IInv
<1>3. Running' = Running /\ Ended' = Ended /\ Doomed' = Doomed
  BY <1>1, Names DEF Running, Ended, Excused, Doomed, Idle
<1>4. InHand' = InHand
  BY <1>1, <1>2, <1>3, Names DEF InHand, Idle
<1>a. TypeOK'
 <2>1. Idle \in Admin /\ [pc |-> "find"] \in Admin /\ [pc |-> "adminlaunch"] \in Admin
    BY DEF Admin, Idle
  <2>2. th'[t] \in Admin
    BY <1>1, <2>1
  <2>3. /\ th'["principal"] \in Ensurer /\ th'["loop"] \in Loop /\ th'["main"] \in Main
        /\ \A u \in Admins : th'[u] \in Admin
    BY <1>1, <2>2, AdminMoves DEF IInv
  <2> QED BY <1>1, <2>3, Names DEF IInv, TypeOK
<1>b. LocksHeld'
  BY <1>1, Names DEF IInv, LocksHeld, Idle, AtWork, Looping
<1>c. Known'
  BY <1>1, <1>2, Names DEF IInv, FieldsOK, Known, Idle
<1>d. TokensTaken' /\ TokensDieWithLease'
  BY <1>1, <1>2, Names DEF IInv, FieldsOK, TokensTaken, TokensDieWithLease, Idle, Exists, LiveStates, NoLease
<1>e. Ensuring'
  BY <1>1, <1>2, <1>3, Names DEF IInv, FieldsOK, AtWork, Ensuring, Idle, NoShared
<1>f. Sharing'
  BY <1>1, <1>2, <1>3, Names, SMTT(30) DEF IInv, FieldsOK, AtWork, Sharing, TypeOK, Idle, NoShared
<1>l. Leaving'
  BY <1>1, <1>2, Names DEF IInv, FieldsOK, Leaving, Idle
<1>g. LoopEnded'
  BY <1>1, <1>2, <1>3, Names DEF IInv, FieldsOK, LoopEnded, Idle
<1>h. BrowsersAreOwned'
  BY <1>1, <1>2, <1>3, <1>4, Names DEF IInv, FieldsOK, BrowsersAreOwned, Exists
<1> QED BY <1>a, <1>b, <1>c, <1>d, <1>e, <1>f, <1>l, <1>g, <1>h DEF IInv

\* The cleanup of a disabled profile ends with its sessions.
LEMMA CleanupEndDisable ==
  ASSUME IInv, NEW t \in Admins, CleanupEnd(t), th[t].why = "disable"
  PROVE  IInv'
<1>1. /\ t \in Threads /\ th[t].pc = "killall" /\ th[t].todo = {} /\ th'[t] = Idle /\ managed = "free"
      /\ th' = [u \in Threads |-> th'[u]] /\ \A u \in Threads : u # t => th'[u] = th[u]
      /\ sess' \in [Sessions -> {"live", "ended"}] /\ \A s \in Sessions : sess'[s] = "ended"
      /\ slips' = slips \cup {<<"disabled", active[s]>> : s \in {r \in Sessions : Exists(active[r])}}
      /\ UNCHANGED <<lease, proc, scope, active, shared, enabled, token, mgr, lifecycle, managed, daemon>>
 <2>1. th[t].pc = "killall" /\ th[t].todo = {} /\ managed = "free" /\ Go(t, Idle) /\ t \in Threads
    BY Names DEF CleanupEnd
  <2>2. sess' = [s \in Sessions |-> "ended"] /\ UNCHANGED <<lease, proc, scope, active, shared, enabled, token, mgr, lifecycle, managed, daemon>>
        /\ slips' = slips \cup {<<"disabled", active[s]>> : s \in {r \in Sessions : Exists(active[r])}}
    BY DEF CleanupEnd, locks
  <2> QED BY <2>1, <2>2, GoDoes DEF IInv
<1>2. FieldsOK
  BY Fields DEF IInv
<1>3. /\ Running' \subseteq Running /\ Ended \subseteq Ended' /\ Doomed' = Doomed
      /\ \A s \in Sessions : active[s] \notin Running'
  <2>1. \A k \in Leases : /\ Excused(k) => Excused(k)'
                          /\ (\E s \in Sessions : active[s] = k) /\ lease[k] # NoLease => Excused(k)'
    <3> SUFFICES ASSUME NEW k \in Leases
                 PROVE  /\ Excused(k) => Excused(k)'
                        /\ (\E s \in Sessions : active[s] = k) /\ lease[k] # NoLease => Excused(k)'
      OBVIOUS
    <3>1. Excused(k) => Excused(k)'
      BY <1>1 DEF Excused
    <3>2. ASSUME NEW s \in Sessions, active[s] = k, lease[k] # NoLease PROVE Excused(k)'
      <4>1. Exists(active[s])
        BY <1>2, <3>2 DEF Exists, FieldsOK
      <4>2. <<"disabled", k>> \in slips'
        BY <1>1, <3>2, <4>1
      <4> QED BY <4>2 DEF Excused
    <3> QED BY <3>1, <3>2
  <2>2. Running' \subseteq Running /\ Ended \subseteq Ended'
    BY <1>1, <2>1 DEF Running, Ended
  <2>3. Doomed' = Doomed
    BY <1>1, Names DEF Doomed, Idle
  <2>4. ASSUME NEW s \in Sessions, active[s] \in Running' PROVE FALSE
    <3>1. active[s] \in Running /\ active[s] \in Leases
      BY <1>2, <2>2, <2>4 DEF FieldsOK
    <3>2. lease[active[s]] # NoLease
      BY <3>1 DEF IInv, BrowsersAreOwned, Exists
    <3> QED BY <2>1, <2>4, <3>1, <3>2 DEF Running
  <2> QED BY <2>2, <2>3, <2>4
<1>4. InHand' = InHand
  BY <1>1, <1>2, <1>3, Names DEF InHand, Idle
<1>a. TypeOK'
 <2>1. Idle \in Admin /\ [pc |-> "find"] \in Admin /\ [pc |-> "adminlaunch"] \in Admin
    BY DEF Admin, Idle
  <2>2. th'[t] \in Admin
    BY <1>1, <2>1
  <2>3. /\ th'["principal"] \in Ensurer /\ th'["loop"] \in Loop /\ th'["main"] \in Main
        /\ \A u \in Admins : th'[u] \in Admin
    BY <1>1, <2>2, AdminMoves DEF IInv
  <2> QED BY <1>1, <2>3, Names DEF IInv, TypeOK
<1>b. LocksHeld'
  BY <1>1, Names DEF IInv, LocksHeld, Idle, AtWork, Looping
<1>c. Known'
  BY <1>1, <1>2, Names DEF IInv, FieldsOK, Known, Idle
<1>d. TokensTaken' /\ TokensDieWithLease'
  BY <1>1, <1>2, Names DEF IInv, FieldsOK, TokensTaken, TokensDieWithLease, Idle, Exists, LiveStates, NoLease
<1>e. Ensuring'
  BY <1>1, <1>2, <1>3, Names DEF IInv, FieldsOK, AtWork, Ensuring, Idle, NoShared
<1>f. Sharing'
  BY <1>1, <1>2, <1>3, Names, SMTT(30) DEF IInv, FieldsOK, AtWork, Sharing, TypeOK, Idle, NoShared
<1>l. Leaving'
  BY <1>1, <1>2, Names DEF IInv, FieldsOK, Leaving, Idle
<1>g. LoopEnded'
  BY <1>1, <1>2, <1>3, Names DEF IInv, FieldsOK, LoopEnded, Idle
<1>h. BrowsersAreOwned'
  BY <1>1, <1>2, <1>3, <1>4, Names DEF IInv, FieldsOK, BrowsersAreOwned, Exists
<1> QED BY <1>a, <1>b, <1>c, <1>d, <1>e, <1>f, <1>l, <1>g, <1>h DEF IInv

\* An administrator's request looks for a browser that still runs.
LEMMA FindLiveInv ==
  ASSUME IInv, NEW t \in Admins, FindLive(t)
  PROVE  IInv'
<1>0. PICK met \in SUBSET {l \in Leases : IsLive(l) /\ lease[l].child = "held" /\ proc[l] = "zombie"} :
        /\ lease' = [l \in Leases |-> IF l \in met THEN [lease[l] EXCEPT !.reaped = "yes"] ELSE lease[l]]
        /\ proc' = [l \in Leases |-> IF l \in met THEN "gone" ELSE proc[l]]
        /\ (Go(t, Idle) /\ mgr' = mgr) \/ (Go(t, [pc |-> "adminlaunch"]) /\ mgr' = t)
  BY DEF FindLive
<1>1. /\ t \in Threads /\ th[t].pc = "find" /\ mgr = "free" /\ met \subseteq Leases
      /\ \/ th'[t] = Idle /\ th'[t].pc = "idle" /\ mgr' = mgr
         \/ th'[t] = [pc |-> "adminlaunch"] /\ th'[t].pc = "adminlaunch" /\ mgr' = t
      /\ th' = [u \in Threads |-> th'[u]] /\ \A u \in Threads : u # t => th'[u] = th[u]
      /\ lease' \in [Leases -> Lease \cup {NoLease}]
      /\ \A k \in Leases : /\ (lease'[k] = NoLease <=> lease[k] = NoLease) /\ lease'[k].state = lease[k].state
                           /\ lease'[k].child = lease[k].child /\ lease'[k].due = lease[k].due /\ lease'[k].by = lease[k].by
      /\ proc' \in [Leases -> {"unborn", "running", "zombie", "gone"}]
      /\ \A k \in Leases : proc'[k] = proc[k] \/ (proc[k] = "zombie" /\ proc'[k] = "gone")
      /\ UNCHANGED <<slips, scope, active, shared, sess, enabled, token, lifecycle, managed, daemon>>
 <2>1. t \in Threads /\ th[t].pc = "find" /\ mgr = "free" /\ met \subseteq Leases
    BY <1>0, Names DEF FindLive
  <2>2. (Go(t, Idle) /\ mgr' = mgr) \/ (Go(t, [pc |-> "adminlaunch"]) /\ mgr' = t)
    BY <1>0
  <2>3. UNCHANGED <<slips, scope, active, shared, sess, enabled, token, lifecycle, managed, daemon>>
    BY DEF FindLive
  <2>4. \A k \in Leases : lease[k] \in Lease \cup {NoLease} /\ (k \in met => lease[k] \in Lease /\ proc[k] = "zombie")
    BY <1>0 DEF IInv, TypeOK, IsLive, Exists
  <2>5. \A r \in Lease : /\ [r EXCEPT !.reaped = "yes"] \in Lease /\ [r EXCEPT !.reaped = "yes"].state = r.state
                         /\ [r EXCEPT !.reaped = "yes"].child = r.child /\ [r EXCEPT !.reaped = "yes"].due = r.due
                         /\ [r EXCEPT !.reaped = "yes"].by = r.by
    BY DEF Lease
  <2>6. NoLease \notin Lease
    BY DEF Lease, NoLease, LeaseStates, LiveStates
  <2>7. lease' = [k \in Leases |-> IF k \in met THEN [lease[k] EXCEPT !.reaped = "yes"] ELSE lease[k]]
        /\ proc' = [k \in Leases |-> IF k \in met THEN "gone" ELSE proc[k]]
    BY <1>0
  <2> HIDE DEF FindLive
  <2>8. /\ lease' \in [Leases -> Lease \cup {NoLease}]
        /\ \A k \in Leases : /\ (lease'[k] = NoLease <=> lease[k] = NoLease) /\ lease'[k].state = lease[k].state
                             /\ lease'[k].child = lease[k].child /\ lease'[k].due = lease[k].due /\ lease'[k].by = lease[k].by
    <3>1. ASSUME NEW k \in Leases
          PROVE  /\ lease'[k] \in Lease \cup {NoLease}
                 /\ (lease'[k] = NoLease <=> lease[k] = NoLease) /\ lease'[k].state = lease[k].state
                 /\ lease'[k].child = lease[k].child /\ lease'[k].due = lease[k].due /\ lease'[k].by = lease[k].by
      <4>1. CASE k \in met
        <5>1. lease'[k] = [lease[k] EXCEPT !.reaped = "yes"] /\ lease[k] \in Lease
          BY <2>4, <2>7, <4>1
        <5> QED BY <5>1, <2>5, <2>6
      <4>2. CASE k \notin met
        <5>1. lease'[k] = lease[k] /\ lease[k] \in Lease \cup {NoLease}
          BY <2>4, <2>7, <4>2
        <5> QED BY <5>1
      <4> QED BY <4>1, <4>2
    <3>2. lease' = [k \in Leases |-> lease'[k]]
      BY <2>7
    <3> QED BY <3>1, <3>2
  <2>9. proc' \in [Leases -> {"unborn", "running", "zombie", "gone"}]
        /\ \A k \in Leases : proc'[k] = proc[k] \/ (proc[k] = "zombie" /\ proc'[k] = "gone")
    BY <2>4, <2>7 DEF IInv, TypeOK
  <2> QED BY <2>1, <2>2, <2>3, <2>8, <2>9, GoDoes DEF IInv, Idle
<1>2. FieldsOK
  BY Fields DEF IInv
<1>3. Running' = Running /\ Ended' = Ended /\ Doomed' = Doomed
  <2>1. (slips' = slips) /\ \A k \in Leases :
          (proc'[k] = "running" <=> proc[k] = "running") /\ (proc'[k] \in {"zombie", "gone"} <=> proc[k] \in {"zombie", "gone"})
    BY <1>1
  <2>2. Running' = Running /\ Ended' = Ended
    BY <2>1 DEF Running, Ended, Excused
  <2>3. \A u \in Admins : th'[u].pc \in {"unshare", "killall"} \/ th[u].pc \in {"unshare", "killall"} => th'[u] = th[u]
    BY <1>1, Names
  <2>4. Doomed' = Doomed
    BY <2>3 DEF Doomed
  <2> QED BY <2>2, <2>4
<1>4. InHand' = InHand
  BY <1>0, <1>1, <1>2, <1>3, Names DEF InHand, Idle
<1>a. TypeOK'
 <2>1. Idle \in Admin /\ [pc |-> "find"] \in Admin /\ [pc |-> "adminlaunch"] \in Admin
    BY DEF Admin, Idle
  <2>2. th'[t] \in Admin
    BY <1>1, <2>1
  <2>3. /\ th'["principal"] \in Ensurer /\ th'["loop"] \in Loop /\ th'["main"] \in Main
        /\ \A u \in Admins : th'[u] \in Admin
    BY <1>1, <2>2, AdminMoves DEF IInv
  <2> QED BY <1>1, <2>3, Names DEF IInv, TypeOK
<1>b. LocksHeld'
  BY <1>0, <1>1, Names DEF IInv, LocksHeld, Idle, AtWork, Looping
<1>c. Known'
  BY <1>0, <1>1, <1>2, Names DEF IInv, FieldsOK, Known, Idle
<1>d. TokensTaken' /\ TokensDieWithLease'
  BY <1>0, <1>1, <1>2, Names DEF IInv, FieldsOK, TokensTaken, TokensDieWithLease, Idle, Exists, LiveStates, NoLease
<1>e. Ensuring'
  BY <1>0, <1>1, <1>2, <1>3, Names DEF IInv, FieldsOK, AtWork, Ensuring, Idle, NoShared
<1>f. Sharing'
 <2>1. th'[P] = th[P] /\ \A u \in Threads : (th'[u].pc \in {"ending", "detach", "kill"} \/ th[u].pc \in {"ending", "detach", "kill"}) => th'[u] = th[u]
    BY <1>1, Names
  <2>2. UNCHANGED <<shared, scope, active, sess>>
    BY <1>1
  <2> QED BY <2>1, <2>2, <1>3, Names DEF IInv, Sharing
<1>l. Leaving'
  BY <1>0, <1>1, <1>2, Names DEF IInv, FieldsOK, Leaving, Idle
<1>g. LoopEnded'
  BY <1>0, <1>1, <1>2, <1>3, Names DEF IInv, FieldsOK, LoopEnded, Idle
<1>h. BrowsersAreOwned'
  BY <1>0, <1>1, <1>2, <1>3, <1>4, Names DEF IInv, FieldsOK, BrowsersAreOwned, Exists
<1> QED BY <1>a, <1>b, <1>c, <1>d, <1>e, <1>f, <1>l, <1>g, <1>h DEF IInv

\* A browser is launched for an administrator.
LEMMA AdminLaunchOk ==
  ASSUME IInv, NEW t \in Admins, NEW l \in Leases, AdminLaunch(t, l, "ok")
  PROVE  IInv'
<1>1. /\ t \in Threads /\ th[t].pc = "adminlaunch" /\ mgr = t /\ mgr' = "free"
      /\ th'[t] = Idle
      /\ th' = [u \in Threads |-> th'[u]] /\ \A u \in Threads : u # t => th'[u] = th[u]
      /\ lease' \in [Leases -> Lease \cup {NoLease}]
      /\ \A k \in Leases : k # l => lease'[k] = lease[k]
      /\ proc' \in [Leases -> {"unborn", "running", "zombie", "gone"}]
      /\ \A k \in Leases : proc'[k] = "unborn" => proc[k] = "unborn"
      /\ proc[l] = "unborn" /\ proc'[l] = "running" /\ Ended \subseteq Ended'
      /\ lease'[l] # NoLease /\ lease'[l].state = "pending" /\ lease'[l].child = "held"
      /\ Running' \subseteq Running \cup {l} /\ (daemon = "stopped" => l \notin Running')
      /\ lease'[l].by = "admin"
      /\ token' \in [Leases -> {"none", "registration", "signing"}] /\ token'[l] \in {"registration", "signing"} /\ \A k \in Leases : k # l => token'[k] = token[k]
      /\ UNCHANGED <<scope, active, shared, sess, enabled, lifecycle, managed, daemon>>
 <2>1. th[t].pc = "adminlaunch" /\ t \in Threads /\ mgr = t /\ mgr' = "free"
    BY Names DEF AdminLaunch, IInv, LocksHeld
  <2>2. Go(t, Idle) /\ Launch(l, "admin", "ok") /\ UNCHANGED <<scope, active, shared, sess, enabled, lifecycle, managed, daemon>>
    BY DEF AdminLaunch
  <2>3. PICK k \in {"registration", "signing"} : token' = [token EXCEPT ![l] = k]
    BY DEF AdminLaunch
  <2> HIDE DEF AdminLaunch
  <2>4. th' = [u \in Threads |-> th'[u]] /\ th'[t] = Idle
        /\ \A u \in Threads : u # t => th'[u] = th[u]
    BY <2>1, <2>2, GoDoes DEF IInv
  <2>5. token' \in [Leases -> {"none", "registration", "signing"}] /\ token'[l] \in {"registration", "signing"}
        /\ \A j \in Leases : j # l => token'[j] = token[j]
    BY <2>3 DEF IInv, TypeOK
  <2> QED BY <2>1, <2>2, <2>4, <2>5, LaunchDoes
<1>2. FieldsOK
  BY Fields DEF IInv
<1>3. Doomed' = Doomed
  BY <1>1, Names DEF Doomed, Idle
<1>4. InHand' = InHand /\ l \notin Running
  BY <1>1, <1>2, <1>3, Names DEF InHand, Running, Idle
<1>5. /\ lease[l] = NoLease /\ shared.lease # l /\ \A r \in Sessions : active[r] # l
      /\ \A u \in Threads : th[u].pc = "kill" => th[u].l # l
      /\ th[P].pc \in {"attach", "insert", "finish", "record", "share"} => th[P].l # l
  BY <1>1, <1>2 DEF IInv, Known, FieldsOK
<1>6. th[P].pc \notin AtWork /\ th["loop"].pc \notin Looping
  BY <1>1, Names DEF IInv, LocksHeld
<1>a. TypeOK'
 <2>1. Idle \in Admin /\ [pc |-> "find"] \in Admin /\ [pc |-> "adminlaunch"] \in Admin
    BY DEF Admin, Idle
  <2>2. th'[t] \in Admin
    BY <1>1, <2>1
  <2>3. /\ th'["principal"] \in Ensurer /\ th'["loop"] \in Loop /\ th'["main"] \in Main
        /\ \A u \in Admins : th'[u] \in Admin
    BY <1>1, <2>2, AdminMoves DEF IInv
  <2> QED BY <1>1, <2>3, Names DEF IInv, TypeOK
<1>b. LocksHeld'
  BY <1>1, Names DEF IInv, LocksHeld, Idle, AtWork, Looping
<1>c. Known'
  BY <1>1, <1>2, Names DEF IInv, FieldsOK, Known, Idle
<1>d. TokensTaken' /\ TokensDieWithLease'
  BY <1>1, <1>2, <1>5, <1>6, Names DEF IInv, FieldsOK, TokensTaken, TokensDieWithLease, Idle, Exists, LiveStates, NoLease, AtWork, Looping
<1>e. Ensuring'
  BY <1>1, <1>2, <1>3, <1>4, <1>5, Names DEF IInv, FieldsOK, AtWork, Ensuring, Idle, NoShared
<1>f. Sharing'
 <2>1. (\A r \in Sessions : active'[r] \in Running' => active[r] \in Running)
        /\ (shared'.lease \in Running' => shared.lease \in Running)
    BY <1>1, <1>5
  <2>2. th'[P] = th[P] /\ \A u \in Threads : th'[u].pc \in {"ending", "detach", "kill"} <=> th[u].pc \in {"ending", "detach", "kill"} /\ u # t
    BY <1>1, Names DEF Idle
  <2> QED BY <1>1, <1>3, <2>1, <2>2, Names DEF IInv, Sharing
<1>l. Leaving'
  BY <1>1, <1>2, Names DEF IInv, FieldsOK, Leaving, Idle
<1>g. LoopEnded'
  BY <1>1, <1>2, <1>3, Names DEF IInv, FieldsOK, LoopEnded, Idle
<1>h. BrowsersAreOwned'
  BY <1>1, <1>2, <1>3, <1>4, Names DEF IInv, FieldsOK, BrowsersAreOwned, Exists
<1> QED BY <1>a, <1>b, <1>c, <1>d, <1>e, <1>f, <1>l, <1>g, <1>h DEF IInv

\* A launch for an administrator fails.
LEMMA AdminLaunchFails ==
  ASSUME IInv, NEW t \in Admins, NEW l \in Leases, NEW outcome \in {"stray", "refused"}, AdminLaunch(t, l, outcome)
  PROVE  IInv'
<1>1. /\ t \in Threads /\ th[t].pc = "adminlaunch" /\ th'[t] = Idle /\ mgr = t /\ mgr' = "free"
      /\ th' = [u \in Threads |-> th'[u]] /\ \A u \in Threads : u # t => th'[u] = th[u]
      /\ proc' \in [Leases -> {"unborn", "running", "zombie", "gone"}] /\ \A k \in Leases : proc'[k] = "unborn" => proc[k] = "unborn"
      /\ Running' = Running /\ Ended \subseteq Ended'
      /\ token' \in [Leases -> {"none", "registration", "signing"}]
      /\ \A k \in Leases : (token'[k] = "signing" => token[k] = "signing") /\ (token'[k] = "none" => token[k] = "none")
      /\ \A k \in Leases : proc'[k] = "unborn" => token'[k] = token[k]
      /\ UNCHANGED <<lease, scope, active, shared, sess, enabled, lifecycle, managed, daemon>>
 <2>1. th[t].pc = "adminlaunch" /\ t \in Threads /\ mgr = t /\ mgr' = "free"
    BY Names DEF AdminLaunch, IInv, LocksHeld
  <2>2. Go(t, Idle) /\ Launch(l, "admin", outcome) /\ UNCHANGED <<scope, active, shared, sess, enabled, lifecycle, managed, daemon>>
    BY DEF AdminLaunch
  <2>3. token' = token \/ (outcome = "stray" /\ token' = [token EXCEPT ![l] = "registration"])
    BY DEF AdminLaunch
  <2> HIDE DEF AdminLaunch
  <2>4. th' = [u \in Threads |-> th'[u]] /\ th'[t] = Idle
        /\ \A u \in Threads : u # t => th'[u] = th[u]
    BY <2>1, <2>2, GoDoes DEF IInv
  <2>5. token' \in [Leases -> {"none", "registration", "signing"}]
        /\ (\A k \in Leases : (token'[k] = "signing" => token[k] = "signing") /\ (token'[k] = "none" => token[k] = "none"))
        /\ \A k \in Leases : token'[k] # token[k] => k = l /\ outcome = "stray"
    BY <2>3 DEF IInv, TypeOK
  <2> QED BY <2>1, <2>2, <2>4, <2>5, LaunchDoes
<1>2. FieldsOK
  BY Fields DEF IInv
<1>3. Doomed' = Doomed
  BY <1>1, Names DEF Doomed, Idle
<1>4. InHand' = InHand
  BY <1>1, <1>2, <1>3, Names DEF InHand, Idle
<1>a. TypeOK'
 <2>1. Idle \in Admin /\ [pc |-> "find"] \in Admin /\ [pc |-> "adminlaunch"] \in Admin
    BY DEF Admin, Idle
  <2>2. th'[t] \in Admin
    BY <1>1, <2>1
  <2>3. /\ th'["principal"] \in Ensurer /\ th'["loop"] \in Loop /\ th'["main"] \in Main
        /\ \A u \in Admins : th'[u] \in Admin
    BY <1>1, <2>2, AdminMoves DEF IInv
  <2> QED BY <1>1, <2>3, Names DEF IInv, TypeOK
<1>b. LocksHeld'
  BY <1>1, Names DEF IInv, LocksHeld, Idle, AtWork, Looping
<1>c. Known'
  BY <1>1, <1>2, Names DEF IInv, FieldsOK, Known, Idle
<1>d. TokensTaken' /\ TokensDieWithLease'
  BY <1>1, <1>2, Names DEF IInv, FieldsOK, TokensTaken, TokensDieWithLease, Idle, Exists, LiveStates, NoLease
<1>e. Ensuring'
  BY <1>1, <1>2, <1>3, Names DEF IInv, FieldsOK, AtWork, Ensuring, Idle, NoShared
<1>f. Sharing'
  BY <1>1, <1>2, <1>3, Names, SMTT(30) DEF IInv, FieldsOK, AtWork, Sharing, TypeOK, Idle, NoShared
<1>l. Leaving'
  BY <1>1, <1>2, Names DEF IInv, FieldsOK, Leaving, Idle
<1>g. LoopEnded'
  BY <1>1, <1>2, <1>3, Names DEF IInv, FieldsOK, LoopEnded, Idle
<1>h. BrowsersAreOwned'
  BY <1>1, <1>2, <1>3, <1>4, Names DEF IInv, FieldsOK, BrowsersAreOwned, Exists
<1> QED BY <1>a, <1>b, <1>c, <1>d, <1>e, <1>f, <1>l, <1>g, <1>h DEF IInv

\* The runtime loop moves.
LEMMA LoopMoves ==
  ASSUME TypeOK, th'["loop"] \in Loop,
         th' = [u \in Threads |-> th'[u]], \A u \in Threads : u # "loop" => th'[u] = th[u]
  PROVE  /\ th'["principal"] \in Ensurer /\ th'["loop"] \in Loop /\ th'["main"] \in Main
         /\ \A u \in Admins : th'[u] \in Admin
BY Names DEF TypeOK, P

\* What the loop may have in hand.
LEMMA LoopKinds ==
  ASSUME NEW L \in SUBSET Leases, NEW O \in SUBSET Leases, NEW back \in {"exits", "expired"}
  PROVE  [pc |-> back, todo |-> L] \in Loop /\ [pc |-> "expire", todo |-> L, over |-> O] \in Loop
BY DEF Loop

\* What it has in hand while it forgets a browser.
LEMMA ForgetKind ==
  ASSUME NEW L \in SUBSET Leases, NEW l \in Leases, NEW back \in {"exits", "expired"}, NEW cleared \in {"no", "yes"}
  PROVE  [pc |-> "forget", back |-> back, todo |-> L, l |-> l, cleared |-> cleared] \in Loop
BY DEF Loop

\* check_exits: the loop takes browser_manager and reaps the browsers that exited.
LEMMA CheckExitsInv ==
  ASSUME IInv, CheckExits
  PROVE  IInv'
<1>0. PICK X : X = {l \in Leases : IsLive(l) /\ lease[l].reaped = "no" /\ lease[l].child = "held" /\ proc[l] = "zombie"}
  OBVIOUS
<1>1. /\ th["loop"] = Idle /\ th["loop"].pc = "idle" /\ mgr = "free" /\ mgr' = "loop" /\ X \subseteq Leases /\ X \subseteq Ended
      /\ th'["loop"] = [pc |-> "exits", todo |-> X] /\ th'["loop"].pc = "exits" /\ th'["loop"].todo = X
      /\ th' = [u \in Threads |-> th'[u]] /\ \A u \in Threads : u # "loop" => th'[u] = th[u]
      /\ lease' \in [Leases -> Lease \cup {NoLease}] /\ proc' \in [Leases -> {"unborn", "running", "zombie", "gone"}]
      /\ \A k \in Leases : k \notin X => lease'[k] = lease[k] /\ proc'[k] = proc[k]
      /\ \A k \in X : lease[k] # NoLease /\ lease'[k] # NoLease /\ proc[k] = "zombie" /\ proc'[k] = "gone"
      /\ UNCHANGED <<slips, scope, active, shared, sess, enabled, token, lifecycle, managed, daemon>>
 <2>0. th["loop"] = Idle /\ mgr = "free" /\ mgr' = "loop"
    BY DEF CheckExits
  <2>1. th["loop"].pc = "idle" /\ X \subseteq Leases
    BY <1>0, <2>0 DEF Idle
  <2>2. /\ lease' = [k \in Leases |->
             IF k \in X THEN [lease[k] EXCEPT !.state = "exit", !.reaped = "yes", !.child = "none"] ELSE lease[k]]
        /\ proc' = [k \in Leases |-> IF k \in X THEN "gone" ELSE proc[k]]
    BY <1>0 DEF CheckExits
  <2>3. Go("loop", [pc |-> "exits", todo |-> X])
    BY <1>0 DEF CheckExits
  <2>4. UNCHANGED <<slips, scope, active, shared, sess, enabled, token, lifecycle, managed, daemon>>
    BY DEF CheckExits
  <2>5. \A k \in X : lease[k] \in Lease /\ lease[k] # NoLease /\ proc[k] = "zombie"
    BY <1>0 DEF IsLive, Exists, IInv, TypeOK
  <2> HIDE DEF CheckExits
  <2>9. th' = [u \in Threads |-> th'[u]] /\ th'["loop"] = [pc |-> "exits", todo |-> X]
        /\ \A u \in Threads : u # "loop" => th'[u] = th[u]
    BY <2>3, GoDoes, Names DEF IInv
  <2>6. \A r \in Lease : [r EXCEPT !.state = "exit", !.reaped = "yes", !.child = "none"] \in Lease
    BY DEF Lease, LeaseStates, LiveStates
  <2>7. NoLease \notin Lease
    BY DEF Lease, NoLease, LeaseStates, LiveStates
  <2>8. \A k \in Leases : lease[k] \in Lease \cup {NoLease} /\ proc[k] \in {"unborn", "running", "zombie", "gone"}
    BY DEF IInv, TypeOK
  <2>10. ASSUME NEW k \in Leases
         PROVE  /\ lease'[k] \in Lease \cup {NoLease} /\ proc'[k] \in {"unborn", "running", "zombie", "gone"}
                /\ k \in X => lease'[k] # NoLease /\ proc'[k] = "gone"
                /\ k \notin X => lease'[k] = lease[k] /\ proc'[k] = proc[k]
    <3>1. CASE k \in X
      <4>1. lease'[k] = [lease[k] EXCEPT !.state = "exit", !.reaped = "yes", !.child = "none"] /\ proc'[k] = "gone"
        BY <2>2, <3>1
      <4>2. lease'[k] \in Lease
        <5>1. lease[k] \in Lease
          BY <2>5, <3>1
        <5>2. [lease[k] EXCEPT !.state = "exit", !.reaped = "yes", !.child = "none"] \in Lease
          BY <2>6, <5>1
        <5> QED BY <4>1, <5>2
      <4> QED BY <2>7, <3>1, <4>1, <4>2
    <3>2. CASE k \notin X
      BY <2>2, <2>8, <3>2
    <3> QED BY <3>1, <3>2
  <2>11. lease' = [k \in Leases |-> lease'[k]] /\ proc' = [k \in Leases |-> proc'[k]]
    BY <2>2
  <2>12. X \subseteq Ended
    BY <2>1, <2>5 DEF Ended
  <2> QED BY <2>0, <2>1, <2>4, <2>5, <2>9, <2>10, <2>11, <2>12
<1>2. FieldsOK
  BY Fields DEF IInv
<1>3. Running' = Running /\ Ended' = Ended /\ Doomed' = Doomed
  BY <1>0, <1>1, Names DEF Running, Ended, Excused, Doomed, FieldsOK
<1>4. InHand' = InHand
  BY <1>0, <1>1, <1>2, <1>3, Names DEF InHand, Idle, FieldsOK
<1>a. TypeOK'
 <2>1. [pc |-> "exits", todo |-> X] \in Loop
    BY <1>1, LoopKinds
  <2>2. /\ th'["principal"] \in Ensurer /\ th'["loop"] \in Loop /\ th'["main"] \in Main
        /\ \A u \in Admins : th'[u] \in Admin
    BY <1>1, <2>1, LoopMoves DEF IInv
  <2> QED BY <1>1, <2>2, Names DEF IInv, TypeOK
<1>b. LocksHeld'
  BY <1>0, <1>1, Names DEF IInv, LocksHeld, Idle, AtWork, Looping
<1>c. Known'
  BY <1>0, <1>1, <1>2, Names DEF IInv, FieldsOK, Known, Idle
<1>d. TokensTaken' /\ TokensDieWithLease'
  BY <1>0, <1>1, <1>2, Names DEF IInv, FieldsOK, TokensTaken, TokensDieWithLease, Idle, Exists, LiveStates, NoLease, LocksHeld, AtWork
<1>e. Ensuring'
  BY <1>0, <1>1, <1>2, <1>3, Names DEF IInv, FieldsOK, AtWork, Ensuring, Idle, NoShared
<1>f. Sharing'
 <2>1. th'[P] = th[P] /\ \A u \in Threads : (th'[u].pc \in {"ending", "detach", "kill"} \/ th[u].pc \in {"ending", "detach", "kill"}) => th'[u] = th[u]
    BY <1>1, Names
  <2>2. UNCHANGED <<shared, scope, active, sess>>
    BY <1>1
  <2> QED BY <2>1, <2>2, <1>3, Names DEF IInv, Sharing
<1>l. Leaving'
  BY <1>0, <1>1, <1>2, Names DEF IInv, FieldsOK, Leaving, Idle
<1>g. LoopEnded'
  BY <1>0, <1>1, <1>2, <1>3, Names DEF IInv, FieldsOK, LoopEnded, Idle
<1>h. BrowsersAreOwned'
  BY <1>0, <1>1, <1>2, <1>3, <1>4, Names DEF IInv, FieldsOK, BrowsersAreOwned, Exists, Running
<1> QED BY <1>a, <1>b, <1>c, <1>d, <1>e, <1>f, <1>l, <1>g, <1>h DEF IInv

\* The loop takes the token and the sessions' entries of a browser that is over away.
LEMMA LoopForgetInv ==
  ASSUME IInv, NEW l \in Leases, LoopForget(l)
  PROVE  IInv'
<1>0. PICK back, L, cleared : /\ back = th["loop"].pc /\ L = th["loop"].todo \ {l}
                            /\ cleared = IF \E s \in Sessions : active[s] = l THEN "yes" ELSE "no"
  OBVIOUS
<1>1. /\ th["loop"].pc = back /\ back \in {"exits", "expired"} /\ mgr = "loop" /\ L \subseteq Leases /\ L = th["loop"].todo \ {l} /\ l \in th["loop"].todo
      /\ cleared \in {"no", "yes"} /\ l \in Ended /\ l \notin Running
      /\ th'["loop"] = [pc |-> "forget", back |-> back, todo |-> L, l |-> l, cleared |-> cleared] /\ th'["loop"].pc = "forget" /\ th'["loop"].todo = L /\ th'["loop"].l = l
      /\ th' = [u \in Threads |-> th'[u]] /\ \A u \in Threads : u # "loop" => th'[u] = th[u]
      /\ active' \in [Sessions -> Leases \cup {None}] /\ \A s \in Sessions : active'[s] = IF active[s] = l THEN None ELSE active[s]
      /\ token' \in [Leases -> {"none", "registration", "signing"}]
      /\ \A k \in Leases : token'[k] = "signing" <=> token[k] = "signing" /\ k # l
      /\ \A k \in Leases : token'[k] = "none" <=> token[k] = "none"
      /\ UNCHANGED <<lease, proc, slips, scope, shared, sess, enabled, mgr, lifecycle, managed, daemon>>
 <2>1. th["loop"].pc = back /\ back \in {"exits", "expired"} /\ l \in th["loop"].todo
    BY <1>0 DEF LoopForget
  <2>2. mgr = "loop" /\ L \subseteq Leases /\ l \in Ended /\ cleared \in {"no", "yes"}
    BY <1>0, <2>1, Fields DEF IInv, LocksHeld, FieldsOK, LoopEnded, Looping
  <2>3. Go("loop", [pc |-> "forget", back |-> back, todo |-> L, l |-> l, cleared |-> cleared])
    BY <1>0 DEF LoopForget
  <2>4. RevokeByLease({l}) /\ active' = [s \in Sessions |-> IF active[s] = l THEN None ELSE active[s]]
        /\ UNCHANGED <<lease, proc, slips, scope, shared, sess, enabled, mgr, lifecycle, managed, daemon>>
    BY DEF LoopForget, locks
  <2> HIDE DEF LoopForget
  <2>9. th' = [u \in Threads |-> th'[u]] /\ th'["loop"] = [pc |-> "forget", back |-> back, todo |-> L, l |-> l, cleared |-> cleared]
        /\ \A u \in Threads : u # "loop" => th'[u] = th[u]
    BY <2>3, GoDoes, Names DEF IInv
  <2>5. active' \in [Sessions -> Leases \cup {None}] /\ \A s \in Sessions : active'[s] = IF active[s] = l THEN None ELSE active[s]
    BY <2>4 DEF IInv, TypeOK
  <2>6. l \notin Running
    BY <2>2 DEF Ended, Running
  <2> QED BY <1>0, <2>1, <2>2, <2>4, <2>5, <2>6, <2>9, RevokeDoes DEF IInv
<1>2. FieldsOK
  BY Fields DEF IInv
<1>3. Running' = Running /\ Ended' = Ended /\ Doomed' = Doomed
  BY <1>0, <1>1, Names DEF Running, Ended, Excused, Doomed
<1>4. InHand \subseteq InHand' \cup {l}
  BY <1>0, <1>1, <1>2, <1>3, Names DEF InHand, FieldsOK
<1>5. th[P].pc \notin AtWork
  BY <1>1, Names DEF IInv, LocksHeld
<1>a. TypeOK'
 <2>1. [pc |-> "forget", back |-> back, todo |-> L, l |-> l, cleared |-> cleared] \in Loop
    BY <1>1, ForgetKind
  <2>2. /\ th'["principal"] \in Ensurer /\ th'["loop"] \in Loop /\ th'["main"] \in Main
        /\ \A u \in Admins : th'[u] \in Admin
    BY <1>1, <2>1, LoopMoves DEF IInv
  <2> QED BY <1>1, <2>2, Names DEF IInv, TypeOK
<1>b. LocksHeld'
  BY <1>0, <1>1, Names DEF IInv, LocksHeld, Idle, AtWork, Looping
<1>c. Known'
  BY <1>0, <1>1, <1>2, <1>5, Names DEF IInv, FieldsOK, Known, Idle, AtWork
<1>d. TokensTaken' /\ TokensDieWithLease'
  BY <1>0, <1>1, <1>2, <1>5, Names DEF IInv, FieldsOK, TokensTaken, TokensDieWithLease, Idle, Exists, LiveStates, NoLease, AtWork, LocksHeld, Looping
<1>e. Ensuring'
  BY <1>0, <1>1, <1>2, <1>3, <1>5, Names DEF IInv, FieldsOK, AtWork, Ensuring, Idle, NoShared
<1>f. Sharing'
  BY <1>0, <1>1, <1>2, <1>3, <1>5, Names, SMTT(30) DEF IInv, FieldsOK, AtWork, Sharing, TypeOK, Idle, NoShared
<1>l. Leaving'
  BY <1>0, <1>1, <1>2, Names DEF IInv, FieldsOK, Leaving, Idle
<1>g. LoopEnded'
  BY <1>0, <1>1, <1>2, <1>3, Names DEF IInv, FieldsOK, LoopEnded, Idle
<1>h. BrowsersAreOwned'
  BY <1>0, <1>1, <1>2, <1>3, <1>4, Names DEF IInv, FieldsOK, BrowsersAreOwned, Exists
<1> QED BY <1>a, <1>b, <1>c, <1>d, <1>e, <1>f, <1>l, <1>g, <1>h DEF IInv

\* The loop takes the shared entry of a browser that is over away, and its lease if any entry was there.
LEMMA LoopForgetSharedInv ==
  ASSUME IInv, LoopForgetShared
  PROVE  IInv'
<1>0. PICK back, L, l : back = th["loop"].back /\ L = th["loop"].todo /\ l = th["loop"].l
  OBVIOUS
<1>1. /\ th["loop"].pc = "forget" /\ back \in {"exits", "expired"} /\ mgr = "loop" /\ l \in Leases /\ L \subseteq Leases /\ L = th["loop"].todo
      /\ token[l] # "signing" /\ l \notin Running
      /\ th'["loop"] = [pc |-> back, todo |-> L] /\ th'["loop"].pc = back /\ th'["loop"].todo = L
      /\ th' = [u \in Threads |-> th'[u]] /\ \A u \in Threads : u # "loop" => th'[u] = th[u]
      /\ shared' \in [lease : Leases \cup {None}, attached : SUBSET Sessions] /\ ((shared' = NoShared /\ shared.lease = l) \/ shared' = shared)
      /\ lease' \in [Leases -> Lease \cup {NoLease}] /\ proc' \in [Leases -> {"unborn", "running", "zombie", "gone"}]
      /\ lease'[l] \in {lease[l], NoLease} /\ \A k \in Leases : k # l => lease'[k] = lease[k]
      /\ \A k \in Leases : proc'[k] = "unborn" <=> proc[k] = "unborn"
      /\ Running' = Running /\ Ended \subseteq Ended'
      /\ UNCHANGED <<scope, token, active, sess, enabled, lifecycle, mgr, managed, daemon>>
 <2>1. th["loop"].pc = "forget" /\ back \in {"exits", "expired"} /\ l \in Leases /\ L \subseteq Leases
    BY <1>0, Shapes, LoopShape DEF LoopForgetShared, IInv, Looping
  <2>2. mgr = "loop" /\ l \in Ended /\ token[l] # "signing"
    BY <1>0, <2>1 DEF IInv, LocksHeld, LoopEnded, Looping, TokensTaken
  <2>3. Go("loop", [pc |-> back, todo |-> L])
    BY <1>0 DEF LoopForgetShared
  <2>4. /\ shared' = IF shared.lease = l THEN NoShared ELSE shared
        /\ Discard(l) \/ UNCHANGED <<lease, proc, slips>>
        /\ UNCHANGED <<scope, token, active, sess, enabled, lifecycle, mgr, managed, daemon>>
    BY <1>0 DEF LoopForgetShared, locks
  <2> HIDE DEF LoopForgetShared
  <2>9. th' = [u \in Threads |-> th'[u]] /\ th'["loop"] = [pc |-> back, todo |-> L]
        /\ \A u \in Threads : u # "loop" => th'[u] = th[u]
    BY <2>3, GoDoes, Names DEF IInv
  <2>5. shared' \in [lease : Leases \cup {None}, attached : SUBSET Sessions] /\ ((shared' = NoShared /\ shared.lease = l) \/ shared' = shared)
    BY <2>4 DEF IInv, TypeOK, NoShared
  <2>6. l \notin Running
    BY <2>2 DEF Ended, Running
  <2>7. /\ lease' \in [Leases -> Lease \cup {NoLease}] /\ proc' \in [Leases -> {"unborn", "running", "zombie", "gone"}]
        /\ lease'[l] \in {lease[l], NoLease} /\ \A k \in Leases : k # l => lease'[k] = lease[k]
        /\ \A k \in Leases : proc'[k] = "unborn" <=> proc[k] = "unborn"
        /\ Running' = Running /\ Ended \subseteq Ended'
    <3>1. CASE Discard(l)
      BY <2>1, <2>6, <3>1, DiscardDoes
    <3>2. CASE UNCHANGED <<lease, proc, slips>>
      BY <3>2 DEF IInv, TypeOK, Running, Ended, Excused
    <3> QED BY <2>4, <3>1, <3>2
  <2> QED BY <1>0, <2>1, <2>2, <2>4, <2>5, <2>6, <2>7, <2>9
<1>2. FieldsOK
  BY Fields DEF IInv
<1>3. Doomed' = Doomed
  BY <1>0, <1>1, Names DEF Doomed
<1>4. InHand \subseteq InHand' \cup {l}
  BY <1>0, <1>1, <1>2, <1>3, Names DEF InHand, FieldsOK
<1>5. th[P].pc \notin AtWork
  BY <1>1, Names DEF IInv, LocksHeld
<1>6. NoShared.lease = None /\ NoShared.attached = {}
  BY DEF NoShared
<1>a. TypeOK'
 <2>1. [pc |-> back, todo |-> L] \in Loop
    BY <1>1, LoopKinds
  <2>2. /\ th'["principal"] \in Ensurer /\ th'["loop"] \in Loop /\ th'["main"] \in Main
        /\ \A u \in Admins : th'[u] \in Admin
    BY <1>1, <2>1, LoopMoves DEF IInv
  <2> QED BY <1>1, <2>2, Names DEF IInv, TypeOK
<1>b. LocksHeld'
  BY <1>0, <1>1, Names DEF IInv, LocksHeld, Idle, AtWork, Looping
<1>c. Known'
  BY <1>0, <1>1, <1>2, <1>5, <1>6, Names DEF IInv, FieldsOK, Known, Idle, AtWork
<1>d. TokensTaken' /\ TokensDieWithLease'
  BY <1>0, <1>1, <1>2, <1>5, <1>6, Names DEF IInv, FieldsOK, TokensTaken, TokensDieWithLease, Idle, Exists, LiveStates, NoLease, AtWork, LocksHeld, Looping
<1>e. Ensuring'
  BY <1>0, <1>1, <1>2, <1>3, <1>5, <1>6, Names DEF IInv, FieldsOK, AtWork, Ensuring, Idle, NoShared
<1>f. Sharing'
  BY <1>0, <1>1, <1>2, <1>3, <1>5, <1>6, Names, SMTT(30) DEF IInv, FieldsOK, AtWork, Sharing, TypeOK, Idle, NoShared
<1>l. Leaving'
  BY <1>0, <1>1, <1>2, <1>6, Names DEF IInv, FieldsOK, Leaving, Idle
<1>g. LoopEnded'
  BY <1>0, <1>1, <1>2, <1>3, Names DEF IInv, FieldsOK, LoopEnded, Idle
<1>h. BrowsersAreOwned'
  BY <1>0, <1>1, <1>2, <1>3, <1>4, Names DEF IInv, FieldsOK, BrowsersAreOwned, Exists
<1> QED BY <1>a, <1>b, <1>c, <1>d, <1>e, <1>f, <1>l, <1>g, <1>h DEF IInv

\* check_expired: the loop notes the leases that are past their deadline.
LEMMA CheckExpiredInv ==
  ASSUME IInv, CheckExpired
  PROVE  IInv'
<1>0. PICK X : X = {l \in Leases : IsLive(l) /\ lease[l].due = "yes"}
  OBVIOUS
<1>1. /\ th["loop"].pc = "exits" /\ th["loop"].todo = {} /\ X \subseteq Leases /\ \A k \in X : lease[k] # NoLease
      /\ th'["loop"] = [pc |-> "expire", todo |-> X, over |-> X] /\ th'["loop"].pc = "expire" /\ th'["loop"].todo = X /\ th'["loop"].over = X
      /\ th' = [u \in Threads |-> th'[u]] /\ \A u \in Threads : u # "loop" => th'[u] = th[u]
      /\ UNCHANGED <<lease, proc, slips, scope, active, shared, sess, enabled, token, mgr, lifecycle, managed, daemon>>
 <2>1. th["loop"].pc = "exits" /\ th["loop"].todo = {} /\ X \subseteq Leases /\ \A k \in X : lease[k] # NoLease
    BY <1>0 DEF CheckExpired, IsLive, Exists
  <2>3. Go("loop", [pc |-> "expire", todo |-> X, over |-> X])
    BY <1>0 DEF CheckExpired
  <2>4. UNCHANGED <<lease, proc, slips, scope, active, shared, sess, enabled, token, mgr, lifecycle, managed, daemon>>
    BY DEF CheckExpired, locks
  <2> HIDE DEF CheckExpired
  <2>9. th' = [u \in Threads |-> th'[u]] /\ th'["loop"] = [pc |-> "expire", todo |-> X, over |-> X]
        /\ \A u \in Threads : u # "loop" => th'[u] = th[u]
    BY <2>3, GoDoes, Names DEF IInv
  <2> QED BY <2>1, <2>4, <2>9
<1>2. FieldsOK
  BY Fields DEF IInv
<1>3. Running' = Running /\ Ended' = Ended /\ Doomed' = Doomed
  BY <1>0, <1>1, Names DEF Running, Ended, Excused, Doomed
<1>4. InHand' = InHand
  BY <1>0, <1>1, <1>2, <1>3, Names DEF InHand, Idle
<1>a. TypeOK'
 <2>1. [pc |-> "expire", todo |-> X, over |-> X] \in Loop
    BY <1>1, LoopKinds
  <2>2. /\ th'["principal"] \in Ensurer /\ th'["loop"] \in Loop /\ th'["main"] \in Main
        /\ \A u \in Admins : th'[u] \in Admin
    BY <1>1, <2>1, LoopMoves DEF IInv
  <2> QED BY <1>1, <2>2, Names DEF IInv, TypeOK
<1>b. LocksHeld'
  BY <1>0, <1>1, Names DEF IInv, LocksHeld, Idle, AtWork, Looping
<1>c. Known'
  BY <1>0, <1>1, <1>2, Names DEF IInv, FieldsOK, Known, Idle
<1>d. TokensTaken' /\ TokensDieWithLease'
  BY <1>0, <1>1, <1>2, Names DEF IInv, FieldsOK, TokensTaken, TokensDieWithLease, Idle, Exists, LiveStates, NoLease
<1>e. Ensuring'
  BY <1>0, <1>1, <1>2, <1>3, Names DEF IInv, FieldsOK, AtWork, Ensuring, Idle, NoShared
<1>f. Sharing'
  BY <1>0, <1>1, <1>2, <1>3, Names, SMTT(30) DEF IInv, FieldsOK, AtWork, Sharing, TypeOK, Idle, NoShared
<1>l. Leaving'
  BY <1>0, <1>1, <1>2, Names DEF IInv, FieldsOK, Leaving, Idle
<1>g. LoopEnded'
  BY <1>0, <1>1, <1>2, <1>3, Names DEF IInv, FieldsOK, LoopEnded, Idle
<1>h. BrowsersAreOwned'
  BY <1>0, <1>1, <1>2, <1>3, <1>4, Names DEF IInv, FieldsOK, BrowsersAreOwned, Exists
<1> QED BY <1>a, <1>b, <1>c, <1>d, <1>e, <1>f, <1>l, <1>g, <1>h DEF IInv

\* A browser past its deadline is stopped.
LEMMA ExpireOneInv ==
  ASSUME IInv, NEW l \in Leases, ExpireOne(l)
  PROVE  IInv'
<1>0. PICK L, O : L = th["loop"].todo \ {l} /\ O = th["loop"].over
  OBVIOUS
<1>1. /\ th["loop"].pc = "expire" /\ mgr = "loop" /\ L \subseteq Leases /\ O \subseteq Leases /\ L = th["loop"].todo \ {l} /\ O = th["loop"].over /\ l \in th["loop"].todo /\ l \in O
      /\ th'["loop"] = [pc |-> "expire", todo |-> L, over |-> O] /\ th'["loop"].pc = "expire" /\ th'["loop"].todo = L /\ th'["loop"].over = O
      /\ th' = [u \in Threads |-> th'[u]] /\ \A u \in Threads : u # "loop" => th'[u] = th[u]
      /\ lease' \in [Leases -> Lease \cup {NoLease}] /\ lease[l] # NoLease /\ lease'[l] # NoLease /\ \A k \in Leases : k # l => lease'[k] = lease[k]
      /\ proc' \in [Leases -> {"unborn", "running", "zombie", "gone"}]
      /\ \A k \in Leases : proc'[k] = "unborn" <=> proc[k] = "unborn"
      /\ Running' = Running \ {l} /\ Ended \subseteq Ended' /\ l \in Ended'
      /\ UNCHANGED <<scope, token, active, shared, sess, enabled, lifecycle, mgr, managed, daemon>>
 <2>1. th["loop"].pc = "expire" /\ l \in th["loop"].todo /\ L \subseteq Leases /\ O \subseteq Leases
        /\ th["loop"] = [pc |-> "expire", todo |-> th["loop"].todo, over |-> O]
    BY <1>0, Shapes, LoopShape DEF ExpireOne, IInv, Looping
  <2>2. mgr = "loop" /\ lease[l] # NoLease /\ l \in O
    BY <1>0, <2>1 DEF IInv, LocksHeld, Looping, TokensTaken
  <2>10. [th["loop"] EXCEPT !.todo = L] = [pc |-> "expire", todo |-> L, over |-> O]
    BY <2>1
  <2>3. Go("loop", [pc |-> "expire", todo |-> L, over |-> O])
    BY <1>0, <2>10 DEF ExpireOne
  <2>4. Stop(l) /\ lease' = [lease EXCEPT ![l].child = "none", ![l].state = "revoked"]
        /\ UNCHANGED <<scope, token, active, shared, sess, enabled, lifecycle, mgr, managed, daemon>>
    BY DEF ExpireOne, locks
  <2> HIDE DEF ExpireOne
  <2>9. th' = [u \in Threads |-> th'[u]] /\ th'["loop"] = [pc |-> "expire", todo |-> L, over |-> O]
        /\ \A u \in Threads : u # "loop" => th'[u] = th[u]
    BY <2>3, GoDoes, Names DEF IInv
  <2>5. lease[l] \in Lease
    BY <2>2 DEF IInv, TypeOK
  <2>6. \A r \in Lease : [[r EXCEPT !.child = "none"] EXCEPT !.state = "revoked"] \in Lease
    BY DEF Lease, LeaseStates, LiveStates
  <2>7. NoLease \notin Lease
    BY DEF Lease, NoLease, LeaseStates, LiveStates
  <2>8. lease' = [lease EXCEPT ![l] = [[lease[l] EXCEPT !.child = "none"] EXCEPT !.state = "revoked"]]
    BY <2>4, <2>5 DEF IInv, TypeOK
  <2>11. lease' \in [Leases -> Lease \cup {NoLease}] /\ lease'[l] # NoLease /\ \A k \in Leases : k # l => lease'[k] = lease[k]
    <3>1. PICK r \in Lease : lease' = [lease EXCEPT ![l] = r]
      BY <2>5, <2>6, <2>8
    <3> QED BY <2>7, <3>1 DEF IInv, TypeOK
  <2>12. proc[l] # "unborn"
    BY <2>2 DEF IInv, Known
  <2> QED BY <1>0, <2>1, <2>2, <2>4, <2>9, <2>11, <2>12, StopDoes
<1>2. FieldsOK
  BY Fields DEF IInv
<1>3. Doomed' = Doomed
  BY <1>0, <1>1, Names DEF Doomed
<1>4. InHand' = InHand
  BY <1>0, <1>1, <1>2, <1>3, Names DEF InHand, Idle
<1>5. th[P].pc \notin AtWork
  BY <1>1, Names DEF IInv, LocksHeld
<1>a. TypeOK'
 <2>1. [pc |-> "expire", todo |-> L, over |-> O] \in Loop
    BY <1>1, LoopKinds
  <2>2. /\ th'["principal"] \in Ensurer /\ th'["loop"] \in Loop /\ th'["main"] \in Main
        /\ \A u \in Admins : th'[u] \in Admin
    BY <1>1, <2>1, LoopMoves DEF IInv
  <2> QED BY <1>1, <2>2, Names DEF IInv, TypeOK
<1>b. LocksHeld'
  BY <1>0, <1>1, Names DEF IInv, LocksHeld, Idle, AtWork, Looping
<1>c. Known'
  BY <1>0, <1>1, <1>2, <1>5, Names DEF IInv, FieldsOK, Known, Idle, AtWork
<1>d. TokensTaken' /\ TokensDieWithLease'
  BY <1>0, <1>1, <1>2, <1>5, Names DEF IInv, FieldsOK, TokensTaken, TokensDieWithLease, Idle, Exists, LiveStates, NoLease, AtWork, LocksHeld, Looping
<1>e. Ensuring'
  BY <1>0, <1>1, <1>2, <1>3, <1>5, Names DEF IInv, FieldsOK, AtWork, Ensuring, Idle, NoShared
<1>f. Sharing'
  BY <1>0, <1>1, <1>2, <1>3, <1>5, Names, SMTT(30) DEF IInv, FieldsOK, AtWork, Sharing, TypeOK, Idle, NoShared
<1>l. Leaving'
  BY <1>0, <1>1, <1>2, Names DEF IInv, FieldsOK, Leaving, Idle
<1>g. LoopEnded'
  BY <1>0, <1>1, <1>2, <1>3, Names DEF IInv, FieldsOK, LoopEnded, Idle
<1>h. BrowsersAreOwned'
  BY <1>0, <1>1, <1>2, <1>3, <1>4, Names DEF IInv, FieldsOK, BrowsersAreOwned, Exists
<1> QED BY <1>a, <1>b, <1>c, <1>d, <1>e, <1>f, <1>l, <1>g, <1>h DEF IInv

\* Every browser past its deadline was stopped.
LEMMA LoopExpiredInv ==
  ASSUME IInv, LoopExpired
  PROVE  IInv'
<1>0. PICK O : O = th["loop"].over
  OBVIOUS
<1>1. /\ th["loop"].pc = "expire" /\ th["loop"].todo = {} /\ O \subseteq Leases /\ O = th["loop"].over
      /\ th'["loop"] = [pc |-> "expired", todo |-> O] /\ th'["loop"].pc = "expired" /\ th'["loop"].todo = O
      /\ th' = [u \in Threads |-> th'[u]] /\ \A u \in Threads : u # "loop" => th'[u] = th[u]
      /\ UNCHANGED <<lease, proc, slips, scope, active, shared, sess, enabled, token, mgr, lifecycle, managed, daemon>>
 <2>1. th["loop"].pc = "expire" /\ th["loop"].todo = {} /\ O \subseteq Leases
    BY <1>0, Fields DEF LoopExpired, IInv, FieldsOK
  <2>3. Go("loop", [pc |-> "expired", todo |-> O])
    BY <1>0 DEF LoopExpired
  <2>4. UNCHANGED <<lease, proc, slips, scope, active, shared, sess, enabled, token, mgr, lifecycle, managed, daemon>>
    BY DEF LoopExpired, locks
  <2> HIDE DEF LoopExpired
  <2>9. th' = [u \in Threads |-> th'[u]] /\ th'["loop"] = [pc |-> "expired", todo |-> O]
        /\ \A u \in Threads : u # "loop" => th'[u] = th[u]
    BY <2>3, GoDoes, Names DEF IInv
  <2> QED BY <1>0, <2>1, <2>4, <2>9
<1>2. FieldsOK
  BY Fields DEF IInv
<1>3. Running' = Running /\ Ended' = Ended /\ Doomed' = Doomed
  BY <1>0, <1>1, Names DEF Running, Ended, Excused, Doomed
<1>4. InHand' = InHand
  BY <1>0, <1>1, <1>2, <1>3, Names DEF InHand, Idle
<1>a. TypeOK'
 <2>1. [pc |-> "expired", todo |-> O] \in Loop
    BY <1>1, LoopKinds
  <2>2. /\ th'["principal"] \in Ensurer /\ th'["loop"] \in Loop /\ th'["main"] \in Main
        /\ \A u \in Admins : th'[u] \in Admin
    BY <1>1, <2>1, LoopMoves DEF IInv
  <2> QED BY <1>1, <2>2, Names DEF IInv, TypeOK
<1>b. LocksHeld'
  BY <1>0, <1>1, Names DEF IInv, LocksHeld, Idle, AtWork, Looping
<1>c. Known'
  BY <1>0, <1>1, <1>2, Names DEF IInv, FieldsOK, Known, Idle
<1>d. TokensTaken' /\ TokensDieWithLease'
  BY <1>0, <1>1, <1>2, Names DEF IInv, FieldsOK, TokensTaken, TokensDieWithLease, Idle, Exists, LiveStates, NoLease
<1>e. Ensuring'
  BY <1>0, <1>1, <1>2, <1>3, Names DEF IInv, FieldsOK, AtWork, Ensuring, Idle, NoShared
<1>f. Sharing'
  BY <1>0, <1>1, <1>2, <1>3, Names, SMTT(30) DEF IInv, FieldsOK, AtWork, Sharing, TypeOK, Idle, NoShared
<1>l. Leaving'
  BY <1>0, <1>1, <1>2, Names DEF IInv, FieldsOK, Leaving, Idle
<1>g. LoopEnded'
  BY <1>0, <1>1, <1>2, <1>3, Names DEF IInv, FieldsOK, LoopEnded, Idle
<1>h. BrowsersAreOwned'
  BY <1>0, <1>1, <1>2, <1>3, <1>4, Names DEF IInv, FieldsOK, BrowsersAreOwned, Exists
<1> QED BY <1>a, <1>b, <1>c, <1>d, <1>e, <1>f, <1>l, <1>g, <1>h DEF IInv

\* The loop gives browser_manager back.
LEMMA LoopEndInv ==
  ASSUME IInv, LoopEnd
  PROVE  IInv'
<1>1. /\ th["loop"].pc = "expired" /\ th["loop"].todo = {} /\ mgr = "loop" /\ mgr' = "free"
      /\ th'["loop"] = Idle /\ th'["loop"].pc = "idle"
      /\ th' = [u \in Threads |-> th'[u]] /\ \A u \in Threads : u # "loop" => th'[u] = th[u]
      /\ UNCHANGED <<lease, proc, slips, scope, active, shared, sess, enabled, token, lifecycle, managed, daemon>>
 <2>1. th["loop"].pc = "expired" /\ th["loop"].todo = {} /\ mgr = "loop" /\ mgr' = "free"
    BY DEF LoopEnd, IInv, LocksHeld, Looping
  <2>3. Go("loop", Idle)
    BY DEF LoopEnd
  <2>4. UNCHANGED <<lease, proc, slips, scope, active, shared, sess, enabled, token, lifecycle, managed, daemon>>
    BY DEF LoopEnd
  <2> HIDE DEF LoopEnd
  <2>9. th' = [u \in Threads |-> th'[u]] /\ th'["loop"] = Idle
        /\ \A u \in Threads : u # "loop" => th'[u] = th[u]
    BY <2>3, GoDoes, Names DEF IInv
  <2> QED BY <2>1, <2>4, <2>9 DEF Idle
<1>2. FieldsOK
  BY Fields DEF IInv
<1>3. Running' = Running /\ Ended' = Ended /\ Doomed' = Doomed
  BY <1>1, Names DEF Running, Ended, Excused, Doomed
<1>4. InHand' = InHand
  BY <1>1, <1>2, <1>3, Names DEF InHand, Idle
<1>a. TypeOK'
 <2>1. Idle \in Loop
    BY <1>1 DEF Loop
  <2>2. /\ th'["principal"] \in Ensurer /\ th'["loop"] \in Loop /\ th'["main"] \in Main
        /\ \A u \in Admins : th'[u] \in Admin
    BY <1>1, <2>1, LoopMoves DEF IInv
  <2> QED BY <1>1, <2>2, Names DEF IInv, TypeOK
<1>b. LocksHeld'
  BY <1>1, Names DEF IInv, LocksHeld, Idle, AtWork, Looping
<1>c. Known'
  BY <1>1, <1>2, Names DEF IInv, FieldsOK, Known, Idle
<1>d. TokensTaken' /\ TokensDieWithLease'
  BY <1>1, <1>2, Names DEF IInv, FieldsOK, TokensTaken, TokensDieWithLease, Idle, Exists, LiveStates, NoLease
<1>e. Ensuring'
  BY <1>1, <1>2, <1>3, Names DEF IInv, FieldsOK, AtWork, Ensuring, Idle, NoShared
<1>f. Sharing'
  BY <1>1, <1>2, <1>3, Names, SMTT(30) DEF IInv, FieldsOK, AtWork, Sharing, TypeOK, Idle, NoShared
<1>l. Leaving'
  BY <1>1, <1>2, Names DEF IInv, FieldsOK, Leaving, Idle
<1>g. LoopEnded'
  BY <1>1, <1>2, <1>3, Names DEF IInv, FieldsOK, LoopEnded, Idle
<1>h. BrowsersAreOwned'
  BY <1>1, <1>2, <1>3, <1>4, Names DEF IInv, FieldsOK, BrowsersAreOwned, Exists
<1> QED BY <1>a, <1>b, <1>c, <1>d, <1>e, <1>f, <1>l, <1>g, <1>h DEF IInv

\* The thread that shuts down moves.
LEMMA MainMoves ==
  ASSUME TypeOK, th'["main"] \in Main,
         th' = [u \in Threads |-> th'[u]], \A u \in Threads : u # "main" => th'[u] = th[u]
  PROVE  /\ th'["principal"] \in Ensurer /\ th'["loop"] \in Loop /\ th'["main"] \in Main
         /\ \A u \in Admins : th'[u] \in Admin
BY Names DEF TypeOK, P

\* A shutdown revokes every token.
LEMMA ShutdownBeginInv ==
  ASSUME IInv, ShutdownBegin
  PROVE  IInv'
<1>1. /\ th["main"] = Idle /\ th["main"].pc = "idle" /\ daemon = "running" /\ daemon' = "stopping"
      /\ th'["main"] = [pc |-> "join"] /\ th'["main"].pc = "join"
      /\ th' = [u \in Threads |-> th'[u]] /\ \A u \in Threads : u # "main" => th'[u] = th[u]
      /\ token' \in [Leases -> {"none", "registration", "signing"}] /\ \A k \in Leases : token'[k] = "none"
      /\ UNCHANGED <<lease, proc, slips, scope, active, shared, sess, enabled, mgr, lifecycle, managed>>
 <2>1. th["main"] = Idle /\ daemon = "running" /\ daemon' = "stopping"
    BY DEF ShutdownBegin, IInv, LocksHeld
  <2>3. Go("main", [pc |-> "join"])
    BY DEF ShutdownBegin
  <2>4. (token' \in [Leases -> {"none", "registration", "signing"}] /\ \A k \in Leases : token'[k] = "none")
        /\ UNCHANGED <<lease, proc, slips, scope, active, shared, sess, enabled, mgr, lifecycle, managed>>
    BY DEF ShutdownBegin, locks
  <2> HIDE DEF ShutdownBegin
  <2>9. th' = [u \in Threads |-> th'[u]] /\ th'["main"] = [pc |-> "join"]
        /\ \A u \in Threads : u # "main" => th'[u] = th[u]
    BY <2>3, GoDoes, Names DEF IInv
  <2> QED BY <2>1, <2>4, <2>9 DEF Idle
<1>2. FieldsOK
  BY Fields DEF IInv
<1>3. Running' = Running /\ Ended' = Ended /\ Doomed' = Doomed
  BY <1>1, Names DEF Running, Ended, Excused, Doomed
<1>4. InHand' = InHand
  BY <1>1, <1>2, <1>3, Names DEF InHand, Idle
<1>a. TypeOK'
 <2>1. [pc |-> "join"] \in Main
    BY <1>1 DEF Main
  <2>2. /\ th'["principal"] \in Ensurer /\ th'["loop"] \in Loop /\ th'["main"] \in Main
        /\ \A u \in Admins : th'[u] \in Admin
    BY <1>1, <2>1, MainMoves DEF IInv
  <2> QED BY <1>1, <2>2, Names DEF IInv, TypeOK
<1>b. LocksHeld'
  BY <1>1, Names DEF IInv, LocksHeld, Idle, AtWork, Looping
<1>c. Known'
  BY <1>1, <1>2, Names DEF IInv, FieldsOK, Known, Idle
<1>d. TokensTaken' /\ TokensDieWithLease'
  BY <1>1, <1>2, Names DEF IInv, FieldsOK, TokensTaken, TokensDieWithLease, Idle, Exists, LiveStates, NoLease
<1>e. Ensuring'
  BY <1>1, <1>2, <1>3, Names DEF IInv, FieldsOK, AtWork, Ensuring, Idle, NoShared
<1>f. Sharing'
  BY <1>1, <1>2, <1>3, Names, SMTT(30) DEF IInv, FieldsOK, AtWork, Sharing, TypeOK, Idle, NoShared
<1>l. Leaving'
  BY <1>1, <1>2, Names DEF IInv, FieldsOK, Leaving, Idle
<1>g. LoopEnded'
  BY <1>1, <1>2, <1>3, Names DEF IInv, FieldsOK, LoopEnded, Idle
<1>h. BrowsersAreOwned'
  BY <1>1, <1>2, <1>3, <1>4, Names DEF IInv, FieldsOK, BrowsersAreOwned, Exists
<1> QED BY <1>a, <1>b, <1>c, <1>d, <1>e, <1>f, <1>l, <1>g, <1>h DEF IInv

\* A shutdown ends every session that is still managed.
LEMMA ShutdownSessionsInv ==
  ASSUME IInv, ShutdownSessions
  PROVE  IInv'
<1>0. PICK S : S = {s \in Sessions : sess[s] = "live"}
  OBVIOUS
<1>1. /\ th["main"].pc = "join" /\ managed = "free" /\ managed' = "main" /\ S \subseteq Sessions /\ \A s \in Sessions : sess[s] = "live" => s \in S
      /\ th'["main"] = [pc |-> "ending", ending |-> S] /\ th'["main"].pc = "ending" /\ th'["main"].ending = S
      /\ th' = [u \in Threads |-> th'[u]] /\ \A u \in Threads : u # "main" => th'[u] = th[u]
      /\ sess' \in [Sessions -> {"live", "ended"}] /\ (\A s \in Sessions : sess'[s] = "ended") /\ daemon # "running"
      /\ UNCHANGED <<lease, proc, slips, scope, active, shared, enabled, token, mgr, lifecycle, daemon>>
 <2>1. th["main"].pc = "join" /\ managed = "free" /\ managed' = "main"
    BY DEF ShutdownSessions
  <2>2. S \subseteq Sessions /\ (\A s \in Sessions : sess[s] = "live" => s \in S) /\ daemon # "running"
    BY <1>0, <2>1 DEF IInv, LocksHeld, Idle
  <2>3. Go("main", [pc |-> "ending", ending |-> S])
    BY <1>0 DEF ShutdownSessions
  <2>4. (sess' \in [Sessions -> {"live", "ended"}] /\ \A s \in Sessions : sess'[s] = "ended") /\ UNCHANGED <<lease, proc, slips, scope, active, shared, enabled, token, mgr, lifecycle, daemon>>
    BY DEF ShutdownSessions
  <2> HIDE DEF ShutdownSessions
  <2>9. th' = [u \in Threads |-> th'[u]] /\ th'["main"] = [pc |-> "ending", ending |-> S]
        /\ \A u \in Threads : u # "main" => th'[u] = th[u]
    BY <2>3, GoDoes, Names DEF IInv
  <2> QED BY <2>1, <2>2, <2>4, <2>9
<1>2. FieldsOK
  BY Fields DEF IInv
<1>3. Running' = Running /\ Ended' = Ended /\ Doomed' = Doomed
  BY <1>0, <1>1, Names DEF Running, Ended, Excused, Doomed
<1>4. InHand \subseteq InHand' /\ \A s \in Sessions : sess[s] = "live" /\ active[s] \in Leases => active[s] \in InHand'
  BY <1>0, <1>1, <1>2, <1>3, Names DEF InHand, FieldsOK
<1>a. TypeOK'
 <2>1. [pc |-> "ending", ending |-> S] \in Main
    BY <1>1 DEF Main, Ender
  <2>2. /\ th'["principal"] \in Ensurer /\ th'["loop"] \in Loop /\ th'["main"] \in Main
        /\ \A u \in Admins : th'[u] \in Admin
    BY <1>1, <2>1, MainMoves DEF IInv
  <2> QED BY <1>1, <2>2, Names DEF IInv, TypeOK
<1>b. LocksHeld'
  BY <1>0, <1>1, Names DEF IInv, LocksHeld, Idle, AtWork, Looping
<1>c. Known'
  BY <1>0, <1>1, <1>2, Names DEF IInv, FieldsOK, Known, Idle
<1>d. TokensTaken' /\ TokensDieWithLease'
  BY <1>0, <1>1, <1>2, Names DEF IInv, FieldsOK, TokensTaken, TokensDieWithLease, Idle, Exists, LiveStates, NoLease
<1>e. Ensuring'
  BY <1>0, <1>1, <1>2, <1>3, Names DEF IInv, FieldsOK, AtWork, Ensuring, Idle, NoShared
<1>f. Sharing'
 <2>1. \A s \in Sessions : sess[s] = "live" \/ sess[s] = "ended"
    BY DEF IInv, TypeOK
  <2>2. th[P].pc \notin AtWork /\ th'[P] = th[P]
    BY <1>1, Names DEF IInv, LocksHeld
  <2> QED BY <1>1, <1>2, <1>3, <2>1, <2>2, Names DEF IInv, FieldsOK, Sharing
<1>l. Leaving'
  BY <1>0, <1>1, <1>2, Names DEF IInv, FieldsOK, Leaving, Idle
<1>g. LoopEnded'
  BY <1>0, <1>1, <1>2, <1>3, Names DEF IInv, FieldsOK, LoopEnded, Idle
<1>h. BrowsersAreOwned'
  BY <1>0, <1>1, <1>2, <1>3, <1>4, Names DEF IInv, FieldsOK, BrowsersAreOwned, Exists
<1> QED BY <1>a, <1>b, <1>c, <1>d, <1>e, <1>f, <1>l, <1>g, <1>h DEF IInv

\* terminate_all stops every browser on a lease.
LEMMA TerminateAllInv ==
  ASSUME IInv, TerminateAll
  PROVE  IInv'
<1>1. /\ th["main"].pc = "terminate" /\ mgr = "free" /\ daemon' = "stopped"
      /\ th'["main"] = [pc |-> "stopped"] /\ th'["main"].pc = "stopped"
      /\ th' = [u \in Threads |-> th'[u]] /\ \A u \in Threads : u # "main" => th'[u] = th[u]
      /\ lease' \in [Leases -> Lease \cup {NoLease}] /\ \A k \in Leases : (lease'[k] = NoLease <=> lease[k] = NoLease) /\ lease'[k].state = lease[k].state
      /\ proc' \in [Leases -> {"unborn", "running", "zombie", "gone"}] /\ \A k \in Leases : proc'[k] = "unborn" => proc[k] = "unborn"
      /\ Running' = {} /\ Ended \subseteq Ended'
      /\ UNCHANGED <<scope, active, shared, sess, enabled, token, mgr, lifecycle, managed>>
 <2>1. th["main"].pc = "terminate" /\ mgr = "free" /\ daemon' = "stopped"
    BY DEF TerminateAll
  <2>2. PICK left \in SUBSET Leases :
        /\ proc' = [k \in Leases |-> IF k \in {j \in Leases : Exists(j) /\ lease[j].child = "held"} \ left
                                     THEN "gone" ELSE proc[k]]
        /\ slips' = slips \cup {<<"unkillable", k>> : k \in left}
        /\ lease' = [k \in Leases |-> IF Exists(k) THEN [lease[k] EXCEPT !.child = "none"] ELSE NoLease]
    BY DEF TerminateAll
  <2>3. Go("main", [pc |-> "stopped"])
    BY DEF TerminateAll
  <2>4. UNCHANGED <<scope, active, shared, sess, enabled, token, mgr, lifecycle, managed>>
    BY DEF TerminateAll, locks
  <2> HIDE DEF TerminateAll
  <2>9. th' = [u \in Threads |-> th'[u]] /\ th'["main"] = [pc |-> "stopped"]
        /\ \A u \in Threads : u # "main" => th'[u] = th[u]
    BY <2>3, GoDoes, Names DEF IInv
  <2>5. \A r \in Lease : [r EXCEPT !.child = "none"] \in Lease /\ [r EXCEPT !.child = "none"].state = r.state
    BY DEF Lease
  <2>6. NoLease \notin Lease
    BY DEF Lease, NoLease, LeaseStates, LiveStates
  <2>7. ASSUME NEW k \in Leases
        PROVE  /\ lease'[k] \in Lease \cup {NoLease} /\ lease'[k].state = lease[k].state
               /\ lease'[k] = NoLease <=> lease[k] = NoLease
    <3>1. k # None
      BY BrowserNamesAssumption DEF None
    <3>2. CASE lease[k] = NoLease
      BY <2>2, <3>2 DEF Exists
    <3>3. CASE lease[k] # NoLease
      <4>1. lease[k] \in Lease /\ lease'[k] = [lease[k] EXCEPT !.child = "none"]
        BY <2>2, <3>1, <3>3 DEF Exists, IInv, TypeOK
      <4> QED BY <2>5, <2>6, <3>3, <4>1
    <3> QED BY <3>2, <3>3
  <2>8. \A k \in Leases : /\ proc'[k] \in {"unborn", "running", "zombie", "gone"}
                          /\ proc'[k] \in {proc[k], "gone"}
                          /\ proc'[k] = "running" /\ k \notin left =>
                               proc[k] = "running" /\ ~(Exists(k) /\ lease[k].child = "held")
                          /\ proc'[k] = "running" => proc[k] = "running"
    BY <2>2 DEF IInv, TypeOK
  <2>10. Running' = {} /\ Ended \subseteq Ended'
    <3>1. \A k \in Leases : (Excused(k) \/ k \in left) <=> Excused(k)'
      <4>1. \A k \in Leases : k \in left => <<"unkillable", k>> \in slips'
        BY <2>2
      <4>2. \A k \in Leases, why \in {"stray", "unkillable", "disabled", "late", "panic"} :
              <<why, k>> \in slips' => <<why, k>> \in slips \/ k \in left
        BY <2>2
      <4>3. slips \subseteq slips'
        BY <2>2
      <4> QED BY <4>1, <4>2, <4>3 DEF Excused
    <3>2. \A k \in Leases : k \notin Running'
      BY <2>8, <3>1 DEF Running, IInv, BrowsersAreOwned
    <3> QED BY <2>8, <3>1, <3>2 DEF Running, Ended
  <2>11. lease' = [k \in Leases |-> lease'[k]] /\ proc' = [k \in Leases |-> proc'[k]]
    BY <2>2
  <2> QED BY <2>1, <2>4, <2>7, <2>8, <2>9, <2>10, <2>11
<1>2. FieldsOK
  BY Fields DEF IInv
<1>3. Doomed' = Doomed
  BY <1>1, Names DEF Doomed
<1>4. InHand' = InHand
  BY <1>1, <1>2, <1>3, Names DEF InHand, Idle
<1>a. TypeOK'
 <2>1. [pc |-> "stopped"] \in Main
    BY <1>1 DEF Main
  <2>2. /\ th'["principal"] \in Ensurer /\ th'["loop"] \in Loop /\ th'["main"] \in Main
        /\ \A u \in Admins : th'[u] \in Admin
    BY <1>1, <2>1, MainMoves DEF IInv
  <2> QED BY <1>1, <2>2, Names DEF IInv, TypeOK
<1>b. LocksHeld'
  BY <1>1, Names DEF IInv, LocksHeld, Idle, AtWork, Looping
<1>c. Known'
  BY <1>1, <1>2, Names DEF IInv, FieldsOK, Known, Idle
<1>d. TokensTaken' /\ TokensDieWithLease'
  BY <1>1, <1>2, Names DEF IInv, FieldsOK, TokensTaken, TokensDieWithLease, Idle, Exists, LiveStates, NoLease, LocksHeld, AtWork, Looping
<1>e. Ensuring'
  BY <1>1, <1>2, <1>3, Names DEF IInv, FieldsOK, AtWork, Ensuring, Idle, NoShared
<1>f. Sharing'
  BY <1>1, <1>2, <1>3, Names, SMTT(30) DEF IInv, FieldsOK, AtWork, Sharing, TypeOK, Idle, NoShared
<1>l. Leaving'
  BY <1>1, <1>2, Names DEF IInv, FieldsOK, Leaving, Idle
<1>g. LoopEnded'
  BY <1>1, <1>2, <1>3, Names DEF IInv, FieldsOK, LoopEnded, Idle
<1>h. BrowsersAreOwned'
  BY <1>1, <1>2, <1>3, <1>4, Names DEF IInv, FieldsOK, BrowsersAreOwned, Exists
<1> QED BY <1>a, <1>b, <1>c, <1>d, <1>e, <1>f, <1>l, <1>g, <1>h DEF IInv

-----------------------------------------------------------------------------
(* The invariant.                                                           *)

\* It holds at the start.
LEMMA InitInv == Init => IInv
<1> SUFFICES ASSUME Init PROVE IInv
  OBVIOUS
<1>1. /\ \A t \in Threads : th[t] = Idle /\ th[t].pc = "idle"
      /\ \A l \in Leases : lease[l] = NoLease /\ proc[l] = "unborn" /\ token[l] = "none"
      /\ \A s \in Sessions : active[s] = None /\ sess[s] = "live"
      /\ shared = NoShared /\ shared.lease = None /\ shared.attached = {}
  BY DEF Init, Idle, NoShared
<1>2. Running = {}
  BY <1>1 DEF Running
<1>3. Idle \in Ensurer /\ Idle \in Loop /\ Idle \in Main /\ Idle \in Admin
  BY DEF Idle, Ensurer, Loop, Main, Admin
<1>4. TypeOK
  BY <1>1, <1>3, Names DEF Init, TypeOK, NoShared, P
<1>5. LocksHeld /\ Known /\ LoopEnded
  BY <1>1, Names DEF Init, LocksHeld, Known, LoopEnded, AtWork, Looping
<1>6. TokensTaken /\ TokensDieWithLease /\ BrowsersAreOwned
  BY <1>1, <1>2, Names DEF TokensTaken, TokensDieWithLease, BrowsersAreOwned
<1>7. Ensuring /\ Sharing /\ Leaving
  BY <1>1, <1>2, Names DEF Ensuring, Sharing, Leaving
<1> QED BY <1>4, <1>5, <1>6, <1>7 DEF IInv

\* A step that changes nothing keeps it.
LEMMA StutterInv ==
  ASSUME IInv, UNCHANGED vars
  PROVE  IInv'
<1>1. UNCHANGED <<scope, lease, proc, token, active, shared, sess, enabled, th, lifecycle, mgr, managed, daemon, slips>>
  BY DEF vars
<1>2. Running' = Running /\ Ended' = Ended /\ Doomed' = Doomed /\ InHand' = InHand
  BY <1>1 DEF Running, Ended, Excused, Doomed, InHand
<1>3. TypeOK' /\ LocksHeld' /\ Known'
  BY <1>1, SMTT(60) DEF IInv, TypeOK, LocksHeld, Known
<1>4. TokensTaken' /\ TokensDieWithLease' /\ BrowsersAreOwned'
  BY <1>1, <1>2 DEF IInv, TokensTaken, TokensDieWithLease, BrowsersAreOwned, Exists
<1>5. Ensuring' /\ Sharing' /\ Leaving' /\ LoopEnded'
  BY <1>1, <1>2 DEF IInv, Ensuring, Sharing, Leaving, LoopEnded
<1> QED BY <1>3, <1>4, <1>5 DEF IInv

\* The request for a browser, whichever way each of its stages comes out.
LEMMA EnsureStepInv ==
  ASSUME IInv, EnsureStep
  PROVE  IInv'
<1>1. CASE EnsureVerify
  BY <1>1, EnsureVerifyInv
<1>2. CASE EnsureLock
  BY <1>2, EnsureLockInv
<1>3. CASE EnsureShared
  BY <1>3, EnsureSharedNone, EnsureSharedJoin, EnsureSharedDrop
<1>4. CASE EnsureUnshare
  BY <1>4, EnsureUnshareInv
<1>5. CASE EnsureAttach
  BY <1>5, EnsureAttachInv, EnsureAttachPanics
<1>6. CASE EnsureInsert
  BY <1>6, EnsureInsertInv
<1>7. CASE EnsureOwn
  BY <1>7, EnsureOwnNone, EnsureOwnAgain, EnsureOwnDrop
<1>8. CASE EnsureDisown
  BY <1>8, EnsureDisownInv
<1>9. CASE EnsureFinish
  BY <1>9, EnsureFinishKeeps, EnsureFinishUndoes
<1>10. CASE EnsureRecord
  BY <1>10, EnsureRecordShares, EnsureRecordAnswers
<1>11. CASE EnsureShare
  BY <1>11, EnsureShareInv
<1>12. ASSUME NEW l \in Leases, NEW o \in LaunchOutcomes, EnsureLaunch(l, o) PROVE IInv'
  <2>1. o = "ok" \/ o \in {"stray", "refused"}
    BY Outcomes
  <2>2. CASE o = "ok"
    BY <1>12, <2>2, EnsureLaunchOk
  <2>3. CASE o \in {"stray", "refused"}
    BY <1>12, <2>3, EnsureLaunchFails
  <2> QED BY <2>1, <2>2, <2>3
<1> QED BY <1>1, <1>2, <1>3, <1>4, <1>5, <1>6, <1>7, <1>8, <1>9, <1>10, <1>11, <1>12 DEF EnsureStep

\* The other threads.
LEMMA OtherStepsInv ==
  ASSUME IInv, LoopStep \/ MainStep \/ (\E t \in Admins : AdminStep(t)) \/ (\E t \in Threads : EndStep(t))
  PROVE  IInv'
<1>1. CASE LoopStep
  <2>1. ASSUME NEW S \in SUBSET Sessions, EndSessions("loop", S) PROVE IInv'
    BY <2>1, EndSessionsInv
  <2>2. ASSUME NEW l \in Leases, LoopForget(l) \/ ExpireOne(l) PROVE IInv'
    BY <2>2, LoopForgetInv, ExpireOneInv
  <2>3. CASE CheckExits \/ LoopForgetShared
    BY <2>3, CheckExitsInv, LoopForgetSharedInv
  <2>4. CASE CheckExpired \/ LoopExpired \/ LoopEnd
    BY <2>4, CheckExpiredInv, LoopExpiredInv, LoopEndInv
  <2> QED BY <1>1, <2>1, <2>2, <2>3, <2>4 DEF LoopStep
<1>2. CASE MainStep
  BY <1>2, ShutdownBeginInv, ShutdownSessionsInv, TerminateAllInv DEF MainStep
<1>3. ASSUME NEW t \in Admins, AdminStep(t) PROVE IInv'
  <2>1. CASE DrainActive(t) \/ RemoveShared(t) \/ FindLive(t)
    BY <2>1, DrainActiveInv, RemoveSharedInv, FindLiveInv
  <2>2. CASE CleanupEnd(t)
    BY <2>2, CleanupEndReload, CleanupEndDisable
  <2>3. ASSUME NEW l \in Leases, KillOne(t, l) PROVE IInv'
    BY <2>3, KillOneInv
  <2>4. ASSUME NEW l \in Leases, NEW o \in LaunchOutcomes, AdminLaunch(t, l, o) PROVE IInv'
    <3>1. o = "ok" \/ o \in {"stray", "refused"}
      BY Outcomes
    <3>2. CASE o = "ok"
      BY <2>4, <3>2, AdminLaunchOk
    <3>3. CASE o \in {"stray", "refused"}
      BY <2>4, <3>3, AdminLaunchFails
    <3> QED BY <3>1, <3>2, <3>3
  <2> QED BY <1>3, <2>1, <2>2, <2>3, <2>4 DEF AdminStep
<1>4. ASSUME NEW t \in Threads, EndStep(t) PROVE IInv'
  <2>1. ASSUME NEW s \in Sessions, EndDetach(t, s) PROVE IInv'
    BY <2>1, EndDetachNothing, EndDetachShared, EndDetachOwn
  <2>2. CASE DetachSession(t)
    BY <2>2, DetachLast, DetachOne
  <2>3. CASE EndKill(t) \/ EndDone(t)
    BY <2>3, EndKillInv, EndDoneInv
  <2> QED BY <1>4, <2>1, <2>2, <2>3 DEF EndStep
<1> QED BY <1>1, <1>2, <1>3, <1>4

\* Every step keeps it.
LEMMA NextInv ==
  ASSUME IInv, [Next]_vars
  PROVE  IInv'
<1>1. CASE UNCHANGED vars
  BY <1>1, StutterInv
<1>2. CASE Request
  <2>1. ASSUME NEW s \in Sessions, EnsureBegin(s) PROVE IInv'
    BY <2>1, EnsureBeginInv
  <2>2. ASSUME NEW t \in Admins, NEW why \in {"reload", "disable"}, CleanupBegin(t, why) PROVE IInv'
    BY <2>2, CleanupBeginInv
  <2>3. ASSUME NEW t \in Admins, EnableProfile(t) \/ AdminAccept(t) PROVE IInv'
    BY <2>3, EnableProfileInv, AdminAcceptInv
  <2>4. ASSUME NEW t \in Admins, NEW S \in SUBSET Sessions, EndSessions(t, S) PROVE IInv'
    BY <2>4, EndSessionsInv
  <2> QED BY <1>2, <2>1, <2>2, <2>3, <2>4 DEF Request
<1>3. ASSUME NEW l \in Leases, BrowserExits(l) \/ DeadlinePasses(l) \/ ActivateAfterAssertion(l) PROVE IInv'
  BY <1>3, BrowserExitsInv, DeadlinePassesInv, ActivateAfterAssertionInv
<1>4. CASE EnsureStep
  BY <1>4, EnsureStepInv
<1>5. CASE LoopStep \/ MainStep \/ (\E t \in Admins : AdminStep(t)) \/ (\E t \in Threads : EndStep(t))
  BY <1>5, OtherStepsInv
<1> QED BY <1>1, <1>2, <1>3, <1>4, <1>5 DEF Next

\* The threads of a daemon keep their locks, names and tokens as the invariant
\* says, however they interleave.
THEOREM InvHolds == Spec => []IInv
<1>1. Init => IInv
  BY InitInv
<1>2. IInv /\ [Next]_vars => IInv'
  BY NextInv
<1> QED BY <1>1, <1>2, PTL DEF Spec

\* A browser that runs is on a lease that holds its process and belongs to a
\* live session, a thread's hands or its deadline, except for the four named
\* causes; after a shutdown none runs (cleanup_browser_for_session,
\* detach_session_from_shared, cleanup_all_browsers_for_profile, check_exits,
\* check_expired, terminate_all).
THEOREM BrowsersAreOwnedHolds == Spec => []BrowsersAreOwned
<1>1. IInv => BrowsersAreOwned
  BY DEF IInv
<1> QED BY <1>1, InvHolds, PTL

\* No thread drops a lease whose browser can still sign (revoke_by_lease before
\* remove, in every path that removes).
THEOREM TokensDieWithLeaseHolds == Spec => []TokensDieWithLease
<1>1. IInv => TokensDieWithLease
  BY DEF IInv
<1> QED BY <1>1, InvHolds, PTL
=============================================================================
