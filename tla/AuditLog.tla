------------------------------ MODULE AuditLog ------------------------------
(***************************************************************************)
(* AuditGate (agent/audit.rs): the hash-chained log every operation must   *)
(* be recorded in before a key is used.  The log is a list of segment      *)
(* files and an anchor file that names the last record; the gate keeps     *)
(* their tail in memory.  Any number of threads record at the same time,   *)
(* and the daemon may die between any two writes.                          *)
(*                                                                         *)
(* A hash is a number minted with the record it stands for, so two hashes  *)
(* are equal only if the records are.  The hash in the anchor is written   *)
(* and never compared; it is left out.  The mutexes sequence, last_hash,   *)
(* writer and segment_index are taken together and are one lock here,      *)
(* guard: record and rotate_segment take them in opposite orders, which    *)
(* may block two threads for ever but lets neither see half an update.     *)
(* What the file system does with bytes that are not synced is a choice    *)
(* made by the crash, or by the failed call, that leaves them behind.      *)
(***************************************************************************)
EXTENDS Integers, Sequences, FiniteSets, FiniteSetsExt

CONSTANTS Recorders,    \* threads that record
          Sizes,        \* frame lengths
          MaxSegment,   \* max_segment_size
          MaxRecords,   \* bound on frames encoded (model only)
          MaxFaults,    \* bound on failing I/O calls (model only)
          MaxCrashes    \* bound on crashes (model only)

ASSUME AuditBoundsAssumption ==
  /\ Sizes \subseteq 1..MaxSegment /\ Sizes # {}
  /\ {MaxSegment, MaxRecords, MaxFaults, MaxCrashes} \subseteq Nat
  /\ Recorders \cap {"open", "free"} = {}

VARIABLES segs,       \* the segment files, in the order of their indices
          anchor,     \* audit.anchor
          status,     \* of the gate: see Statuses
          mem,        \* what the gate keeps of the tail, and circuit_broken
          guard,      \* the thread that holds sequence, last_hash and writer
          th,         \* the recording threads
          minted,     \* hashes computed so far
          accepted,   \* history: the records whose caller was told Ok
          slips,      \* history: writes the gate should not have made, by cause
          faults, crashes

vars == <<segs, anchor, status, mem, guard, th, minted, accepted, slips, faults, crashes>>

\* closed: no process; creating: first segment and anchor on their way;
\* repair: the files verified; recovering: daemon.recover on its way.
Statuses == {"closed", "creating", "repair", "recovering", "open", "refused"}
Threads == Recorders \cup {"open"}       \* "open" records daemon.recover
Frames == [seq : Nat \ {0}, prev : Nat, hash : Nat \ {0}, size : Sizes]
Junk == [seq |-> 0]                      \* an incomplete frame
Short == [first |-> 0]                   \* an incomplete header
NoAnchor == [seg |-> 0]
Idle == [pc |-> "idle"]
Fresh == [seq |-> 0, hash |-> 0, seg |-> 0, broken |-> "no"]

Init ==
  /\ segs = <<>> /\ anchor = NoAnchor /\ status = "closed" /\ mem = Fresh
  /\ guard = "free" /\ th = [t \in Threads |-> Idle]
  /\ minted = 0 /\ accepted = {} /\ slips = {} /\ faults = 0 /\ crashes = 0

-----------------------------------------------------------------------------
(* Reading the files *)

\* Frames in file order, each complete, numbered on from the header and
\* naming the hash before it.
Chained(s, k) ==
  /\ s.items[k] # Junk
  /\ s.items[k].seq = s.head.first + k - 1
  /\ s.items[k].prev = IF k = 1 THEN s.head.prev ELSE s.items[k - 1].hash

\* read_last_valid_record_info: the frames before the first that does not chain.
ValidLen(s) ==
  Max({n \in 0..Len(s.items) : \A k \in 1..n : Chained(s, k)})

LastSeq(s) == IF ValidLen(s) = 0 THEN 0 ELSE s.items[ValidLen(s)].seq
LastHash(s) == IF ValidLen(s) = 0 THEN s.head.prev ELSE s.items[ValidLen(s)].hash
HasTail(s) == ValidLen(s) < Len(s.items)

\* verify_all_segments: every header is complete and names the hash the
\* segment before ended with; only the last may have a tail that does not
\* chain.  first_sequence is compared for the first segment only.
Verified ==
  /\ \A i \in DOMAIN segs : segs[i].head # Short
  /\ segs[1].head = [first |-> 1, prev |-> 0]
  /\ \A i \in 1..Len(segs) - 1 :
       ~HasTail(segs[i]) /\ segs[i + 1].head.prev = LastHash(segs[i])

Last == segs[Len(segs)]

\* The anchor names a segment that is gone, or a record in the tail.
AnchorViolation ==
  /\ anchor # NoAnchor
  /\ \/ anchor.seg > Len(segs)
     \/ HasTail(Last) /\ anchor.seg = Len(segs) /\ anchor.seq > LastSeq(Last)

NeedsRecovery ==
  \/ HasTail(Last)
  \/ anchor # NoAnchor /\ (anchor.seq < LastSeq(Last) \/ anchor.seg < Len(segs))

Size(s) == MapThenSumSet(LAMBDA k : IF s.items[k] = Junk THEN 1 ELSE s.items[k].size, DOMAIN s.items)

-----------------------------------------------------------------------------
(* Opening: open_internal and initialize_or_verify *)

Fault == faults < MaxFaults /\ faults' = faults + 1

\* No segment: a first one is created, unless the anchor knows of records.
OpenEmpty ==
  /\ status = "closed" /\ segs = <<>>
  /\ IF anchor # NoAnchor /\ anchor.seq > 0
     THEN status' = "refused" /\ UNCHANGED segs
     ELSE status' = "creating" /\ segs' = <<[head |-> Short, items |-> <<>>]>>
  /\ UNCHANGED <<anchor, mem, guard, th, minted, accepted, slips, faults, crashes>>

\* Mutant: a tail that does not chain is taken for another's data.
OpenExistingStrict ==
  /\ status = "closed" /\ segs # <<>>
  /\ status' = IF Verified /\ ~HasTail(Last) /\ ~AnchorViolation THEN "repair" ELSE "refused"
  /\ UNCHANGED <<segs, anchor, mem, guard, th, minted, accepted, slips, faults, crashes>>

\* The files are verified and held against the anchor.
OpenExisting ==
  /\ status = "closed" /\ segs # <<>>
  /\ status' = IF Verified /\ ~AnchorViolation THEN "repair" ELSE "refused"
  /\ UNCHANGED <<segs, anchor, mem, guard, th, minted, accepted, slips, faults, crashes>>

FirstSegment == <<[head |-> [first |-> 1, prev |-> 0], items |-> <<>>]>>

\* create_initial_segment: header, sync, anchor; a failure leaves a header
\* that may be incomplete.
CreateInitial ==
  /\ status = "creating"
  /\ \/ /\ segs' = FirstSegment /\ anchor' = [seg |-> 1, seq |-> 0]
        /\ mem' = [Fresh EXCEPT !.seg = 1]
        /\ status' = "open" /\ UNCHANGED faults
     \/ /\ Fault /\ status' = "closed" /\ UNCHANGED mem
        /\ \/ UNCHANGED <<segs, anchor>>
           \/ segs' = FirstSegment /\ anchor' \in {anchor, [seg |-> 1, seq |-> 0]}
  /\ UNCHANGED <<guard, th, minted, accepted, slips, crashes>>

\* The tail is cut off, the memory filled and a missing anchor written; a
\* discontinuity is recorded before anything else.
RepairTo(cut, next) ==
  LET kept == [segs EXCEPT ![Len(segs)].items = SubSeq(@, 1, cut)]
      tip  == IF anchor = NoAnchor THEN [seg |-> Len(segs), seq |-> next - 1] ELSE anchor
  IN
  /\ status = "repair"
  /\ \/ /\ segs' = kept /\ anchor' = tip
        /\ mem' = [seq |-> next - 1, hash |-> LastHash(Last), seg |-> Len(segs), broken |-> "no"]
        /\ status' = IF NeedsRecovery THEN "recovering" ELSE "open"
        /\ UNCHANGED faults
     \/ /\ Fault /\ status' = "closed" /\ UNCHANGED mem
        /\ \/ segs' \in {segs, kept} /\ UNCHANGED anchor
           \/ segs' = kept /\ anchor' = tip
  /\ UNCHANGED <<guard, th, minted, accepted, slips, crashes>>

\* Mutant: the number of the last record, an empty segment forgotten.
RepairOffByOne == RepairTo(ValidLen(Last), LastSeq(Last))

\* Mutant: one valid record too few is kept.
RepairShort == RepairTo(Max({ValidLen(Last) - 1, 0}), Last.head.first + ValidLen(Last))

Repair == RepairTo(ValidLen(Last), Last.head.first + ValidLen(Last))

-----------------------------------------------------------------------------
(* record, and rotate_segment inside it *)

Become(t, rec) == th' = [th EXCEPT ![t] = rec]

\* record returns Err; a failed daemon.recover fails the opening.
Fail(t, broken) ==
  /\ Become(t, Idle) /\ guard' = "free"
  /\ mem' = IF broken = "yes" THEN [mem EXCEPT !.broken = "yes"] ELSE mem
  /\ status' = IF t = "open" THEN "closed" ELSE status

\* What the gate does although the frame does not fit the log any more: the
\* sequence moved on while the segment was rotated, another thread has broken
\* the circuit, or a file of a failed rotation follows the segment.
Slip(t) ==
  (IF th[t].prev # mem.hash THEN {"stale frame"} ELSE {})
    \cup (IF mem.broken = "yes" THEN {"circuit broken"} ELSE {})
    \cup (IF mem.seg # Len(segs) THEN {"orphan segment"} ELSE {})

\* circuit_broken is looked at before the locks are taken.
Begin(t, size) ==
  /\ th[t] = Idle /\ mem.broken = "no"
  /\ status = IF t = "open" THEN "recovering" ELSE "open"
  /\ Become(t, [pc |-> "lock", size |-> size])
  /\ UNCHANGED <<segs, anchor, status, mem, guard, minted, accepted, slips, faults, crashes>>

\* The frame is encoded, and the locks dropped again if the segment is full.
Encode(t) ==
  LET rotate == Size(segs[mem.seg]) + th[t].size > MaxSegment IN
  /\ th[t].pc = "lock" /\ guard = "free" /\ minted < MaxRecords
  /\ minted' = minted + 1
  /\ Become(t, [pc |-> IF rotate THEN "rotate" ELSE "write", size |-> th[t].size,
                seq |-> mem.seq + 1, prev |-> mem.hash, hash |-> minted + 1])
  /\ guard' = IF rotate THEN "free" ELSE t
  /\ UNCHANGED <<segs, anchor, status, mem, accepted, slips, faults, crashes>>

\* rotate_segment: the segment is synced and the next one created, which
\* must not exist.  Only a failing sync breaks the circuit.
Rotate(t) ==
  /\ th[t].pc = "rotate" /\ guard = "free"
  /\ \/ /\ Fault /\ \E broken \in {"yes", "no"} : Fail(t, broken)
        /\ UNCHANGED <<segs, slips>>
     \/ /\ mem.seg < Len(segs) /\ Fail(t, "no") /\ UNCHANGED <<segs, slips, faults>>
     \/ /\ mem.seg = Len(segs)
        /\ segs' = Append(segs, [head |-> Short, items |-> <<>>])
        /\ slips' = slips \cup (Slip(t) \ {"stale frame"})
        /\ guard' = t /\ Become(t, [th[t] EXCEPT !.pc = "header"])
        /\ UNCHANGED <<mem, status, faults>>
  /\ UNCHANGED <<anchor, minted, accepted, crashes>>

\* Mutant: the number of the last record instead of the next one.
NextHeaderLate == [first |-> mem.seq, prev |-> mem.hash]

NextHeader == [first |-> mem.seq + 1, prev |-> mem.hash]

\* The header goes to disk and the gate to the new file.  A failure leaves
\* the file behind and does not break the circuit.
RotateHeader(t) ==
  LET done == [segs EXCEPT ![Len(segs)].head = NextHeader] IN
  /\ th[t].pc = "header"
  /\ \/ /\ segs' = done /\ mem' = [mem EXCEPT !.seg = Len(segs)]
        /\ guard' = "free" /\ Become(t, [th[t] EXCEPT !.pc = "relock"])
        /\ UNCHANGED <<status, faults>>
     \/ Fault /\ Fail(t, "no") /\ segs' \in {segs, done}
  /\ UNCHANGED <<anchor, minted, accepted, slips, crashes>>

\* The locks are taken again; the frame is the one encoded before.
Relock(t) ==
  /\ th[t].pc = "relock" /\ guard = "free"
  /\ guard' = t /\ Become(t, [th[t] EXCEPT !.pc = "write"])
  /\ UNCHANGED <<segs, anchor, status, mem, minted, accepted, slips, faults, crashes>>

Item(t) == [seq |-> th[t].seq, prev |-> th[t].prev, hash |-> th[t].hash, size |-> th[t].size]
With(item) == [segs EXCEPT ![mem.seg].items = Append(@, item)]
LastReplaced(items) == [segs EXCEPT ![mem.seg].items =
                          SubSeq(@, 1, Len(@) - 1) \o items]

\* One write call; a short one is undone, if that succeeds.
Write(t) ==
  /\ th[t].pc = "write"
  /\ slips' = slips \cup Slip(t)
  /\ \/ /\ segs' = With(Item(t)) /\ Become(t, [th[t] EXCEPT !.pc = "sync"])
        /\ UNCHANGED <<mem, guard, status, faults>>
     \/ Fault /\ Fail(t, "yes") /\ segs' \in {segs, With(Junk)}
  /\ UNCHANGED <<anchor, minted, accepted, crashes>>

\* Mutant: a failed sync is not noticed.
SyncUnchecked(t) ==
  /\ th[t].pc = "sync"
  /\ Become(t, [th[t] EXCEPT !.pc = "anchor"])
  /\ \/ UNCHANGED <<segs, faults>>
     \/ Fault /\ segs' \in {LastReplaced(<<>>), LastReplaced(<<Junk>>)}
  /\ UNCHANGED <<anchor, status, mem, guard, minted, accepted, slips, crashes>>

\* The frame is durable, or undone as far as that succeeds.
Sync(t) ==
  /\ th[t].pc = "sync"
  /\ \/ /\ Become(t, [th[t] EXCEPT !.pc = "anchor"])
        /\ UNCHANGED <<segs, mem, guard, status, faults>>
     \/ /\ Fault /\ Fail(t, "yes")
        /\ segs' \in {segs, LastReplaced(<<>>), LastReplaced(<<Junk>>)}
  /\ UNCHANGED <<anchor, minted, accepted, slips, crashes>>

NewAnchor(t) == [seg |-> mem.seg, seq |-> th[t].seq]

\* fsync_dir and write_anchor: only now the memory follows and the caller is
\* told.  A failure leaves the record in the file, and perhaps in the anchor.
WriteAnchor(t) ==
  /\ th[t].pc = "anchor"
  /\ \/ /\ anchor' = NewAnchor(t)
        /\ mem' = [mem EXCEPT !.seq = th[t].seq, !.hash = th[t].hash]
        /\ accepted' = accepted \cup {th[t].hash}
        /\ Become(t, Idle) /\ guard' = "free"
        /\ status' = IF t = "open" THEN "open" ELSE status
        /\ UNCHANGED faults
     \/ Fault /\ Fail(t, "yes") /\ anchor' \in {anchor, NewAnchor(t)} /\ UNCHANGED accepted
  /\ UNCHANGED <<segs, minted, slips, crashes>>

RecordStep(t) ==
  \/ \E size \in Sizes : Begin(t, size)
  \/ Encode(t) \/ Rotate(t) \/ RotateHeader(t) \/ Relock(t)
  \/ Write(t) \/ Sync(t) \/ WriteAnchor(t)

-----------------------------------------------------------------------------
(* The daemon dies, or is stopped: what was not synced may be there, in     *)
(* part or not at all.                                                      *)

SegsAfterCrash ==
  IF status = "creating"
  THEN {<<>>, segs, FirstSegment}
  ELSE CASE \E t \in Threads : th[t].pc = "header" ->
              {segs, SubSeq(segs, 1, Len(segs) - 1), [segs EXCEPT ![Len(segs)].head = NextHeader]}
         [] \E t \in Threads : th[t].pc = "sync" ->
              {segs, LastReplaced(<<>>), LastReplaced(<<Junk>>)}
         [] OTHER -> {segs}

Crash ==
  /\ status \notin {"closed", "refused"} /\ crashes < MaxCrashes
  /\ crashes' = crashes + 1
  /\ segs' \in SegsAfterCrash
  /\ anchor' \in {anchor} \cup {NewAnchor(t) : t \in {u \in Threads : th[u].pc = "anchor"}}
  /\ status' = "closed" /\ mem' = Fresh
  /\ guard' = "free" /\ th' = [t \in Threads |-> Idle]
  /\ UNCHANGED <<minted, accepted, slips, faults>>

Next ==
  \/ OpenEmpty \/ OpenExisting \/ CreateInitial \/ Repair
  \/ \E t \in Threads : RecordStep(t)
  \/ Crash

Spec == Init /\ [][Next]_vars

-----------------------------------------------------------------------------
(* Properties.  The three slips are defects of the code; the invariants say *)
(* what holds of a log in which none has happened.                          *)

TypeOK ==
  /\ \A i \in DOMAIN segs :
       /\ segs[i].head \in [first : Nat \ {0}, prev : Nat] \cup {Short}
       /\ \A k \in DOMAIN segs[i].items : segs[i].items[k] \in Frames \cup {Junk}
  /\ anchor \in [seg : Nat \ {0}, seq : Nat] \cup {NoAnchor}
  /\ status \in Statuses /\ guard \in Threads \cup {"free"}
  /\ mem \in [seq : Nat, hash : Nat, seg : 0..Len(segs), broken : {"yes", "no"}]
  /\ accepted \subseteq 1..minted

InChain(h) ==
  \E i \in DOMAIN segs : \E k \in 1..ValidLen(segs[i]) : segs[i].items[k].hash = h

\* An operation that was let through stays in the verified log, whatever
\* fails later: truncation never reaches it (AUDIT-01 of
\* docs/plans/agent-passkey-implementation.md).
AcceptedKept == slips = {} => \A h \in accepted : InChain(h)

\* "Hash-chain audit records across rotation" (AUDIT-02 of
\* docs/plans/agent-passkey-implementation.md), slips or no slips: every
\* operation that was let through is in the chain.
ChainedAcrossRotation == \A h \in accepted : InChain(h)

\* Numbers run on across segments, over restarts and failed records too; the
\* code compares first_sequence with nothing but the frames of its segment.
ChainNumbered ==
  slips = {} =>
    \A i \in 1..Len(segs) - 1 :
      segs[i + 1].head # Short =>
        segs[i + 1].head = [first |-> segs[i].head.first + ValidLen(segs[i]),
                            prev |-> LastHash(segs[i])]

\* The anchor never attests more than the files hold, at any moment at which
\* the daemon may die.
AnchorAttests ==
  slips = {} /\ anchor # NoAnchor =>
    /\ anchor.seg <= Len(segs)
    /\ segs[anchor.seg].head # Short
    /\ anchor.seq < segs[anchor.seg].head.first + ValidLen(segs[anchor.seg])

\* The gate opens again after every crash and failure, with one exception: a
\* crash or failure that leaves a segment without its header.
ReopensUnlessTorn ==
  slips = {} /\ status = "refused" => \E i \in DOMAIN segs : segs[i].head = Short

\* The log keeps what it told its callers, numbered without a gap, and the
\* anchor attests a prefix of it, after any crash, failed write and reopening.
TrailKept == AcceptedKept /\ ChainNumbered /\ AnchorAttests
=============================================================================
