----------------------------- MODULE AuditExport -----------------------------
(***************************************************************************)
(* Reading the audit log while it is written (agent/audit.rs): verify_all  *)
(* and export_verified, called by administrators' connections at any time, *)
(* beside threads that record.  Neither takes the locks of record: they    *)
(* read the files of the log as they are.  The bytes of a record, recovery *)
(* and the anchor are in AuditLog.                                         *)
(*                                                                         *)
(* A frame is its sequence number and the record it is of; Part is a frame *)
(* of which only some bytes are there.  The hash that a header repeats is  *)
(* the record it is of; inside a segment frames whose hashes do not chain  *)
(* have numbers that do not follow each other.                             *)
(***************************************************************************)
EXTENDS Integers, Sequences, FiniteSetsExt

CONSTANTS Admins,       \* connections that verify and export
          Recorders,    \* threads that record
          SegmentFrames, \* frames a segment holds (max_segment_size)
          Formats,      \* ExportFormat
          MaxEntries,   \* MAX_EXPORT_ENTRIES, and the records its bytes hold
          MaxActivities,   \* bound: records and exports begun
          MaxSegments, LastSecond   \* bounds (model only)

VARIABLES gate,      \* the log: not opened yet, open or refused
          segs,      \* segment files: the number and the record before it, and frames
          bare,      \* whether a rotation left a file without header
          seq, last, \* sequence and last_hash: the record accepted last
          accepted,  \* records whose caller was told Ok
          holder,    \* the thread inside the locks of record
          writer,    \* what each recording thread is doing
          begun,     \* records begun; they are named by their number
          broken,    \* circuit_broken
          second,    \* the clock, in whole seconds
          files,     \* exports in the directory, by second and format: their rows
          tmp,       \* temporary files, by second: who created the one there
          job,       \* what each administrator's connection is doing
          slipped,   \* history: a frame was written with a number that is in use
          shared,    \* history: seconds in which two exports were written
          exports    \* exports begun

vars == <<gate, segs, bare, seq, last, accepted, holder, writer, begun, broken, second, files, tmp,
          job, slipped, shared, exports>>
log == <<gate, segs, bare, seq, last, accepted, holder, writer, begun, broken, slipped>>
directory == <<files, tmp, shared>>

Part == <<0, 0>>
NoFile == <<Part>>
Nobody == "nobody"
Idle == [pc |-> "idle"]
Failed == [pc |-> "failed"]

Init ==
  /\ gate = "closed" /\ segs = <<[before |-> 0, prev |-> 0, frames |-> <<>>]>>
  /\ bare = "no" /\ seq = 0 /\ last = 0
  /\ accepted = {} /\ holder = Nobody /\ writer = [w \in Recorders |-> Idle] /\ begun = 0
  /\ broken = "no" /\ slipped = "no"
  /\ second = 0
  /\ files = [s \in 0 .. LastSecond, f \in Formats |-> NoFile]
  /\ tmp = [s \in 0 .. LastSecond |-> Nobody]
  /\ job = [a \in Admins |-> Idle] /\ shared = {} /\ exports = 0

-----------------------------------------------------------------------------
(* Opening the directory.                                                   *)

\* What is at the path: a directory of the daemon's own with mode 0700, nothing,
\* a link, or a directory of another mode or owner.
Places == {"own", "absent", "link", "mode", "owner"}

\* ensure_secure_dir creates what is absent and refuses the rest.
EnsureSecureDir(place) == place \in {"own", "absent"}

\* check_dirfd_security, and check_file_at for each file, look again through the
\* open directory.
CheckDirfdSecurity(place) == place = "own"

Open ==
  /\ gate = "closed"
  /\ \E before \in Places, after \in Places :
       gate' = IF EnsureSecureDir(before) /\ CheckDirfdSecurity(after) THEN "open" ELSE "refused"
  /\ UNCHANGED <<segs, bare, seq, last, accepted, holder, writer, begun, broken, slipped, second, directory, job, exports>>

-----------------------------------------------------------------------------
(* The recording threads.                                                   *)

Last == Len(segs)
Tail1(s) == SubSeq(s, 1, Len(s) - 1)
Reading == <<second, directory, job, exports>>
At(w, r) == writer' = [writer EXCEPT ![w] = r]

\* record looks at the circuit first ...
BeginRecord(w) ==
  /\ gate = "open" /\ writer[w].pc = "idle" /\ broken = "no" /\ begun + exports < MaxActivities
  /\ begun' = begun + 1 /\ At(w, [pc |-> "called", id |-> begun + 1])
  /\ UNCHANGED <<gate, segs, bare, seq, last, accepted, holder, broken, slipped, Reading>>

\* ... then takes the locks and makes its frame.  If the segment is full it gives
\* the locks back for the rotation.
Full == Len(segs[Last].frames) >= SegmentFrames
MakeFrame(w) ==
  /\ writer[w].pc = "called" /\ holder = Nobody
  /\ At(w, [pc |-> IF Full THEN "rotate" ELSE "write", id |-> writer[w].id, n |-> seq + 1])
  /\ holder' = IF Full THEN Nobody ELSE w
  /\ UNCHANGED <<gate, segs, bare, seq, last, accepted, begun, broken, slipped, Reading>>

\* rotate_segment, which another thread may have done by now: the next file, or
\* an error for the caller that may break the circuit or leave a file without
\* header.
RotateSegment(w) ==
  /\ writer[w].pc = "rotate" /\ holder = Nobody /\ bare = "no" /\ Last < MaxSegments
  /\ segs' = Append(segs, [before |-> seq, prev |-> last, frames |-> <<>>])
  /\ At(w, [writer[w] EXCEPT !.pc = "relock"])
  /\ UNCHANGED <<gate, bare, seq, last, accepted, holder, begun, broken, slipped, Reading>>
RotateFails(w) ==
  /\ writer[w].pc = "rotate" /\ holder = Nobody
  /\ At(w, Idle)
  /\ \/ broken' = "yes" /\ UNCHANGED bare
     \/ bare' = "yes" /\ UNCHANGED broken
  /\ UNCHANGED <<gate, segs, seq, last, accepted, holder, begun, slipped, Reading>>

\* The frame made before the rotation is written after it.
Relock(w) ==
  /\ writer[w].pc = "relock" /\ holder = Nobody
  /\ holder' = w /\ At(w, [writer[w] EXCEPT !.pc = "write"])
  /\ UNCHANGED <<gate, segs, bare, seq, last, accepted, begun, broken, slipped, Reading>>

\* write_at: a reader may see the file grow in pieces.
WriteBegins(w) ==
  /\ writer[w].pc = "write"
  /\ segs' = [segs EXCEPT ![Last].frames = Append(@, Part)]
  /\ At(w, [writer[w] EXCEPT !.pc = "part"])
  /\ UNCHANGED <<gate, bare, seq, last, accepted, holder, begun, broken, slipped, Reading>>
WriteEnds(w) ==
  /\ writer[w].pc = "part"
  /\ segs' = [segs EXCEPT ![Last].frames = Append(Tail1(@), <<writer[w].n, writer[w].id>>)]
  /\ At(w, [writer[w] EXCEPT !.pc = "written"])
  /\ slipped' = IF writer[w].n = seq + 1 /\ broken = "no" THEN slipped ELSE "yes"
  /\ UNCHANGED <<gate, bare, seq, last, accepted, holder, begun, broken, Reading>>

\* The sync and the anchor succeed and the caller is told; or the circuit breaks
\* and the frame is taken back as far as that succeeds.
Recorded(w) ==
  /\ writer[w].pc = "written" /\ At(w, Idle) /\ holder' = Nobody
  /\ seq' = writer[w].n /\ last' = writer[w].id /\ accepted' = accepted \cup {writer[w].id}
  /\ UNCHANGED <<gate, segs, bare, begun, broken, slipped, Reading>>
RecordFails(w) ==
  /\ writer[w].pc \in {"part", "written"} /\ At(w, Idle) /\ holder' = Nobody /\ broken' = "yes"
  /\ \E undone \in {"no", "yes"} :
       segs' = IF undone = "yes" THEN [segs EXCEPT ![Last].frames = Tail1(@)] ELSE segs
  /\ UNCHANGED <<gate, bare, seq, last, accepted, begun, slipped, Reading>>
Tick ==
  /\ second < LastSecond /\ second' = second + 1
  /\ UNCHANGED <<log, directory, job, exports>>

-----------------------------------------------------------------------------
(* verify_all and export_verified.                                          *)

Become(a, r) == job' = [job EXCEPT ![a] = r]
Fail(a) == Become(a, Failed) /\ UNCHANGED <<log, second, directory, exports>>

\* handle_audit_verify or handle_audit_export: what was accepted is to be there.
Begin(a, format) ==
  /\ gate = "open" /\ job[a].pc \in {"idle", "failed", "done"} /\ begun + exports < MaxActivities
  /\ Become(a, [pc |-> "verify", format |-> format, from |-> accepted]) /\ exports' = exports + 1
  /\ UNCHANGED <<log, second, directory>>

\* A frame that ends too early is an error, unless not even its magic is
\* complete, which is the end of the file; behind one nothing can be read.
Frames(s) == SelectSeq(s.frames, LAMBDA f : f # Part)
Torn(s) == s.frames # Frames(s)
Unreadable(s) == \E i \in DOMAIN s.frames : s.frames[i] = Part /\ i < Len(s.frames)

\* verify_all_segments: a header names the record before it, and the numbers of
\* all but the last segment follow each other.  The last one is read with the
\* tolerance of a start, and what does not follow in it is no error.
Follows(s) == \A i \in DOMAIN Frames(s) : Frames(s)[i][1] = s.before + i
EndOf(s) == IF Frames(s) = <<>> THEN s.prev ELSE Frames(s)[Len(Frames(s))][2]
Verifies ==
  /\ bare = "no"
  /\ \A i \in 1 .. Last - 1 : Follows(segs[i]) /\ segs[i + 1].prev = EndOf(segs[i])

\* count_records_in_segment
CountRecords == MapThenSumSet(LAMBDA i : Len(Frames(segs[i])), DOMAIN segs)

\* verify_all, then the files are listed again for reading.
Verify(a) ==
  /\ job[a].pc = "verify"
  /\ \/ /\ Verifies /\ CountRecords <= MaxEntries /\ ~\E i \in DOMAIN segs : Unreadable(segs[i])
        /\ Become(a, [pc |-> "read", format |-> job[a].format, from |-> job[a].from,
                      next |-> 1, last |-> Last, rows |-> <<>>])
        /\ UNCHANGED <<log, second, directory, exports>>
     \/ /\ ~Verifies \/ CountRecords > MaxEntries \/ \E i \in DOMAIN segs : Torn(segs[i])
        /\ Fail(a)

\* Mutant: only the segment written last is read.
ReadSegmentLast(a) ==
  LET j == job[a] IN
  /\ j.pc = "read" /\ j.next <= j.last
  /\ Become(a, [j EXCEPT !.next = j.last + 1, !.rows = Frames(segs[j.last])])
  /\ UNCHANGED <<log, second, directory, exports>>

\* The next segment: its rows, with those written since it was verified; their
\* numbers are not looked at again.
ReadSegment(a) ==
  LET j == job[a]  s == segs[j.next] IN
  /\ j.pc = "read" /\ j.next <= j.last
  /\ \/ /\ Len(j.rows) + Len(Frames(s)) <= MaxEntries /\ ~Unreadable(s)
        /\ Become(a, [j EXCEPT !.next = @ + 1, !.rows = @ \o Frames(s)])
        /\ UNCHANGED <<log, second, directory, exports>>
     \/ /\ Len(j.rows) + Len(Frames(s)) > MaxEntries \/ Torn(s)
        /\ Fail(a)

\* Mutant: the file is renamed into place when it is created.
CreateTmpRenamed(a) ==
  LET j == job[a] IN
  /\ j.pc = "read" /\ j.next > j.last
  /\ files' = [files EXCEPT ![second, j.format] = <<>>]
  /\ Become(a, [pc |-> "remove", format |-> j.format, from |-> j.from, rows |-> j.rows, at |-> second])
  /\ UNCHANGED <<log, second, tmp, shared, exports>>

\* The temporary file is named for the second and the process; create_new.
CreateTmp(a) ==
  LET j == job[a] IN
  /\ j.pc = "read" /\ j.next > j.last
  /\ \/ /\ tmp[second] = Nobody
        /\ tmp' = [tmp EXCEPT ![second] = a]
        /\ shared' = IF \E f \in Formats : files[second, f] # NoFile
                        \/ \E b \in Admins : b # a /\ job[b].pc \in {"write", "rename", "remove"} /\ job[b].at = second
                     THEN shared \cup {second} ELSE shared
        /\ Become(a, [pc |-> "write", format |-> j.format, from |-> j.from, rows |-> j.rows, at |-> second])
        /\ UNCHANGED <<log, second, files, exports>>
     \/ tmp[second] # Nobody /\ Fail(a)

\* Content and sync; a failure leaves the temporary file.
WriteTmp(a) ==
  /\ job[a].pc = "write"
  /\ \/ Become(a, [job[a] EXCEPT !.pc = "rename"]) /\ UNCHANGED <<log, second, directory, exports>>
     \/ Fail(a)

\* What the file under a name holds: nothing until its creator has written it.
Holds(b) == IF job[b].pc \in {"rename", "remove"} THEN job[b].rows ELSE <<>>

\* rename replaces an export of the same second and format.
Rename(a) ==
  LET j == job[a]  b == tmp[j.at] IN
  /\ j.pc = "rename"
  /\ \/ /\ b # Nobody
        /\ files' = [files EXCEPT ![j.at, j.format] = Holds(b)]
        /\ tmp' = [tmp EXCEPT ![j.at] = Nobody]
        /\ Become(a, [j EXCEPT !.pc = "remove"])
        /\ UNCHANGED <<log, second, shared, exports>>
     \/ b = Nobody /\ Fail(a)

\* The directory is synced and the temporary name removed, whoever it is by now;
\* then the administrator is told the path and the number of rows.
RemoveTmp(a) ==
  LET j == job[a] IN
  /\ j.pc = "remove"
  /\ \/ /\ tmp' = [tmp EXCEPT ![j.at] = Nobody]
        /\ Become(a, [pc |-> "done", format |-> j.format, from |-> j.from, rows |-> j.rows, at |-> j.at])
        /\ UNCHANGED <<log, second, files, shared, exports>>
     \/ Fail(a)

Export(a) == (\E f \in Formats : Begin(a, f)) \/ Verify(a) \/ ReadSegment(a) \/ CreateTmp(a)
               \/ WriteTmp(a) \/ Rename(a) \/ RemoveTmp(a)
Record(w) == \/ BeginRecord(w) \/ MakeFrame(w) \/ RotateSegment(w) \/ RotateFails(w) \/ Relock(w)
             \/ WriteBegins(w) \/ WriteEnds(w) \/ Recorded(w) \/ RecordFails(w)
Next == \/ Open \/ Tick
        \/ \E w \in Recorders : Record(w)
        \/ \E a \in Admins : Export(a)
Spec == Init /\ [][Next]_vars

-----------------------------------------------------------------------------
Ids(rows) == {rows[i][2] : i \in DOMAIN rows}

\* An export that succeeds holds every record accepted before it was asked for,
\* each once, although records, rotations and failures went on while it was read,
\* and although threads raced for a rotation.
ExportComplete ==
  \A a \in Admins : job[a].pc = "done" =>
     job[a].from \subseteq Ids(job[a].rows) /\ Cardinality(Ids(job[a].rows)) = Len(job[a].rows)

\* Its rows are numbered 1, 2, 3, ... unless a thread that waited for a rotation
\* (audit.rs:1308), or one that looked at the circuit before it broke, wrote a
\* number another one had taken: while that is in the last segment it is exported
\* all the same, with the number twice.
ExportInOrder ==
  \A a \in Admins : job[a].pc = "done" /\ slipped = "no" =>
     \A i \in DOMAIN job[a].rows : job[a].rows[i][1] = i

\* The file an administrator was told of holds at least the rows it was told of,
\* as long as no other export was written in the same second: the names of the
\* files differ only in the second, and each export renames and removes by name.
ReportedHolds ==
  \A a \in Admins : job[a].pc = "done" /\ job[a].at \notin shared =>
     /\ files[job[a].at, job[a].format] # NoFile
     /\ Len(files[job[a].at, job[a].format]) >= Len(job[a].rows)
=============================================================================
