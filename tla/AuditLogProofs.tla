--------------------------- MODULE AuditLogProofs ---------------------------
(***************************************************************************)
(* Proofs about AuditLog, for every number of threads, frame size and      *)
(* segment length, and for any number of failures and crashes: while the   *)
(* gate has made none of the three wrong writes, what it accepted stays in *)
(* the chain, the numbers run on, the anchor attests a prefix, and the log *)
(* opens again unless a header is torn.                                    *)
(***************************************************************************)
EXTENDS AuditLog, SequenceTheorems, TLAPS

-----------------------------------------------------------------------------
(* The inductive invariant *)

Headers == [first : Nat \ {0}, prev : Nat]
Segments == [head : Headers \cup {Short}, items : Seq(Frames \cup {Junk})]

\* A thread without a frame, and one with a frame.
Locking == [pc : {"lock"}, size : Sizes]
FramePcs == {"rotate", "header", "relock", "write", "sync", "anchor"}
Framed == [pc : FramePcs, size : Sizes,
           seq : Nat \ {0}, prev : Nat, hash : Nat \ {0}]

Shapes ==
  /\ anchor \in [seg : Nat \ {0}, seq : Nat] \cup {NoAnchor}
  /\ status \in Statuses
  /\ mem \in [seq : Nat, hash : Nat, seg : Nat, broken : {"yes", "no"}]
  /\ guard \in Threads \cup {"free"}
  /\ th \in [Threads -> {Idle} \cup Locking \cup Framed]
  /\ minted \in Nat
  /\ accepted \subseteq 1..minted

\* The three forms of a segment: every frame chains; a last incomplete frame
\* follows those that chain; the header is incomplete and nothing follows.
Whole(s) == s.head # Short /\ \A k \in 1..Len(s.items) : Chained(s, k)
Cut(s) ==
  /\ s.head # Short /\ Len(s.items) > 0 /\ s.items[Len(s.items)] = Junk
  /\ \A k \in 1..Len(s.items) - 1 : Chained(s, k)
BareSegment == [head |-> Short, items |-> <<>>]
Bare(s) == s = BareSegment

\* Only the last segment may be damaged.
Formed(sg) ==
  /\ \A i \in 1..Len(sg) - 1 : Whole(sg[i])
  /\ Len(sg) > 0 => \/ Whole(sg[Len(sg)]) \/ Cut(sg[Len(sg)]) \/ Bare(sg[Len(sg)])

\* Headers continue the segment before.
Linked(sg) ==
  /\ Len(sg) > 0 => sg[1].head \in {Short, [first |-> 1, prev |-> 0]}
  /\ \A i \in 1..Len(sg) - 1 :
       sg[i + 1].head # Short =>
         sg[i + 1].head = [first |-> sg[i].head.first + ValidLen(sg[i]),
                           prev |-> LastHash(sg[i])]

\* No hash in the files is still to be minted.
SegmentBelow(s, m) ==
  /\ s.head # Short => s.head.prev <= m
  /\ \A k \in 1..Len(s.items) : s.items[k] # Junk => s.items[k].hash <= m
HashesBelow(sg, m) == \A i \in 1..Len(sg) : SegmentBelow(sg[i], m)

Holds(sg, h) ==
  \E i \in 1..Len(sg) : \E k \in 1..ValidLen(sg[i]) : sg[i].items[k].hash = h

\* The anchor names a record of its segment, or none.
Attests(sg, a) ==
  a # NoAnchor =>
    /\ a.seg \in 1..Len(sg)
    /\ sg[a.seg].head # Short
    /\ a.seq < sg[a.seg].head.first + ValidLen(sg[a.seg])
    /\ a.seq = 0 \/ a.seq >= sg[a.seg].head.first

\* What the files alone satisfy, at every moment at which the daemon may die.
Files(sg, a, m, acc) ==
  /\ sg \in Seq(Segments)
  /\ Formed(sg) /\ Linked(sg) /\ HashesBelow(sg, m) /\ Attests(sg, a)
  /\ \A h \in acc : Holds(sg, h)
  /\ a = NoAnchor => Len(sg) <= 1

Exclusive == \A t \in Threads : th[t].pc \in {"header", "write", "sync", "anchor"} <=> guard = t

Running == status \in {"open", "recovering"}

\* A thread is at work only while the gate is up.
AtWork ==
  \A t \in Threads : th[t] # Idle => status = IF t = "open" THEN "recovering" ELSE "open"

\* Hashes in flight are in no file that was read, and in no memory.
InFlight ==
  \A t \in Threads : th[t] \in Framed =>
    /\ th[t].hash <= minted /\ th[t].hash \notin accepted
    /\ th[t].hash # mem.hash
    /\ th[t].prev <= minted
    /\ th[t].prev = mem.hash => th[t].seq = mem.seq + 1
    /\ \A u \in Threads : th[u] \in Framed =>
         th[u].prev # th[t].hash /\ (u # t => th[u].hash # th[t].hash)

Appended(t) == th[t].pc \in {"sync", "anchor"}

\* The memory is the tail of the files, less the frame a thread has appended.
MemoryIsTail ==
  Running =>
    /\ anchor # NoAnchor /\ mem.hash <= minted
    /\ mem.broken = "no" =>
         /\ mem.seg \in 1..Len(segs) /\ mem.seg >= Len(segs) - 1
         /\ Whole(segs[mem.seg])
         /\ anchor.seg = mem.seg => anchor.seq <= mem.seq
         /\ anchor.seg <= mem.seg
         /\ (\A t \in Threads : ~Appended(t)) =>
              /\ mem.seq + 1 = segs[mem.seg].head.first + ValidLen(segs[mem.seg])
              /\ mem.hash = LastHash(segs[mem.seg])

Pending ==
  \A t \in Threads :
    /\ th[t].pc = "header" =>
         mem.broken = "no" /\ mem.seg + 1 = Len(segs) /\ Bare(Last)
    /\ Appended(t) =>
         /\ mem.broken = "no" /\ mem.seg = Len(segs)
         /\ th[t].prev = mem.hash
         /\ Len(Last.items) > 0 /\ Last.items[Len(Last.items)] = Item(t)

\* What the steps of an opening have established.
Opening ==
  /\ status = "creating" => segs = <<BareSegment>>
  /\ status = "repair" => Len(segs) > 0 /\ Last.head # Short
  /\ status = "refused" => \E i \in 1..Len(segs) : segs[i].head = Short

Sound ==
  /\ Shapes /\ Files(segs, anchor, minted, accepted) /\ Exclusive /\ AtWork /\ InFlight
  /\ MemoryIsTail /\ Pending /\ Opening

IInv == slips = {} => Sound

-----------------------------------------------------------------------------
(* Segments *)

\* A count up to which a segment chains, and no further, is its ValidLen.
LEMMA ValidLenIs ==
  ASSUME NEW s, Len(s.items) \in Nat, NEW n \in 0..Len(s.items),
         \A k \in 1..n : Chained(s, k),
         n = Len(s.items) \/ ~Chained(s, n + 1)
  PROVE  ValidLen(s) = n
<1> DEFINE S == {m \in 0..Len(s.items) : \A k \in 1..m : Chained(s, k)}
<1>1. n \in S
  OBVIOUS
<1>2. \A m \in S : m <= n
  <2> SUFFICES ASSUME NEW m \in S, m > n PROVE FALSE
    OBVIOUS
  <2>1. n + 1 \in 1..m /\ n + 1 <= Len(s.items)
    OBVIOUS
  <2> QED BY <2>1
<1>3. \A m \in S : (\A y \in S : m >= y) => m = n
  BY <1>1, <1>2
<1>4. (CHOOSE x \in S : \A y \in S : x >= y) = n
  <2> HIDE DEF S
  <2>1. \E x \in S : \A y \in S : x >= y
    <3>1. \A y \in S : n >= y
      BY <1>2 DEF S
    <3> QED BY <1>1, <3>1
  <2> QED BY <2>1, <1>3
<1> QED BY <1>4 DEF ValidLen, Max

\* What the three forms make of ValidLen.
LEMMA FormLength ==
  ASSUME NEW s \in Segments
  PROVE  /\ Whole(s) => ValidLen(s) = Len(s.items)
         /\ Cut(s) => ValidLen(s) = Len(s.items) - 1
         /\ Bare(s) => ValidLen(s) = 0 /\ s.head = Short /\ Len(s.items) = 0
<1>1. s.items \in Seq(Frames \cup {Junk}) /\ Len(s.items) \in Nat
  BY DEF Segments
<1>2. ASSUME Whole(s) PROVE ValidLen(s) = Len(s.items)
  BY <1>1, <1>2, ValidLenIs DEF Whole
<1>3. ASSUME Cut(s) PROVE ValidLen(s) = Len(s.items) - 1
  <2> DEFINE n == Len(s.items) - 1
  <2>1. n \in 0..Len(s.items) /\ n + 1 = Len(s.items)
    BY <1>1, <1>3 DEF Cut
  <2>2. ~Chained(s, n + 1)
    BY <1>3, <2>1 DEF Cut, Chained
  <2>3. \A k \in 1..n : Chained(s, k)
    BY <1>3 DEF Cut
  <2> HIDE DEF n
  <2>4. ValidLen(s) = n
    BY <1>1, <2>1, <2>2, <2>3, ValidLenIs
  <2> QED BY <2>4 DEF n
<1>4. ASSUME Bare(s) PROVE ValidLen(s) = 0 /\ s.head = Short /\ Len(s.items) = 0
  <2>1. s.head = Short /\ Len(s.items) = 0
    BY <1>4 DEF Bare, BareSegment
  <2> QED BY <1>1, <2>1, ValidLenIs
<1> QED BY <1>2, <1>3, <1>4

\* The frames that count are complete, and the last of them names the tail.
LEMMA FormFrames ==
  ASSUME NEW s \in Segments, Whole(s) \/ Cut(s)
  PROVE  /\ ValidLen(s) \in 0..Len(s.items)
         /\ \A k \in 1..ValidLen(s) : s.items[k] \in Frames /\ Chained(s, k)
         /\ s.head \in Headers
         /\ LastHash(s) \in Nat
<1>1. s.items \in Seq(Frames \cup {Junk}) /\ Len(s.items) \in Nat /\ s.head \in Headers
  BY DEF Segments, Whole, Cut
<1>2. ValidLen(s) \in 0..Len(s.items)
  BY <1>1, FormLength DEF Cut
<1>3. \A k \in 1..ValidLen(s) : Chained(s, k)
  BY <1>1, FormLength DEF Whole, Cut
<1>4. \A k \in 1..ValidLen(s) : s.items[k] \in Frames
  BY <1>1, <1>2, <1>3 DEF Chained
<1>5. LastHash(s) \in Nat
  BY <1>1, <1>2, <1>4 DEF LastHash, Headers, Frames
<1> QED BY <1>1, <1>2, <1>3, <1>4, <1>5

\* r is s with its first n frames, and at most an incomplete one after them.
Kept(s, r, n) ==
  /\ r \in Segments /\ r.head = s.head
  /\ n \in 0..ValidLen(s)
  /\ \A k \in 1..n : r.items[k] = s.items[k]
  /\ \/ Len(r.items) = n
     \/ Len(r.items) = n + 1 /\ r.items[n + 1] = Junk

\* r is s and one more frame.
Extended(s, f, r) ==
  /\ r \in Segments /\ r.head = s.head
  /\ Len(r.items) = Len(s.items) + 1 /\ r.items[Len(s.items) + 1] = f
  /\ \A k \in 1..Len(s.items) : r.items[k] = s.items[k]

\* What EXCEPT makes of a segment's frames.
LEMMA ExceptItems ==
  ASSUME NEW s \in Segments, NEW x \in Seq(Frames \cup {Junk})
  PROVE  /\ [s EXCEPT !.items = x] \in Segments
         /\ [s EXCEPT !.items = x].head = s.head
         /\ [s EXCEPT !.items = x].items = x
BY DEF Segments

\* Such a segment is well formed, and its frames that count are the n kept.
LEMMA KeptForm ==
  ASSUME NEW s \in Segments, Whole(s) \/ Cut(s), NEW r, NEW n, Kept(s, r, n)
  PROVE  /\ Whole(r) \/ Cut(r)
         /\ ValidLen(r) = n
         /\ Len(r.items) = n => Whole(r)
<1>1. /\ n \in Nat /\ n <= ValidLen(s) /\ ValidLen(s) \in Nat /\ ValidLen(s) <= Len(s.items)
      /\ s.head # Short
  <2>1. Len(s.items) \in Nat
    BY DEF Segments
  <2> QED BY <2>1, FormFrames DEF Kept, Whole, Cut
<1>2. \A k \in 1..n : Chained(r, k)
  <2> SUFFICES ASSUME NEW k \in 1..n PROVE Chained(r, k)
    OBVIOUS
  <2>1. Chained(s, k)
    BY <1>1, FormFrames
  <2>2. r.items[k] = s.items[k] /\ r.head = s.head
    BY DEF Kept
  <2>3. k # 1 => r.items[k - 1] = s.items[k - 1]
    BY <1>1 DEF Kept
  <2> QED BY <2>1, <2>2, <2>3 DEF Chained
<1>3. r \in Segments /\ r.head # Short /\ Len(r.items) \in Nat
  BY <1>1 DEF Kept, Segments
<1>4. CASE Len(r.items) = n
  <2>1. Whole(r)
    BY <1>2, <1>3, <1>4 DEF Whole
  <2> QED BY <2>1, <1>3, <1>4, FormLength
<1>5. CASE Len(r.items) = n + 1 /\ r.items[n + 1] = Junk
  <2>1. Cut(r)
    BY <1>1, <1>2, <1>3, <1>5 DEF Cut
  <2> QED BY <1>1, <2>1, <1>3, <1>5, FormLength
<1> QED BY <1>4, <1>5 DEF Kept

-----------------------------------------------------------------------------
(* Files: what a change of the last segment keeps *)

\* What a segment that is not torn satisfies in well-formed files.
LEMMA SegmentForm ==
  ASSUME NEW sg \in Seq(Segments), Formed(sg), NEW i \in 1..Len(sg)
  PROVE  /\ sg[i] \in Segments
         /\ Whole(sg[i]) \/ Cut(sg[i]) \/ Bare(sg[i])
         /\ i < Len(sg) => Whole(sg[i])
         /\ sg[i].head # Short => Whole(sg[i]) \/ Cut(sg[i])
<1>1. sg[i] \in Segments
  OBVIOUS
<1>2. i < Len(sg) => i \in 1..Len(sg) - 1
  OBVIOUS
<1>3. Whole(sg[i]) \/ Cut(sg[i]) \/ Bare(sg[i])
  BY <1>2 DEF Formed
<1> QED BY <1>1, <1>2, <1>3, FormLength DEF Formed

\* new is sg with another last segment.
Replaced(sg, r, new) ==
  /\ new \in Seq(Segments) /\ Len(new) = Len(sg) /\ new[Len(sg)] = r
  /\ \A i \in 1..Len(sg) - 1 : new[i] = sg[i]

\* That is what EXCEPT makes of it.
LEMMA ExceptLast ==
  ASSUME NEW sg \in Seq(Segments), Len(sg) > 0, NEW r \in Segments
  PROVE  Replaced(sg, r, [sg EXCEPT ![Len(sg)] = r])
BY DEF Replaced

\* The last segment replaced under its header: form and links are kept.
LEMMA ReplaceForm ==
  ASSUME NEW sg \in Seq(Segments), Len(sg) > 0, Formed(sg), Linked(sg),
         NEW r \in Segments, r.head = sg[Len(sg)].head, Whole(r) \/ Cut(r),
         NEW new, Replaced(sg, r, new)
  PROVE  Formed(new) /\ Linked(new)
<1>1. /\ new \in Seq(Segments) /\ Len(new) = Len(sg) /\ new[Len(sg)] = r
      /\ \A i \in 1..Len(sg) - 1 : new[i] = sg[i]
  BY DEF Replaced
<1>2. Formed(new)
  BY <1>1 DEF Formed
<1>3. \A i \in 1..Len(sg) : new[i].head = sg[i].head
  <2> SUFFICES ASSUME NEW i \in 1..Len(sg) PROVE new[i].head = sg[i].head
    OBVIOUS
  <2>1. i = Len(sg) \/ i \in 1..Len(sg) - 1
    OBVIOUS
  <2> QED BY <1>1, <2>1
<1>4. Linked(new)
  <2>1. 1 \in 1..Len(sg) /\ \A i \in 1..Len(sg) - 1 : i + 1 \in 1..Len(sg)
    OBVIOUS
  <2>2. new[1].head = sg[1].head
    BY <1>3, <2>1
  <2>3. \A i \in 1..Len(sg) - 1 : new[i + 1].head = sg[i + 1].head /\ new[i] = sg[i]
    BY <1>1, <1>3, <2>1
  <2> QED BY <1>1, <2>2, <2>3 DEF Linked
<1> QED BY <1>2, <1>4

\* A record outside the last segment, or kept in it, is still held.
LEMMA ReplaceHolds ==
  ASSUME NEW sg \in Seq(Segments), Len(sg) > 0, NEW r, NEW new, Replaced(sg, r, new),
         NEW s, s = sg[Len(sg)], NEW h, Holds(sg, h),
         \A k \in 1..ValidLen(s) : s.items[k].hash = h =>
            k \in 1..ValidLen(r) /\ r.items[k] = s.items[k]
  PROVE  Holds(new, h)
<1>1. PICK i \in 1..Len(sg) : \E k \in 1..ValidLen(sg[i]) : sg[i].items[k].hash = h
  BY DEF Holds
<1>2. CASE i = Len(sg)
  BY <1>1, <1>2 DEF Holds, Replaced
<1>3. CASE i # Len(sg)
  <2>1. i \in 1..Len(sg) - 1
    BY <1>3
  <2> QED BY <1>1, <2>1 DEF Holds, Replaced
<1> QED BY <1>2, <1>3

\* The same for the hashes and for the anchor.
LEMMA ReplaceRest ==
  ASSUME NEW sg \in Seq(Segments), Len(sg) > 0, NEW r, NEW new, Replaced(sg, r, new),
         NEW s, s = sg[Len(sg)], NEW m, NEW a
  PROVE  /\ HashesBelow(sg, m) /\ SegmentBelow(r, m) => HashesBelow(new, m)
         /\ /\ Attests(sg, a) /\ r.head = s.head
            /\ a # NoAnchor /\ a.seg = Len(sg) => a.seq < s.head.first + ValidLen(r)
            => Attests(new, a)
<1>1. \A i \in 1..Len(sg) : i = Len(sg) \/ new[i] = sg[i]
  <2> SUFFICES ASSUME NEW i \in 1..Len(sg), i # Len(sg) PROVE i \in 1..Len(sg) - 1
    BY DEF Replaced
  <2> QED OBVIOUS
<1>2. Len(new) = Len(sg) /\ new[Len(sg)] = r
  BY DEF Replaced
<1>3. HashesBelow(sg, m) /\ SegmentBelow(r, m) => HashesBelow(new, m)
  BY <1>1, <1>2 DEF HashesBelow
<1> QED BY <1>1, <1>2, <1>3 DEF Attests

\* The last segment shortened to n frames: the files stay sound if nothing
\* accepted and nothing the anchor attests is among the frames taken away.
LEMMA ShortenFiles ==
  ASSUME NEW sg, NEW a, NEW m, NEW acc, Files(sg, a, m, acc), Len(sg) > 0,
         NEW s, s = sg[Len(sg)], s.head # Short,
         NEW r, NEW n, Kept(s, r, n),
         \A k \in n + 1..ValidLen(s) : s.items[k].hash \notin acc,
         a # NoAnchor /\ a.seg = Len(sg) => a.seq < s.head.first + n,
         NEW new, Replaced(sg, r, new)
  PROVE  /\ Files(new, a, m, acc)
         /\ ValidLen(r) = n
         /\ Len(r.items) = n => Whole(r)
<1>1. /\ sg \in Seq(Segments) /\ Formed(sg) /\ Linked(sg) /\ HashesBelow(sg, m)
      /\ Attests(sg, a)
  BY DEF Files
<1>2. Len(sg) \in 1..Len(sg)
  BY <1>1
<1>3. s \in Segments /\ (Whole(s) \/ Cut(s))
  BY <1>1, <1>2, SegmentForm
<1>4. (Whole(r) \/ Cut(r)) /\ ValidLen(r) = n /\ (Len(r.items) = n => Whole(r))
  BY <1>3, KeptForm
<1>5. r \in Segments /\ r.head = s.head /\ n \in 0..ValidLen(s)
  BY DEF Kept
<1>6. Formed(new) /\ Linked(new) /\ new \in Seq(Segments) /\ Len(new) = Len(sg)
  BY <1>1, <1>4, <1>5, ReplaceForm DEF Replaced
<1>7. SegmentBelow(r, m)
  <2>1. SegmentBelow(s, m)
    BY <1>1, <1>2 DEF HashesBelow
  <2>2. ValidLen(s) \in 0..Len(s.items) /\ Len(s.items) \in Nat
    BY <1>3, FormFrames DEF Segments
  <2>3. \A k \in 1..n : k \in 1..Len(s.items) /\ r.items[k] = s.items[k]
    BY <1>5, <2>2 DEF Kept
  <2>4. \A k \in 1..Len(r.items) : r.items[k] # Junk => k \in 1..n
    BY <1>5, <2>2 DEF Kept
  <2> QED BY <1>5, <2>1, <2>3, <2>4 DEF SegmentBelow
<1>8. HashesBelow(new, m) /\ Attests(new, a)
  BY <1>1, <1>4, <1>5, <1>6, <1>7, ReplaceRest
<1>9. \A h \in acc : Holds(new, h)
  <2> SUFFICES ASSUME NEW h \in acc PROVE Holds(new, h)
    OBVIOUS
  <2>1. Holds(sg, h)
    BY DEF Files
  <2>2. ValidLen(s) \in Nat
    <3>1. Len(s.items) \in Nat
      BY <1>3 DEF Segments
    <3> QED BY <1>3, <3>1, FormFrames
  <2>3. \A k \in 1..ValidLen(s) : s.items[k].hash = h => k \in 1..n
    BY <1>5, <2>2
  <2>4. \A k \in 1..n : r.items[k] = s.items[k]
    BY DEF Kept
  <2> QED BY <1>1, <1>4, <1>6, <2>1, <2>3, <2>4, ReplaceHolds
<1>10. a = NoAnchor => Len(sg) <= 1
  BY DEF Files
<1> QED BY <1>4, <1>6, <1>8, <1>9, <1>10 DEF Files

\* A frame that continues the chain, appended to the last segment.
LEMMA ExtendFiles ==
  ASSUME NEW sg, NEW a \in [seg : Nat \ {0}, seq : Nat] \cup {NoAnchor},
         NEW m, NEW acc, Files(sg, a, m, acc), Len(sg) > 0,
         NEW s, s = sg[Len(sg)], Whole(s),
         NEW f \in Frames, f.seq = s.head.first + ValidLen(s), f.prev = LastHash(s),
         f.hash <= m,
         NEW r, Extended(s, f, r),
         NEW new, Replaced(sg, r, new)
  PROVE  /\ Files(new, a, m, acc)
         /\ Whole(r) /\ Len(r.items) > 0 /\ r.items[Len(r.items)] = f
<1> DEFINE n == Len(s.items)
<1>1. /\ sg \in Seq(Segments) /\ Formed(sg) /\ Linked(sg) /\ HashesBelow(sg, m)
      /\ Attests(sg, a)
  BY DEF Files
<1>2. Len(sg) \in 1..Len(sg)
  BY <1>1
<1>3. s \in Segments /\ s.head \in Headers
  BY <1>1, <1>2, SegmentForm, FormFrames
<1>4. ValidLen(s) = n /\ n \in Nat /\ s.items \in Seq(Frames \cup {Junk})
  BY <1>3, FormLength DEF Segments
<1>5. /\ r \in Segments /\ r.head = s.head /\ Len(r.items) = n + 1 /\ r.items[n + 1] = f
      /\ \A k \in 1..n : r.items[k] = s.items[k]
  BY DEF Extended
<1> HIDE DEF n
<1>6. Whole(r)
  <2> SUFFICES ASSUME NEW k \in 1..n + 1 PROVE Chained(r, k)
    BY <1>3, <1>5 DEF Whole
  <2>1. CASE k <= n
    <3>1. k \in 1..n /\ k \in 1..Len(s.items) /\ (k # 1 => k - 1 \in 1..n)
      BY <1>4, <2>1 DEF n
    <3>2. Chained(s, k) /\ r.items[k] = s.items[k] /\ (k # 1 => r.items[k - 1] = s.items[k - 1])
      BY <1>5, <3>1 DEF Whole
    <3> QED BY <1>5, <3>2 DEF Chained
  <2>2. CASE k = n + 1
    <3>1. f # Junk
      BY DEF Frames, Junk
    <3>2. f.seq = r.head.first + k - 1
      BY <1>3, <1>4, <1>5, <2>2 DEF Headers
    <3>3. f.prev = IF k = 1 THEN r.head.prev ELSE r.items[k - 1].hash
      BY <1>4, <1>5, <2>2 DEF LastHash
    <3> QED BY <1>5, <2>2, <3>1, <3>2, <3>3 DEF Chained
  <2> QED BY <1>4, <2>1, <2>2
<1>7. ValidLen(r) = n + 1
  BY <1>5, <1>6, FormLength
<1>8. Formed(new) /\ Linked(new) /\ new \in Seq(Segments) /\ Len(new) = Len(sg)
  BY <1>1, <1>5, <1>6, ReplaceForm DEF Replaced
<1>9. SegmentBelow(r, m)
  <2>1. SegmentBelow(s, m)
    BY <1>1, <1>2 DEF HashesBelow
  <2>2. \A k \in 1..Len(r.items) : k \in 1..n \/ r.items[k] = f
    BY <1>4, <1>5
  <2> QED BY <1>5, <2>1, <2>2 DEF SegmentBelow, n
<1>10. HashesBelow(new, m) /\ Attests(new, a)
  <2>1. a # NoAnchor /\ a.seg = Len(sg) => a.seq < s.head.first + ValidLen(s)
    BY <1>1 DEF Attests
  <2>2. a # NoAnchor => a.seq \in Nat
    OBVIOUS
  <2>3. a # NoAnchor /\ a.seg = Len(sg) => a.seq < s.head.first + ValidLen(r)
    BY <1>3, <1>4, <1>7, <2>1, <2>2 DEF Headers
  <2> QED BY <1>1, <1>5, <1>8, <1>9, <2>3, ReplaceRest
<1>11. \A h \in acc : Holds(new, h)
  <2> SUFFICES ASSUME NEW h \in acc PROVE Holds(new, h)
    OBVIOUS
  <2>1. Holds(sg, h)
    BY DEF Files
  <2>2. \A k \in 1..ValidLen(s) : k \in 1..ValidLen(r) /\ r.items[k] = s.items[k]
    BY <1>4, <1>5, <1>7
  <2> QED BY <1>1, <1>8, <2>1, <2>2, ReplaceHolds
<1>12. a = NoAnchor => Len(sg) <= 1
  BY DEF Files
<1> QED BY <1>4, <1>5, <1>6, <1>8, <1>10, <1>11, <1>12 DEF Files

\* The ways in which the code writes, undoes and cuts frames.
LEMMA WrittenItems ==
  ASSUME NEW s \in Segments, Whole(s) \/ Cut(s)
  PROVE  /\ \A f \in Frames : Extended(s, f, [s EXCEPT !.items = Append(@, f)])
         /\ Whole(s) => Kept(s, [s EXCEPT !.items = Append(@, Junk)], Len(s.items))
         /\ Whole(s) /\ Len(s.items) > 0 =>
              /\ Kept(s, [s EXCEPT !.items = SubSeq(@, 1, Len(@) - 1) \o <<>>], Len(s.items) - 1)
              /\ Kept(s, [s EXCEPT !.items = SubSeq(@, 1, Len(@) - 1) \o <<Junk>>], Len(s.items) - 1)
         /\ Kept(s, [s EXCEPT !.items = SubSeq(@, 1, ValidLen(s))], ValidLen(s))
         /\ Len([s EXCEPT !.items = SubSeq(@, 1, ValidLen(s))].items) = ValidLen(s)
<1> DEFINE n == Len(s.items)
           T == Frames \cup {Junk}
<1>1. s.items \in Seq(T) /\ n \in Nat /\ ValidLen(s) \in 0..n /\ (Whole(s) => ValidLen(s) = n)
  BY FormFrames, FormLength DEF Segments
<1>2. ASSUME NEW f \in T
      PROVE  /\ Append(s.items, f) \in Seq(T) /\ Len(Append(s.items, f)) = n + 1
             /\ Append(s.items, f)[n + 1] = f
             /\ \A k \in 1..n : Append(s.items, f)[k] = s.items[k]
  BY <1>1
<1>3. ASSUME NEW p \in 0..n
      PROVE  /\ SubSeq(s.items, 1, p) \in Seq(T) /\ Len(SubSeq(s.items, 1, p)) = p
             /\ \A k \in 1..p : SubSeq(s.items, 1, p)[k] = s.items[k]
  BY <1>1
<1>4. \A f \in Frames : Extended(s, f, [s EXCEPT !.items = Append(@, f)])
  <2> SUFFICES ASSUME NEW f \in Frames PROVE Extended(s, f, [s EXCEPT !.items = Append(s.items, f)])
    OBVIOUS
  <2> DEFINE x == Append(s.items, f)
             r == [s EXCEPT !.items = x]
  <2>1. x \in Seq(T) /\ Len(x) = n + 1 /\ x[n + 1] = f /\ \A k \in 1..n : x[k] = s.items[k]
    BY <1>2
  <2> HIDE DEF x
  <2>2. r \in Segments /\ r.head = s.head /\ r.items = x
    BY <2>1, ExceptItems
  <2> HIDE DEF r
  <2>3. Extended(s, f, r)
    BY <2>1, <2>2 DEF Extended
  <2> QED BY <2>3 DEF r, x
<1>5. ASSUME NEW x \in Seq(T), NEW p \in 0..ValidLen(s),
             \A k \in 1..p : x[k] = s.items[k],
             Len(x) = p \/ (Len(x) = p + 1 /\ x[p + 1] = Junk)
      PROVE  Kept(s, [s EXCEPT !.items = x], p) /\ [s EXCEPT !.items = x].items = x
  <2> DEFINE r == [s EXCEPT !.items = x]
  <2>1. r \in Segments /\ r.head = s.head /\ r.items = x
    BY ExceptItems
  <2> HIDE DEF r
  <2>2. Kept(s, r, p) /\ r.items = x
    BY <1>5, <2>1 DEF Kept
  <2> QED BY <2>2 DEF r
<1>6. ASSUME Whole(s) PROVE Kept(s, [s EXCEPT !.items = Append(@, Junk)], n)
  <2> DEFINE x == Append(s.items, Junk)
  <2>1. Junk \in T
    OBVIOUS
  <2>2. x \in Seq(T) /\ Len(x) = n + 1 /\ x[n + 1] = Junk /\ \A k \in 1..n : x[k] = s.items[k]
    BY <1>2, <2>1
  <2>3. n \in 0..ValidLen(s)
    BY <1>1, <1>6
  <2> HIDE DEF x, n
  <2>4. Kept(s, [s EXCEPT !.items = x], n)
    BY <1>5, <2>2, <2>3
  <2> QED BY <2>4 DEF x
<1>7. Kept(s, [s EXCEPT !.items = SubSeq(@, 1, ValidLen(s))], ValidLen(s))
      /\ Len([s EXCEPT !.items = SubSeq(@, 1, ValidLen(s))].items) = ValidLen(s)
  <2> DEFINE p == ValidLen(s)
             x == SubSeq(s.items, 1, p)
  <2>1. p \in 0..n /\ p \in 0..ValidLen(s)
    BY <1>1
  <2>2. x \in Seq(T) /\ Len(x) = p /\ \A k \in 1..p : x[k] = s.items[k]
    BY <1>3, <2>1
  <2> HIDE DEF x, p, n
  <2>3. Kept(s, [s EXCEPT !.items = x], p) /\ [s EXCEPT !.items = x].items = x
    BY <1>5, <2>1, <2>2
  <2>4. Len([s EXCEPT !.items = x].items) = p
    BY <2>2, <2>3
  <2> QED BY <2>3, <2>4 DEF x, p
<1>8. ASSUME Whole(s), n > 0
      PROVE  /\ Kept(s, [s EXCEPT !.items = SubSeq(@, 1, Len(@) - 1) \o <<>>], n - 1)
             /\ Kept(s, [s EXCEPT !.items = SubSeq(@, 1, Len(@) - 1) \o <<Junk>>], n - 1)
  <2> DEFINE p == n - 1
             y == SubSeq(s.items, 1, p)
  <2>1. p \in 0..n /\ p \in 0..ValidLen(s) /\ p \in Nat
    BY <1>1, <1>8
  <2>2. y \in Seq(T) /\ Len(y) = p /\ \A k \in 1..p : y[k] = s.items[k]
    BY <1>3, <2>1
  <2> HIDE DEF y, p, n
  <2>3. y \o <<>> \in Seq(T) /\ Len(y \o <<>>) = p /\ \A k \in 1..p : (y \o <<>>)[k] = s.items[k]
    BY <2>1, <2>2
  <2>4. /\ y \o <<Junk>> \in Seq(T) /\ Len(y \o <<Junk>>) = p + 1 /\ (y \o <<Junk>>)[p + 1] = Junk
        /\ \A k \in 1..p : (y \o <<Junk>>)[k] = s.items[k]
    BY <2>1, <2>2
  <2>5. Kept(s, [s EXCEPT !.items = y \o <<>>], p) /\ Kept(s, [s EXCEPT !.items = y \o <<Junk>>], p)
    BY <1>5, <2>1, <2>3, <2>4
  <2> QED BY <2>5 DEF y, p, n
<1> QED BY <1>4, <1>6, <1>7, <1>8

\* More hashes minted, another anchor that the files bear out, one more record
\* accepted that they hold.
LEMMA FilesGrow ==
  ASSUME NEW sg, NEW a, NEW m \in Nat, NEW acc, Files(sg, a, m, acc)
  PROVE  /\ Files(sg, a, m + 1, acc)
         /\ \A b : Attests(sg, b) /\ b # NoAnchor => Files(sg, b, m, acc)
         /\ \A h : Holds(sg, h) => Files(sg, a, m, acc \cup {h})
<1>1. HashesBelow(sg, m + 1)
  <2> SUFFICES ASSUME NEW i \in 1..Len(sg) PROVE SegmentBelow(sg[i], m + 1)
    BY DEF HashesBelow
  <2>1. sg[i] \in Segments /\ SegmentBelow(sg[i], m)
    BY DEF Files, HashesBelow
  <2>2. sg[i].head # Short => sg[i].head.prev \in Nat
    BY <2>1 DEF Segments, Headers
  <2>3. ASSUME NEW k \in 1..Len(sg[i].items), sg[i].items[k] # Junk
        PROVE  sg[i].items[k].hash <= m + 1
    <3>1. sg[i].items[k] \in Frames
      BY <2>1, <2>3 DEF Segments
    <3> QED BY <2>1, <2>3, <3>1 DEF SegmentBelow, Frames
  <2> QED BY <2>1, <2>2, <2>3 DEF SegmentBelow
<1>2. \A b : Attests(sg, b) /\ b # NoAnchor => Files(sg, b, m, acc)
  BY DEF Files
<1>3. \A h : Holds(sg, h) => Files(sg, a, m, acc \cup {h})
  BY DEF Files
<1> QED BY <1>1, <1>2, <1>3 DEF Files

\* new is sg and one segment more.
Added(sg, r, new) ==
  /\ new \in Seq(Segments) /\ Len(new) = Len(sg) + 1 /\ new[Len(sg) + 1] = r
  /\ \A i \in 1..Len(sg) : new[i] = sg[i]

\* That is what Append makes of it, and the reverse is cutting it off.
LEMMA AppendSegment ==
  ASSUME NEW sg \in Seq(Segments), NEW r \in Segments
  PROVE  /\ Added(sg, r, Append(sg, r))
         /\ Len(sg) > 0 => /\ Added(SubSeq(sg, 1, Len(sg) - 1), sg[Len(sg)], sg)
                          /\ SubSeq(sg, 1, Len(sg) - 1) \in Seq(Segments)
                          /\ Len(SubSeq(sg, 1, Len(sg) - 1)) = Len(sg) - 1
<1>1. Added(sg, r, Append(sg, r))
  BY DEF Added
<1>2. ASSUME Len(sg) > 0
      PROVE  /\ Added(SubSeq(sg, 1, Len(sg) - 1), sg[Len(sg)], sg)
             /\ SubSeq(sg, 1, Len(sg) - 1) \in Seq(Segments)
             /\ Len(SubSeq(sg, 1, Len(sg) - 1)) = Len(sg) - 1
  <2> DEFINE n == Len(sg) - 1
             x == SubSeq(sg, 1, n)
  <2>1. n \in Nat /\ n \in 0..Len(sg) /\ n + 1 = Len(sg)
    BY <1>2
  <2>2. x \in Seq(Segments) /\ Len(x) = n /\ \A i \in 1..n : x[i] = sg[i]
    BY <2>1
  <2> HIDE DEF n, x
  <2>3. Added(x, sg[Len(sg)], sg)
    BY <2>1, <2>2 DEF Added
  <2> QED BY <2>2, <2>3 DEF n, x
<1> QED BY <1>1, <1>2

\* A file without its header is a segment, and nothing in it counts.
LEMMA BareForm ==
  /\ BareSegment \in Segments /\ Bare(BareSegment) /\ BareSegment.head = Short
  /\ ValidLen(BareSegment) = 0
  /\ \A m : SegmentBelow(BareSegment, m)
<1>1. BareSegment \in Segments /\ Bare(BareSegment) /\ BareSegment.head = Short
  BY DEF BareSegment, Segments, Bare
<1>2. \A m : SegmentBelow(BareSegment, m)
  BY <1>1 DEF SegmentBelow, BareSegment
<1> QED BY <1>1, <1>2, FormLength

\* A bare segment may follow a whole one, and it may go again.
LEMMA BareAdded ==
  ASSUME NEW sg \in Seq(Segments), NEW new, Added(sg, BareSegment, new), Len(sg) > 0,
         NEW a, a # NoAnchor, NEW m, NEW acc
  PROVE  /\ Files(sg, a, m, acc) /\ Whole(sg[Len(sg)]) => Files(new, a, m, acc)
         /\ Files(new, a, m, acc) => Files(sg, a, m, acc)
<1>1. /\ new \in Seq(Segments) /\ Len(new) = Len(sg) + 1 /\ new[Len(new)] = BareSegment
      /\ \A i \in 1..Len(sg) : new[i] = sg[i]
  BY DEF Added
<1>2. Len(sg) \in Nat /\ Len(new) - 1 = Len(sg)
  BY <1>1
<1>3. \A i \in 1..Len(new) : i \in 1..Len(sg) \/ new[i] = BareSegment
  BY <1>1, <1>2
<1>4. \A i \in 1..Len(sg) : i \in 1..Len(new)
  BY <1>1, <1>2
<1>5. /\ BareSegment.head = Short /\ ValidLen(BareSegment) = 0 /\ SegmentBelow(BareSegment, m)
      /\ Bare(BareSegment)
  BY BareForm
<1>6. HashesBelow(sg, m) <=> HashesBelow(new, m)
  BY <1>1, <1>3, <1>4, <1>5 DEF HashesBelow
<1>7. Attests(sg, a) <=> Attests(new, a)
  BY <1>1, <1>3, <1>4, <1>5 DEF Attests
<1>8. ASSUME NEW h PROVE Holds(sg, h) <=> Holds(new, h)
  BY <1>1, <1>3, <1>4, <1>5 DEF Holds
<1>9. Linked(sg) <=> Linked(new)
  <2>1. new[1] = sg[1]
    BY <1>1, <1>2
  <2>2. \A i \in 1..Len(sg) - 1 : i \in 1..Len(sg) /\ i + 1 \in 1..Len(sg) /\ i \in 1..Len(new) - 1
    BY <1>2
  <2>3. \A i \in 1..Len(new) - 1 : i \in 1..Len(sg) - 1 \/ new[i + 1] = BareSegment
    BY <1>1, <1>2
  <2>4. Len(sg) > 0 /\ Len(new) > 0
    BY <1>1, <1>2
  <2>5. \A i \in 1..Len(sg) - 1 : new[i] = sg[i] /\ new[i + 1] = sg[i + 1]
    BY <1>1, <2>2
  <2>6. ASSUME Linked(sg) PROVE Linked(new)
    <3> SUFFICES ASSUME NEW i \in 1..Len(new) - 1, new[i + 1].head # Short
                 PROVE  new[i + 1].head = [first |-> new[i].head.first + ValidLen(new[i]),
                                           prev |-> LastHash(new[i])]
      BY <2>1, <2>4, <2>6 DEF Linked
    <3>1. i \in 1..Len(sg) - 1
      BY <1>5, <2>3
    <3> QED BY <2>5, <2>6, <3>1 DEF Linked
  <2>7. ASSUME Linked(new) PROVE Linked(sg)
    BY <2>1, <2>2, <2>4, <2>5, <2>7 DEF Linked
  <2> QED BY <2>6, <2>7
<1>10. Formed(sg) /\ Whole(sg[Len(sg)]) => Formed(new)
  <2>1. \A i \in 1..Len(new) - 1 : i \in 1..Len(sg) /\ (i \in 1..Len(sg) - 1 \/ i = Len(sg))
    <3> SUFFICES ASSUME NEW i \in 1..Len(sg) PROVE i \in 1..Len(sg) - 1 \/ i = Len(sg)
      BY <1>2
    <3> QED BY <1>2
  <2> QED BY <1>1, <1>5, <2>1 DEF Formed
<1>11. Formed(new) => Formed(sg)
  <2>1. \A i \in 1..Len(sg) : i \in 1..Len(new) - 1
    BY <1>1, <1>2
  <2>2. Len(sg) \in 1..Len(sg) /\ \A i \in 1..Len(sg) - 1 : i \in 1..Len(sg)
    BY <1>2
  <2> QED BY <1>1, <2>1, <2>2 DEF Formed
<1> QED BY <1>1, <1>6, <1>7, <1>8, <1>9, <1>10, <1>11 DEF Files

\* The header written into a bare segment, continuing the one before.
LEMMA HeaderFiles ==
  ASSUME NEW sg, NEW a, NEW m \in Nat, NEW acc, Files(sg, a, m, acc), a # NoAnchor,
         Len(sg) > 1, Bare(sg[Len(sg)]),
         NEW p, p = sg[Len(sg) - 1], NEW h \in Headers, h.prev <= m,
         h = [first |-> p.head.first + ValidLen(p), prev |-> LastHash(p)],
         NEW r \in Segments, r.head = h, Len(r.items) = 0,
         NEW new, Replaced(sg, r, new)
  PROVE  Files(new, a, m, acc) /\ Whole(r) /\ ValidLen(r) = 0
<1>1. /\ sg \in Seq(Segments) /\ Formed(sg) /\ Linked(sg) /\ HashesBelow(sg, m)
      /\ Attests(sg, a) /\ Len(sg) \in Nat
  BY DEF Files
<1>2. r \in Segments /\ r.head = h /\ Len(r.items) = 0 /\ h # Short
  BY DEF Headers, Short
<1>3. Whole(r)
  BY <1>2 DEF Whole
<1>4. ValidLen(r) = 0
  BY <1>2, <1>3, FormLength
<1>5. SegmentBelow(r, m)
  BY <1>2 DEF SegmentBelow
<1>6. /\ new \in Seq(Segments) /\ Len(new) = Len(sg) /\ new[Len(sg)] = r
      /\ \A i \in 1..Len(sg) - 1 : new[i] = sg[i]
  BY DEF Replaced
<1>7. \A i \in 1..Len(sg) : i = Len(sg) \/ i \in 1..Len(sg) - 1
  BY <1>1
<1>8. sg[Len(sg)].head = Short /\ ValidLen(sg[Len(sg)]) = 0
  <2>1. sg[Len(sg)] \in Segments
    BY <1>1
  <2> QED BY <2>1, FormLength
<1>9. Formed(new)
  <2>1. \A i \in 1..Len(sg) - 1 : Whole(sg[i])
    BY <1>1 DEF Formed
  <2>2. \A i \in 1..Len(new) - 1 : Whole(new[i])
    BY <1>6, <2>1
  <2> QED BY <1>3, <1>6, <2>2 DEF Formed
<1>10. HashesBelow(new, m)
  BY <1>1, <1>5, <1>6, <1>7 DEF HashesBelow
<1>11. Attests(new, a)
  BY <1>1, <1>6, <1>7, <1>8 DEF Attests
<1>12. \A x \in acc : Holds(new, x)
  <2> SUFFICES ASSUME NEW x \in acc PROVE Holds(new, x)
    OBVIOUS
  <2>1. PICK i \in 1..Len(sg) : \E k \in 1..ValidLen(sg[i]) : sg[i].items[k].hash = x
    BY DEF Files, Holds
  <2>2. i # Len(sg)
    BY <1>8, <2>1
  <2>3. new[i] = sg[i] /\ i \in 1..Len(new)
    BY <1>6, <1>7, <2>2
  <2> QED BY <2>1, <2>3 DEF Holds
<1>13. Linked(new)
  <2>1. 1 \in 1..Len(sg) - 1 /\ new[1] = sg[1]
    BY <1>1, <1>6
  <2> SUFFICES ASSUME NEW i \in 1..Len(new) - 1, new[i + 1].head # Short
               PROVE  new[i + 1].head = [first |-> new[i].head.first + ValidLen(new[i]),
                                         prev |-> LastHash(new[i])]
    BY <1>1, <1>6, <2>1 DEF Linked
  <2>2. i \in 1..Len(sg) - 1 /\ new[i] = sg[i]
    BY <1>6
  <2>3. CASE i + 1 = Len(sg)
    <3>1. i = Len(sg) - 1
      BY <1>1, <2>2, <2>3
    <3> QED BY <1>2, <1>6, <2>2, <2>3, <3>1
  <2>4. CASE i + 1 # Len(sg)
    <3>1. i + 1 \in 1..Len(sg) - 1
      BY <1>1, <2>2, <2>4
    <3> QED BY <1>1, <1>6, <2>2, <3>1 DEF Linked
  <2> QED BY <2>3, <2>4
<1> QED BY <1>3, <1>4, <1>6, <1>9, <1>10, <1>11, <1>12, <1>13 DEF Files

\* The files create_initial_segment leaves.
LEMMA FirstFiles ==
  ASSUME NEW m \in Nat
  PROVE  /\ Files(FirstSegment, NoAnchor, m, {}) /\ Files(FirstSegment, [seg |-> 1, seq |-> 0], m, {})
         /\ Len(FirstSegment) = 1 /\ Whole(FirstSegment[1]) /\ ValidLen(FirstSegment[1]) = 0
         /\ FirstSegment[1].head = [first |-> 1, prev |-> 0]
         /\ LastHash(FirstSegment[1]) = 0
         /\ Files(<<BareSegment>>, NoAnchor, m, {})
         /\ Files(<<>>, NoAnchor, m, {})
<1> DEFINE r == [head |-> [first |-> 1, prev |-> 0], items |-> <<>>]
<1>1. r \in Segments /\ r.head # Short /\ Len(r.items) = 0
  BY DEF Segments, Headers, Short
<1>2. /\ FirstSegment \in Seq(Segments) /\ Len(FirstSegment) = 1 /\ FirstSegment[1] = r
      /\ r.head = [first |-> 1, prev |-> 0]
  BY <1>1 DEF FirstSegment
<1> HIDE DEF r
<1>3. Whole(r)
  BY <1>1 DEF Whole
<1>4. ValidLen(r) = 0
  BY <1>1, <1>3, FormLength
<1>5. LastHash(r) = 0
  BY <1>2, <1>4 DEF LastHash
<1>6. SegmentBelow(r, m)
  BY <1>1, <1>2 DEF SegmentBelow
<1>7. HashesBelow(FirstSegment, m) /\ Formed(FirstSegment) /\ Linked(FirstSegment)
  BY <1>2, <1>3, <1>6 DEF HashesBelow, Formed, Linked
<1>8. Attests(FirstSegment, [seg |-> 1, seq |-> 0]) /\ Attests(FirstSegment, NoAnchor)
  BY <1>1, <1>2, <1>4 DEF Attests
<1>9. Files(<<BareSegment>>, NoAnchor, m, {})
  <2> DEFINE sg == <<BareSegment>>
  <2>1. sg \in Seq(Segments) /\ Len(sg) = 1 /\ sg[1] = BareSegment
    BY BareForm
  <2> HIDE DEF sg
  <2>2. Formed(sg) /\ Linked(sg) /\ HashesBelow(sg, m) /\ Attests(sg, NoAnchor)
    BY <2>1, BareForm DEF Formed, Linked, HashesBelow, Attests
  <2> QED BY <2>1, <2>2 DEF Files, sg
<1>10. Files(<<>>, NoAnchor, m, {})
  <2>1. <<>> \in Seq(Segments) /\ Len(<<>>) = 0
    OBVIOUS
  <2>2. Formed(<<>>) /\ Linked(<<>>) /\ HashesBelow(<<>>, m) /\ Attests(<<>>, NoAnchor)
    BY <2>1 DEF Formed, Linked, HashesBelow, Attests
  <2> QED BY <2>1, <2>2 DEF Files
<1> QED BY <1>2, <1>3, <1>4, <1>5, <1>7, <1>8, <1>9, <1>10 DEF Files

-----------------------------------------------------------------------------
(* Threads *)

\* The counter tells what a thread's record holds.
LEMMA ThreadRecord ==
  ASSUME Shapes, NEW t \in Threads
  PROVE  /\ th[t] \in Framed <=> th[t].pc \in FramePcs
         /\ th[t].pc = "lock" => th[t] \in Locking
         /\ th[t] = Idle <=> th[t].pc = "idle"
<1>1. th[t] \in {Idle} \cup Locking \cup Framed
  BY DEF Shapes
<1>2. CASE th[t] = Idle
  BY <1>2 DEF Idle, Framed, FramePcs, Locking
<1>3. CASE th[t] \in Locking
  BY <1>3 DEF Idle, Framed, FramePcs, Locking
<1>4. CASE th[t] \in Framed
  BY <1>4 DEF Idle, Framed, FramePcs, Locking
<1> QED BY <1>1, <1>2, <1>3, <1>4

\* No thread is called as the guard is when nobody holds it.
LEMMA NamedThreads == "free" \notin Threads /\ "open" \in Threads /\ "open" \notin Recorders
BY AuditBoundsAssumption DEF Threads

Quiet == th = [t \in Threads |-> Idle] /\ guard = "free"

\* While the gate is not up nobody is at work.
LEMMA QuietUnlessRunning ==
  ASSUME Sound, ~Running PROVE Quiet
<1>1. ASSUME NEW t \in Threads PROVE th[t] = Idle
  BY DEF Sound, AtWork, Running
<1>2. th = [t \in Threads |-> Idle]
  BY <1>1 DEF Sound, Shapes
<1>3. guard \notin Threads
  BY <1>1 DEF Sound, Exclusive, Idle
<1> QED BY <1>2, <1>3 DEF Quiet, Sound, Shapes

\* Where nobody is at work there is nothing to show of the threads.
LEMMA QuietNext ==
  ASSUME Quiet' PROVE /\ Exclusive' /\ AtWork' /\ InFlight' /\ Pending'
                      /\ guard' \in Threads \cup {"free"}
                      /\ th' \in [Threads -> {Idle} \cup Locking \cup Framed]
<1>1. \A t \in Threads : th'[t] = Idle
  BY DEF Quiet
<1>2. \A t \in Threads : th'[t].pc = "idle" /\ th'[t] \notin Framed
  BY <1>1 DEF Idle, Framed, FramePcs
<1>3. Exclusive'
  BY <1>2, NamedThreads DEF Exclusive, Quiet
<1>4. AtWork' /\ InFlight'
  BY <1>1, <1>2 DEF AtWork, InFlight
<1>5. Pending'
  BY <1>2 DEF Pending, Appended
<1> QED BY <1>3, <1>4, <1>5 DEF Quiet

\* A record that fails, while its thread has the locks or nobody has.
LEMMA FailRest ==
  ASSUME Sound, NEW t \in Threads, th[t] # Idle, guard \in {t, "free"},
         NEW broken \in {"yes", "no"}, Fail(t, broken), UNCHANGED <<minted, accepted>>
  PROVE  /\ guard' \in Threads \cup {"free"}
         /\ th' \in [Threads -> {Idle} \cup Locking \cup Framed]
         /\ mem' \in [seq : Nat, hash : Nat, seg : Nat, broken : {"yes", "no"}]
         /\ status' \in Statuses /\ minted' \in Nat /\ accepted' \subseteq 1..minted'
         /\ Exclusive' /\ AtWork' /\ InFlight' /\ Pending' /\ Opening'
         /\ \A u \in Threads : ~Appended(u)'
         /\ Running /\ (Running' => status' = status)
         /\ mem'.seq = mem.seq /\ mem'.hash = mem.hash /\ mem'.seg = mem.seg
         /\ broken = "yes" => mem'.broken = "yes"
         /\ broken = "no" => mem' = mem
<1>1. th' = [th EXCEPT ![t] = Idle] /\ guard' = "free"
  BY DEF Fail, Become
<1>2. th \in [Threads -> {Idle} \cup Locking \cup Framed]
  BY DEF Sound, Shapes
<1>3. /\ th' \in [Threads -> {Idle} \cup Locking \cup Framed]
      /\ th'[t] = Idle /\ \A u \in Threads : u # t => th'[u] = th[u]
  BY <1>1, <1>2
<1>4. /\ mem' \in [seq : Nat, hash : Nat, seg : Nat, broken : {"yes", "no"}]
      /\ mem'.seq = mem.seq /\ mem'.hash = mem.hash /\ mem'.seg = mem.seg
      /\ broken = "yes" => mem'.broken = "yes"
      /\ broken = "no" => mem' = mem
  BY DEF Fail, Sound, Shapes
<1>5. \A u \in Threads : th'[u].pc \notin {"header", "write", "sync", "anchor"}
  <2> SUFFICES ASSUME NEW u \in Threads PROVE th'[u].pc \notin {"header", "write", "sync", "anchor"}
    OBVIOUS
  <2>1. CASE u = t
    BY <1>3, <2>1 DEF Idle
  <2>2. CASE u # t
    BY <1>3, <2>2, NamedThreads DEF Sound, Exclusive
  <2> QED BY <2>1, <2>2
<1>6. Exclusive' /\ Pending' /\ \A u \in Threads : ~Appended(u)'
  BY <1>1, <1>5, NamedThreads DEF Exclusive, Pending, Appended
<1>7. status = IF t = "open" THEN "recovering" ELSE "open"
  BY DEF Sound, AtWork
<1>8. status' = IF t = "open" THEN "closed" ELSE status
  BY DEF Fail
<1>9. Running /\ status' \in Statuses /\ (Running' => status' = status)
  BY <1>7, <1>8 DEF Running, Statuses
<1>10. Opening'
  BY <1>7, <1>8 DEF Opening
<1>11. AtWork'
  BY <1>3, <1>7, <1>8 DEF Sound, AtWork
<1>12. InFlight'
  <2>1. \A u \in Threads : th'[u] \in Framed => u # t /\ th'[u] = th[u]
    BY <1>3 DEF Framed, FramePcs, Idle
  <2> QED BY <1>4, <2>1 DEF Sound, InFlight
<1>13. minted' \in Nat /\ accepted' \subseteq 1..minted'
  BY DEF Sound, Shapes
<1> QED BY <1>1, <1>3, <1>4, <1>6, <1>9, <1>10, <1>11, <1>12, <1>13

\* A record that goes on with the frame it has.
LEMMA MoveRest ==
  ASSUME Sound, NEW t \in Threads, th[t] \in Framed, NEW pc \in FramePcs,
         Become(t, [th[t] EXCEPT !.pc = pc]), UNCHANGED <<status, minted, accepted>>,
         mem'.hash = mem.hash, mem'.seq = mem.seq,
         guard \in {t, "free"},
         guard' = IF pc \in {"header", "write", "sync", "anchor"} THEN t ELSE "free"
  PROVE  /\ guard' \in Threads \cup {"free"}
         /\ th' \in [Threads -> {Idle} \cup Locking \cup Framed]
         /\ status' \in Statuses /\ minted' \in Nat /\ accepted' \subseteq 1..minted'
         /\ Exclusive' /\ AtWork' /\ InFlight' /\ Opening'
         /\ th'[t].pc = pc /\ Item(t)' = Item(t) /\ th'[t].prev = th[t].prev
         /\ \A u \in Threads : u # t => th'[u].pc \notin {"header", "write", "sync", "anchor"}
         /\ Running /\ Running'
<1>1. th' = [th EXCEPT ![t] = [th[t] EXCEPT !.pc = pc]]
  BY DEF Become
<1>2. th \in [Threads -> {Idle} \cup Locking \cup Framed]
  BY DEF Sound, Shapes
<1> DEFINE r == [th[t] EXCEPT !.pc = pc]
<1>3. /\ r \in Framed /\ r.pc = pc /\ r.seq = th[t].seq /\ r.prev = th[t].prev
      /\ r.hash = th[t].hash /\ r.size = th[t].size
  BY DEF Framed
<1>4. th' = [th EXCEPT ![t] = r]
  BY <1>1
<1> HIDE DEF r
<1>5. /\ th' \in [Threads -> {Idle} \cup Locking \cup Framed]
      /\ th'[t] = r /\ \A u \in Threads : u # t => th'[u] = th[u]
  BY <1>2, <1>3, <1>4
<1>6. \A u \in Threads : u # t => th'[u].pc \notin {"header", "write", "sync", "anchor"}
  BY <1>5, NamedThreads DEF Sound, Exclusive
<1>7. Exclusive' /\ guard' \in Threads \cup {"free"}
  BY <1>3, <1>5, <1>6, NamedThreads DEF Exclusive
<1>8. th[t] # Idle
  BY DEF Framed, FramePcs, Idle
<1>9. status = IF t = "open" THEN "recovering" ELSE "open"
  BY <1>8 DEF Sound, AtWork
<1>10. AtWork'
  BY <1>5, <1>9 DEF Sound, AtWork
<1>11. Opening' /\ Running /\ Running' /\ status' \in Statuses
  BY <1>9 DEF Opening, Running, Statuses
<1>12. InFlight'
  <2>1. \A u \in Threads : th'[u] \in Framed => /\ th[u] \in Framed
                                               /\ th'[u].hash = th[u].hash
                                               /\ th'[u].prev = th[u].prev
                                               /\ th'[u].seq = th[u].seq
    BY <1>3, <1>5
  <2> QED BY <2>1 DEF Sound, InFlight
<1>13. Item(t)' = Item(t)
  BY <1>3, <1>5 DEF Item
<1>14. minted' \in Nat /\ accepted' \subseteq 1..minted'
  BY DEF Sound, Shapes
<1> QED BY <1>3, <1>5, <1>6, <1>7, <1>10, <1>11, <1>12, <1>13, <1>14

-----------------------------------------------------------------------------
(* The steps of an opening *)

\* Without a file, or with the torn first one, there is no anchor and nothing
\* was accepted.
LEMMA NothingYet ==
  ASSUME Sound, segs = <<>> \/ segs = <<BareSegment>>
  PROVE  anchor = NoAnchor /\ accepted = {}
<1>1. Files(segs, anchor, minted, accepted)
  BY DEF Sound
<1>2. CASE segs = <<>>
  <2>1. Len(segs) = 0
    BY <1>2
  <2> QED BY <1>1, <2>1 DEF Files, Attests, Holds
<1>3. CASE segs = <<BareSegment>>
  <2>1. Len(segs) = 1 /\ segs[1] = BareSegment
    BY <1>3
  <2>2. segs[1].head = Short /\ ValidLen(segs[1]) = 0
    BY <2>1, BareForm
  <2>3. anchor = NoAnchor
    BY <1>1, <2>1, <2>2 DEF Files, Attests
  <2>4. \A h : ~Holds(segs, h)
    BY <2>1, <2>2 DEF Holds
  <2> QED BY <1>1, <2>3, <2>4 DEF Files
<1> QED BY <1>2, <1>3

\* Soundness where the gate is not up: the files, and how far the opening is.
LEMMA QuietSound ==
  ASSUME Quiet', ~Running', Files(segs, anchor, minted, accepted)', Opening',
         anchor' \in [seg : Nat \ {0}, seq : Nat] \cup {NoAnchor}, status' \in Statuses,
         mem' \in [seq : Nat, hash : Nat, seg : Nat, broken : {"yes", "no"}],
         minted' \in Nat, accepted' \subseteq 1..minted'
  PROVE  Sound'
<1>1. Shapes' /\ Exclusive' /\ AtWork' /\ InFlight' /\ Pending'
  BY QuietNext DEF Shapes
<1>2. MemoryIsTail'
  BY DEF MemoryIsTail
<1> QED BY <1>1, <1>2 DEF Sound

\* Soundness of a gate that has just come up.
LEMMA RisenSound ==
  ASSUME Quiet', Files(segs, anchor, minted, accepted)', Running',
         anchor' \in [seg : Nat \ {0}, seq : Nat],
         mem' \in [seq : Nat, hash : Nat, seg : Nat, broken : {"yes", "no"}],
         minted' \in Nat, accepted' \subseteq 1..minted',
         mem'.hash <= minted', mem'.seg = Len(segs'), Len(segs') > 0, Whole(Last'),
         anchor'.seg = Len(segs') => anchor'.seq <= mem'.seq,
         mem'.seq + 1 = Last'.head.first + ValidLen(Last'),
         mem'.hash = LastHash(Last')
  PROVE  Sound'
<1>1. status' \in Statuses /\ Opening'
  BY DEF Running, Statuses, Opening
<1>2. Shapes' /\ Exclusive' /\ AtWork' /\ InFlight' /\ Pending'
  BY <1>1, QuietNext DEF Shapes
<1>3. anchor' # NoAnchor
  BY DEF NoAnchor
<1>4. Len(segs') \in Nat /\ anchor'.seg \in 1..Len(segs')
  BY <1>3 DEF Files, Attests
<1>5. MemoryIsTail'
  BY <1>3, <1>4 DEF MemoryIsTail, Last
<1> QED BY <1>1, <1>2, <1>5 DEF Sound

\* open_internal without a segment.
LEMMA OpenEmptySound == ASSUME Sound, OpenEmpty PROVE Sound'
<1>1. anchor = NoAnchor /\ accepted = {}
  BY NothingYet DEF OpenEmpty
<1>2. /\ status' = "creating" /\ segs' = <<BareSegment>>
      /\ UNCHANGED <<anchor, mem, guard, th, minted, accepted>>
  BY <1>1 DEF OpenEmpty, BareSegment
<1>3. Quiet'
  BY <1>2, QuietUnlessRunning DEF OpenEmpty, Running, Quiet
<1>4. Files(segs, anchor, minted, accepted)'
  BY <1>1, <1>2, FirstFiles DEF Sound, Shapes
<1>5. Opening' /\ ~Running' /\ status' \in Statuses
  BY <1>2 DEF Opening, Running, Statuses
<1> QED BY <1>2, <1>3, <1>4, <1>5, QuietSound DEF Sound, Shapes

\* What the files say of the anchor's record and of the last one.
LEMMA AnchorKnown ==
  ASSUME Sound, Len(segs) > 0, Last.head # Short
  PROVE  /\ Last \in Segments /\ (Whole(Last) \/ Cut(Last)) /\ ~AnchorViolation
         /\ anchor # NoAnchor /\ anchor.seg = Len(segs) =>
              anchor.seq < Last.head.first + ValidLen(Last)
<1>1. /\ segs \in Seq(Segments) /\ Formed(segs) /\ Attests(segs, anchor)
      /\ Len(segs) \in 1..Len(segs)
  BY DEF Sound, Files
<1>2. Last \in Segments /\ (Whole(Last) \/ Cut(Last))
  BY <1>1, SegmentForm DEF Last
<1>3. /\ Last.head.first \in Nat /\ ValidLen(Last) \in Nat
      /\ \A k \in 1..ValidLen(Last) : Last.items[k].seq = Last.head.first + k - 1
  <2>1. Len(Last.items) \in Nat
    BY <1>2 DEF Segments
  <2> QED BY <1>2, <2>1, FormFrames DEF Headers, Chained
<1>4. anchor # NoAnchor => anchor.seg \in Nat /\ anchor.seq \in Nat
  BY DEF Sound, Shapes
<1>5. ASSUME anchor # NoAnchor, anchor.seg = Len(segs)
      PROVE  /\ anchor.seq < Last.head.first + ValidLen(Last)
             /\ anchor.seq = 0 \/ anchor.seq >= Last.head.first
  BY <1>1, <1>5 DEF Attests, Last
<1>6. ~AnchorViolation
  <2> SUFFICES ASSUME anchor # NoAnchor, anchor.seg = Len(segs) PROVE anchor.seq <= LastSeq(Last)
    BY <1>1, <1>4, <1>3 DEF AnchorViolation, Attests, LastSeq
  <2>1. CASE ValidLen(Last) = 0
    BY <1>3, <1>4, <1>5, <2>1 DEF LastSeq
  <2>2. CASE ValidLen(Last) > 0
    <3>1. LastSeq(Last) = Last.head.first + ValidLen(Last) - 1
      BY <1>3, <2>2 DEF LastSeq
    <3> QED BY <1>3, <1>4, <1>5, <3>1
  <2> QED BY <1>3, <2>1, <2>2
<1> QED BY <1>2, <1>5, <1>6

\* Files without a torn header are verified.
LEMMA FilesVerified ==
  ASSUME Sound, Len(segs) > 0, \A i \in 1..Len(segs) : segs[i].head # Short
  PROVE  Verified
<1>1. segs \in Seq(Segments) /\ Formed(segs) /\ Linked(segs) /\ Len(segs) \in Nat
  BY DEF Sound, Files
<1>2. segs[1].head = [first |-> 1, prev |-> 0] /\ DOMAIN segs = 1..Len(segs)
  <2>1. 1 \in 1..Len(segs)
    BY <1>1
  <2> QED BY <1>1, <2>1 DEF Linked
<1>3. ASSUME NEW i \in 1..Len(segs) - 1
      PROVE  ~HasTail(segs[i]) /\ segs[i + 1].head.prev = LastHash(segs[i])
  <2>1. i \in 1..Len(segs) /\ i + 1 \in 1..Len(segs)
    BY <1>1
  <2>2. segs[i] \in Segments /\ Whole(segs[i])
    BY <1>1, <2>1 DEF Formed
  <2>3. ValidLen(segs[i]) = Len(segs[i].items) /\ Len(segs[i].items) \in Nat
    BY <2>2, FormLength DEF Segments
  <2>4. ~HasTail(segs[i])
    BY <2>3 DEF HasTail
  <2>5. segs[i + 1].head = [first |-> segs[i].head.first + ValidLen(segs[i]), prev |-> LastHash(segs[i])]
    BY <1>1, <2>1 DEF Linked
  <2> QED BY <2>4, <2>5
<1> QED BY <1>2, <1>3 DEF Verified

\* initialize_or_verify with segments there.
LEMMA OpenExistingSound == ASSUME Sound, OpenExisting PROVE Sound'
<1>1. /\ status = "closed" /\ segs # <<>>
      /\ status' = IF Verified /\ ~AnchorViolation THEN "repair" ELSE "refused"
      /\ UNCHANGED <<segs, anchor, mem, guard, th, minted, accepted>>
  BY DEF OpenExisting
<1>2. segs \in Seq(Segments) /\ Len(segs) \in Nat /\ Len(segs) > 0 /\ DOMAIN segs = 1..Len(segs)
  <2>1. segs \in Seq(Segments)
    BY DEF Sound, Files
  <2> QED BY <1>1, <2>1
<1>3. Quiet'
  BY <1>1, QuietUnlessRunning DEF Running, Quiet
<1>4. status' \in Statuses /\ ~Running'
  BY <1>1 DEF Running, Statuses
<1>5. Len(segs) \in 1..Len(segs)
  BY <1>2
<1>6. Verified => Last.head # Short
  BY <1>2, <1>5 DEF Verified, Last
<1>7. ~(Verified /\ ~AnchorViolation) => \E i \in 1..Len(segs) : segs[i].head = Short
  BY <1>2, <1>5, <1>6, AnchorKnown, FilesVerified
<1>8. Opening'
  BY <1>1, <1>2, <1>6, <1>7 DEF Opening, Last
<1>9. Files(segs, anchor, minted, accepted)'
  BY <1>1 DEF Sound
<1> QED BY <1>1, <1>3, <1>4, <1>8, <1>9, QuietSound DEF Sound, Shapes

\* create_initial_segment.
LEMMA CreateInitialSound == ASSUME Sound, CreateInitial PROVE Sound'
<1>1. /\ status = "creating" /\ segs = <<BareSegment>>
      /\ UNCHANGED <<guard, th, minted, accepted>>
  BY DEF CreateInitial, Sound, Opening
<1>2. anchor = NoAnchor /\ accepted = {} /\ minted \in Nat
  BY <1>1, NothingYet DEF Sound, Shapes
<1>3. Quiet'
  BY <1>1, QuietUnlessRunning DEF Running, Quiet
<1>4. [seg |-> 1, seq |-> 0] \in [seg : Nat \ {0}, seq : Nat]
  OBVIOUS
<1>5. CASE /\ segs' = FirstSegment /\ anchor' = [seg |-> 1, seq |-> 0]
           /\ mem' = [Fresh EXCEPT !.seg = 1] /\ status' = "open"
  <2>1. Files(segs, anchor, minted, accepted)'
    BY <1>1, <1>2, <1>5, FirstFiles
  <2>2. mem' = [seq |-> 0, hash |-> 0, seg |-> 1, broken |-> "no"]
    BY <1>5 DEF Fresh
  <2>3. Len(segs') = 1 /\ Last' = FirstSegment[1]
    BY <1>2, <1>5, FirstFiles DEF Last
  <2>4. Whole(Last') /\ ValidLen(Last') = 0 /\ Last'.head.first = 1 /\ LastHash(Last') = 0
    BY <1>2, <2>3, FirstFiles
  <2>5. Running'
    BY <1>5 DEF Running
  <2>6. /\ mem' \in [seq : Nat, hash : Nat, seg : Nat, broken : {"yes", "no"}]
        /\ mem'.seq = 0 /\ mem'.hash = 0 /\ mem'.seg = 1
    BY <2>2
  <2>7. anchor' \in [seg : Nat \ {0}, seq : Nat] /\ anchor'.seq = 0
    BY <1>4, <1>5
  <2>8. minted' \in Nat /\ accepted' \subseteq 1..minted' /\ mem'.hash <= minted'
    BY <1>1, <1>2, <2>6
  <2> QED BY <1>3, <2>1, <2>3, <2>4, <2>5, <2>6, <2>7, <2>8, RisenSound
<1>6. CASE /\ status' = "closed" /\ UNCHANGED mem
           /\ \/ UNCHANGED <<segs, anchor>>
              \/ segs' = FirstSegment /\ anchor' \in {anchor, [seg |-> 1, seq |-> 0]}
  <2>1. Files(segs, anchor, minted, accepted)'
    BY <1>1, <1>2, <1>6, FirstFiles
  <2>2. Opening' /\ ~Running' /\ status' \in Statuses
    BY <1>6 DEF Opening, Running, Statuses
  <2>3. anchor' \in [seg : Nat \ {0}, seq : Nat] \cup {NoAnchor}
    BY <1>2, <1>4, <1>6
  <2> QED BY <1>1, <1>3, <1>6, <2>1, <2>2, <2>3, QuietSound DEF Sound, Shapes
<1> QED BY <1>5, <1>6 DEF CreateInitial

\* The hash a segment ends with was minted.
LEMMA LastHashBelow ==
  ASSUME NEW s \in Segments, Whole(s) \/ Cut(s), NEW m, SegmentBelow(s, m)
  PROVE  LastHash(s) <= m
<1>1. Len(s.items) \in Nat /\ ValidLen(s) \in 0..Len(s.items)
  BY FormFrames DEF Segments
<1>2. \A k \in 1..ValidLen(s) : s.items[k] # Junk
  BY FormFrames DEF Chained
<1>3. s.head # Short
  BY DEF Whole, Cut
<1>4. CASE ValidLen(s) = 0
  BY <1>3, <1>4 DEF LastHash, SegmentBelow
<1>5. CASE ValidLen(s) # 0
  <2>1. ValidLen(s) \in 1..ValidLen(s) /\ ValidLen(s) \in 1..Len(s.items)
    BY <1>1, <1>5
  <2> QED BY <1>2, <1>5, <2>1 DEF LastHash, SegmentBelow
<1> QED BY <1>4, <1>5

\* The tail cut off, the memory filled, a missing anchor written.
LEMMA RepairSound == ASSUME Sound, Repair PROVE Sound'
<1> DEFINE s == Last
           v == ValidLen(s)
           r == [s EXCEPT !.items = SubSeq(@, 1, v)]
           kept == [segs EXCEPT ![Len(segs)].items = SubSeq(@, 1, v)]
           next == s.head.first + v
           tip == IF anchor = NoAnchor THEN [seg |-> Len(segs), seq |-> next - 1] ELSE anchor
<1>1. /\ status = "repair" /\ UNCHANGED <<guard, th, minted, accepted>>
      /\ \/ /\ segs' = kept /\ anchor' = tip
            /\ mem' = [seq |-> next - 1, hash |-> LastHash(Last), seg |-> Len(segs), broken |-> "no"]
            /\ status' = IF NeedsRecovery THEN "recovering" ELSE "open"
         \/ /\ status' = "closed" /\ UNCHANGED mem
            /\ \/ segs' \in {segs, kept} /\ UNCHANGED anchor
               \/ segs' = kept /\ anchor' = tip
  <2>1. RepairTo(v, s.head.first + v)
    BY DEF Repair
  <2> HIDE DEF s, v, next
  <2>2. RepairTo(v, next)
    BY <2>1 DEF next
  <2> QED BY <2>2, Zenon DEF RepairTo
<1>2. /\ Len(segs) > 0 /\ s.head # Short /\ minted \in Nat
      /\ anchor \in [seg : Nat \ {0}, seq : Nat] \cup {NoAnchor}
      /\ Files(segs, anchor, minted, accepted) /\ accepted \subseteq 1..minted
      /\ segs \in Seq(Segments) /\ Len(segs) \in Nat
  BY <1>1 DEF Sound, Shapes, Opening, Files
<1>3. /\ s \in Segments /\ (Whole(s) \/ Cut(s))
      /\ anchor # NoAnchor /\ anchor.seg = Len(segs) => anchor.seq < s.head.first + v
  BY <1>2, AnchorKnown
<1>4. /\ v \in Nat /\ s.head \in Headers /\ LastHash(s) \in Nat /\ s.head.first \in Nat \ {0}
  <2>1. Len(s.items) \in Nat
    BY <1>3 DEF Segments
  <2> QED BY <1>3, <2>1, FormFrames DEF Headers
<1>5. Kept(s, r, v) /\ Len(r.items) = v /\ r \in Segments /\ r.head = s.head
  BY <1>3, WrittenItems DEF Kept
<1>6. Replaced(segs, r, kept)
  <2>1. kept = [segs EXCEPT ![Len(segs)] = r]
    BY DEF Last
  <2> HIDE DEF r, kept
  <2> QED BY <1>2, <1>5, <2>1, ExceptLast
<1>7. s = segs[Len(segs)] /\ s = Last /\ next = s.head.first + v
  BY DEF Last
<1>8. LastHash(s) <= minted
  <2>1. SegmentBelow(s, minted)
    BY <1>2, <1>7 DEF Files, HashesBelow
  <2> QED BY <1>3, <2>1, LastHashBelow
<1> HIDE DEF s, v, r, kept, next
<1>9. Files(kept, anchor, minted, accepted) /\ ValidLen(r) = v /\ Whole(r)
  <2>1. \A k \in v + 1..ValidLen(s) : FALSE
    BY <1>4 DEF v
  <2>2. \A k \in v + 1..ValidLen(s) : s.items[k].hash \notin accepted
    BY <2>1
  <2>3. ValidLen(r) = v /\ Whole(r)
    BY <1>3, <1>5, KeptForm
  <2> QED BY <1>2, <1>3, <1>5, <1>6, <1>7, <2>2, <2>3, ShortenFiles, ZenonT(60)
<1>10. Len(kept) = Len(segs) /\ kept[Len(segs)] = r
  BY <1>6 DEF Replaced
<1>11. Files(kept, tip, minted, accepted) /\ tip \in [seg : Nat \ {0}, seq : Nat]
       /\ (tip.seg = Len(segs) => tip.seq <= next - 1)
  <2>1. CASE anchor # NoAnchor
    BY <1>2, <1>3, <1>4, <1>7, <1>9, <2>1
  <2>2. CASE anchor = NoAnchor
    <3>1. Len(segs) = 1 /\ s.head = [first |-> 1, prev |-> 0]
      <4>1. Len(segs) <= 1 /\ Linked(segs)
        BY <1>2, <2>2 DEF Files
      <4>2. Len(segs) = 1
        <5> DEFINE L == Len(segs)
        <5>1. L \in Nat /\ L > 0 /\ L <= 1
          BY <1>2, <4>1
        <5> HIDE DEF L
        <5>2. L = 1
          BY <5>1
        <5> QED BY <5>2 DEF L
      <4> QED BY <1>2, <1>7, <4>1, <4>2 DEF Linked
    <3>2. s.head.first = 1 /\ next - 1 = v
      BY <1>4, <1>7, <3>1
    <3>3. tip = [seg |-> 1, seq |-> v]
      BY <2>2, <3>1, <3>2
    <3> HIDE DEF tip
    <3>4. tip \in [seg : Nat \ {0}, seq : Nat] /\ tip.seg = 1 /\ tip.seq = v /\ tip # NoAnchor
      BY <1>4, <3>3 DEF NoAnchor
    <3>5. Attests(kept, tip)
      BY <1>2, <1>4, <1>5, <1>9, <1>10, <3>1, <3>2, <3>4 DEF Attests
    <3>6. Files(kept, tip, minted, accepted)
      BY <1>2, <1>9, <3>4, <3>5, FilesGrow
    <3> QED BY <1>4, <3>2, <3>4, <3>6
  <2> QED BY <2>1, <2>2
<1> HIDE DEF tip
<1>12. Quiet'
  BY <1>1, QuietUnlessRunning DEF Running, Quiet
<1>13. CASE /\ segs' = kept /\ anchor' = tip
            /\ mem' = [seq |-> next - 1, hash |-> LastHash(Last), seg |-> Len(segs), broken |-> "no"]
            /\ status' = IF NeedsRecovery THEN "recovering" ELSE "open"
  <2>1. Running'
    BY <1>13 DEF Running
  <2>2. /\ mem' \in [seq : Nat, hash : Nat, seg : Nat, broken : {"yes", "no"}]
        /\ mem'.seq = next - 1 /\ mem'.hash = LastHash(s) /\ mem'.seg = Len(segs)
    BY <1>2, <1>4, <1>7, <1>13
  <2>3. Last' = r /\ Len(segs') = Len(segs)
    BY <1>10, <1>13 DEF Last
  <2>4. LastHash(r) = LastHash(s)
    BY <1>4, <1>5, <1>9 DEF LastHash, Kept, v
  <2>5. Files(segs, anchor, minted, accepted)'
    BY <1>1, <1>11, <1>13
  <2>6. mem'.seq + 1 = Last'.head.first + ValidLen(Last')
    BY <1>4, <1>5, <1>7, <1>9, <2>2, <2>3
  <2>7. /\ anchor' \in [seg : Nat \ {0}, seq : Nat] /\ minted' \in Nat /\ accepted' \subseteq 1..minted'
        /\ mem'.hash <= minted' /\ mem'.seg = Len(segs') /\ Len(segs') > 0 /\ Whole(Last')
        /\ anchor'.seg = Len(segs') => anchor'.seq <= mem'.seq
        /\ mem'.hash = LastHash(Last')
    BY <1>1, <1>2, <1>8, <1>9, <1>11, <1>13, <2>2, <2>3, <2>4
  <2> QED BY <1>12, <2>1, <2>2, <2>5, <2>6, <2>7, RisenSound
<1>14. CASE /\ status' = "closed" /\ UNCHANGED mem
            /\ \/ segs' \in {segs, kept} /\ UNCHANGED anchor
               \/ segs' = kept /\ anchor' = tip
  <2>1. Files(segs, anchor, minted, accepted)'
    BY <1>1, <1>2, <1>9, <1>11, <1>14
  <2>2. Opening' /\ ~Running' /\ status' \in Statuses
    BY <1>14 DEF Opening, Running, Statuses
  <2>3. anchor' \in [seg : Nat \ {0}, seq : Nat] \cup {NoAnchor}
    BY <1>2, <1>11, <1>14
  <2> QED BY <1>1, <1>12, <1>14, <2>1, <2>2, <2>3, QuietSound DEF Sound, Shapes
<1> QED BY <1>1, <1>13, <1>14

-----------------------------------------------------------------------------
(* The steps of a record *)

Memories == [seq : Nat, hash : Nat, seg : Nat, broken : {"yes", "no"}]
Anchors == [seg : Nat \ {0}, seq : Nat] \cup {NoAnchor}

\* The files and the tail, while nobody has appended and the gate is intact.
LEMMA TailFacts ==
  ASSUME Sound, Running, mem.broken = "no"
  PROVE  /\ segs \in Seq(Segments) /\ Len(segs) \in Nat /\ Len(segs) > 0
         /\ mem \in Memories /\ mem.seg \in 1..Len(segs) /\ mem.seg >= Len(segs) - 1
         /\ segs[mem.seg] \in Segments /\ Whole(segs[mem.seg])
         /\ ValidLen(segs[mem.seg]) = Len(segs[mem.seg].items)
         /\ Len(segs[mem.seg].items) \in Nat
         /\ segs[mem.seg].head \in Headers
         /\ anchor \in Anchors /\ anchor # NoAnchor /\ anchor.seg <= mem.seg
         /\ anchor.seg \in Nat /\ anchor.seq \in Nat
         /\ anchor.seg = mem.seg => anchor.seq <= mem.seq
         /\ mem.hash <= minted
         /\ (\A t \in Threads : ~Appended(t)) =>
              /\ mem.seq + 1 = segs[mem.seg].head.first + ValidLen(segs[mem.seg])
              /\ mem.hash = LastHash(segs[mem.seg])
<1>1. segs \in Seq(Segments) /\ Len(segs) \in Nat /\ mem \in Memories /\ anchor \in Anchors
  BY DEF Sound, Files, Shapes, Memories, Anchors
<1>2. /\ mem.seg \in 1..Len(segs) /\ mem.seg >= Len(segs) - 1
      /\ Whole(segs[mem.seg]) /\ anchor # NoAnchor /\ anchor.seg <= mem.seg
      /\ anchor.seg = mem.seg => anchor.seq <= mem.seq
      /\ mem.hash <= minted
      /\ (\A t \in Threads : ~Appended(t)) =>
              /\ mem.seq + 1 = segs[mem.seg].head.first + ValidLen(segs[mem.seg])
              /\ mem.hash = LastHash(segs[mem.seg])
  BY DEF Sound, MemoryIsTail
<1>3. segs[mem.seg] \in Segments /\ Len(segs) > 0
  BY <1>1, <1>2
<1>4. /\ ValidLen(segs[mem.seg]) = Len(segs[mem.seg].items)
      /\ Len(segs[mem.seg].items) \in Nat /\ segs[mem.seg].head \in Headers
  BY <1>2, <1>3, FormLength, FormFrames DEF Segments
<1>5. anchor.seg \in Nat /\ anchor.seq \in Nat
  BY <1>1, <1>2 DEF Anchors
<1> QED BY <1>1, <1>2, <1>3, <1>4, <1>5

\* A thread with the locks is alone in having them.
LEMMA Holder ==
  ASSUME Sound, NEW t \in Threads, guard \in {t, "free"}
  PROVE  /\ \A u \in Threads : u # t => ~Appended(u) /\ th[u].pc # "header"
         /\ guard = "free" => ~Appended(t) /\ th[t].pc # "header"
BY NamedThreads DEF Sound, Exclusive, Appended

\* A thread that is not idle has the gate up.
LEMMA WorkRuns ==
  ASSUME Sound, NEW t \in Threads, th[t].pc # "idle"
  PROVE  Running /\ th[t] # Idle /\ status = IF t = "open" THEN "recovering" ELSE "open"
BY DEF Sound, AtWork, Running, Idle

\* A thread that has appended its frame: where the frame is, and that the files
\* are sound with and without it.
LEMMA AppendedFacts ==
  ASSUME Sound, NEW t \in Threads, Appended(t)
  PROVE  /\ th[t] \in Framed /\ guard = t /\ Running
         /\ mem.broken = "no" /\ mem.seg = Len(segs) /\ Whole(Last) /\ Last \in Segments
         /\ th[t].seq = mem.seq + 1
         /\ th[t].seq + 1 = Last.head.first + ValidLen(Last)
         /\ th[t].hash = LastHash(Last)
         /\ Attests(segs, NewAnchor(t)) /\ NewAnchor(t) \in [seg : Nat \ {0}, seq : Nat]
         /\ Holds(segs, th[t].hash)
         /\ Files(LastReplaced(<<>>), anchor, minted, accepted)
         /\ Files(LastReplaced(<<Junk>>), anchor, minted, accepted)
<1> DEFINE s == Last
           n == Len(s.items)
<1>1. th[t].pc \in {"sync", "anchor"}
  BY DEF Appended
<1>2. Shapes
  BY DEF Sound
<1>3. th[t] \in Framed
  BY <1>1, <1>2, ThreadRecord DEF FramePcs
<1>4. guard = t /\ Running
  BY <1>1, WorkRuns DEF Sound, Exclusive
<1>5. /\ mem.broken = "no" /\ mem.seg = Len(segs) /\ th[t].prev = mem.hash
      /\ n > 0 /\ s.items[n] = Item(t)
  BY DEF Sound, Pending
<1>6. /\ segs \in Seq(Segments) /\ Len(segs) \in Nat /\ Len(segs) > 0
      /\ mem \in Memories
      /\ s \in Segments /\ Whole(s) /\ ValidLen(s) = n /\ n \in Nat /\ s.head \in Headers
      /\ anchor # NoAnchor /\ anchor.seq \in Nat
      /\ anchor.seg = Len(segs) => anchor.seq <= mem.seq
  BY <1>4, <1>5, TailFacts DEF Last
<1>7. s = segs[Len(segs)]
  BY DEF Last
<1>8. /\ th[t].seq \in Nat /\ th[t].hash \in Nat /\ th[t].hash \notin accepted
      /\ th[t].seq = mem.seq + 1
  BY <1>3, <1>5 DEF Framed, Sound, InFlight
<1> HIDE DEF s, n
<1>9. Chained(s, n)
  BY <1>5, <1>6 DEF Whole, n
<1>10. /\ s.items[n].seq = th[t].seq /\ s.items[n].hash = th[t].hash
  BY <1>5 DEF Item
<1>11. th[t].seq = s.head.first + n - 1 /\ s.head.first \in Nat /\ mem.seq \in Nat
  BY <1>6, <1>9, <1>10 DEF Chained, Headers, Memories
<1>12. th[t].seq + 1 = s.head.first + ValidLen(s) /\ LastHash(s) = th[t].hash
  <2>1. ValidLen(s) = n /\ n \in Nat /\ n # 0
    BY <1>5, <1>6
  <2>2. LastHash(s) = th[t].hash
    BY <1>10, <2>1 DEF LastHash
  <2> QED BY <1>8, <1>11, <2>1, <2>2
<1>13. NewAnchor(t) \in [seg : Nat \ {0}, seq : Nat]
  BY <1>5, <1>6, <1>8 DEF NewAnchor
<1>14. Attests(segs, NewAnchor(t))
  <2>1. NewAnchor(t).seg = Len(segs) /\ NewAnchor(t).seq = th[t].seq
    BY <1>5 DEF NewAnchor
  <2>2. s.head # Short
    BY <1>6 DEF Whole
  <2>3. Len(segs) \in 1..Len(segs)
    BY <1>6
  <2>4. th[t].seq < s.head.first + ValidLen(s) /\ th[t].seq >= s.head.first
    BY <1>5, <1>6, <1>8, <1>11
  <2> QED BY <1>7, <2>1, <2>2, <2>3, <2>4 DEF Attests
<1>15. Holds(segs, th[t].hash)
  <2>1. n \in 1..ValidLen(s) /\ Len(segs) \in 1..Len(segs)
    BY <1>5, <1>6
  <2> QED BY <1>7, <1>10, <2>1 DEF Holds
<1>16. ASSUME NEW x \in {<<>>, <<Junk>>}
       PROVE  Files(LastReplaced(x), anchor, minted, accepted)
  <2> DEFINE r == [s EXCEPT !.items = SubSeq(@, 1, Len(@) - 1) \o x]
             new == LastReplaced(x)
  <2>1. Kept(s, r, n - 1)
    BY <1>5, <1>6, WrittenItems DEF n
  <2>2. new = [segs EXCEPT ![Len(segs)] = r]
    BY <1>5, <1>7 DEF LastReplaced
  <2> HIDE DEF r, new
  <2>3. r \in Segments
    BY <2>1 DEF Kept
  <2>4. Replaced(segs, r, new)
    BY <1>6, <2>2, <2>3, ExceptLast
  <2>5. s.head # Short
    BY <1>6 DEF Whole
  <2>6. \A k \in (n - 1) + 1..ValidLen(s) : s.items[k].hash \notin accepted
    <3> SUFFICES ASSUME NEW k \in (n - 1) + 1..ValidLen(s) PROVE s.items[k].hash \notin accepted
      OBVIOUS
    <3>1. k = n
      BY <1>6
    <3> QED BY <1>8, <1>10, <3>1
  <2>7. anchor # NoAnchor /\ anchor.seg = Len(segs) => anchor.seq < s.head.first + (n - 1)
    BY <1>6, <1>8, <1>11
  <2>8. Files(segs, anchor, minted, accepted)
    BY DEF Sound
  <2>9. Files(new, anchor, minted, accepted)
    BY <1>6, <1>7, <2>1, <2>4, <2>5, <2>6, <2>7, <2>8, ShortenFiles
  <2> QED BY <2>9 DEF new
<1> QED BY <1>3, <1>4, <1>5, <1>6, <1>8, <1>12, <1>13, <1>14, <1>15, <1>16 DEF s

HeaderDone == [segs EXCEPT ![Len(segs)].head = NextHeader]

\* A thread that has created the next file: the files are sound with it, with
\* its header, and without it.
LEMMA HeaderFacts ==
  ASSUME Sound, NEW t \in Threads, th[t].pc = "header"
  PROVE  /\ th[t] \in Framed /\ guard = t /\ Running
         /\ mem.broken = "no" /\ mem.seg + 1 = Len(segs)
         /\ Files(HeaderDone, anchor, minted, accepted)
         /\ Files(SubSeq(segs, 1, Len(segs) - 1), anchor, minted, accepted)
         /\ Len(HeaderDone) = Len(segs) /\ HeaderDone[mem.seg] = segs[mem.seg]
         /\ Whole(HeaderDone[Len(segs)])
         /\ HeaderDone[Len(segs)].head = NextHeader /\ ValidLen(HeaderDone[Len(segs)]) = 0
<1> DEFINE p == segs[mem.seg]
           h == NextHeader
           r == [head |-> h, items |-> <<>>]
<1>1. Shapes /\ Files(segs, anchor, minted, accepted) /\ minted \in Nat
  BY DEF Sound, Shapes
<1>2. th[t] \in Framed
  BY <1>1, ThreadRecord DEF FramePcs
<1>3. guard = t /\ Running
  BY WorkRuns DEF Sound, Exclusive
<1>4. mem.broken = "no" /\ mem.seg + 1 = Len(segs) /\ Bare(Last)
  BY DEF Sound, Pending
<1>5. \A u \in Threads : ~Appended(u)
  BY <1>3, Holder DEF Appended
<1>6. /\ segs \in Seq(Segments) /\ Len(segs) \in Nat /\ mem \in Memories
      /\ mem.seg \in 1..Len(segs) /\ p \in Segments /\ Whole(p) /\ p.head \in Headers
      /\ anchor # NoAnchor /\ mem.hash <= minted
      /\ mem.seq + 1 = p.head.first + ValidLen(p) /\ mem.hash = LastHash(p)
  BY <1>3, <1>4, <1>5, TailFacts
<1>7. Len(segs) > 1 /\ p = segs[Len(segs) - 1] /\ Bare(segs[Len(segs)])
  BY <1>4, <1>6 DEF Last
<1>8. h \in Headers /\ h.prev <= minted /\ h = [first |-> p.head.first + ValidLen(p), prev |-> LastHash(p)]
  BY <1>6 DEF NextHeader, Headers, Memories
<1>9. r \in Segments /\ r.head = h /\ Len(r.items) = 0
  BY <1>8 DEF Segments
<1>10. HeaderDone = [segs EXCEPT ![Len(segs)] = r]
  <2>1. segs[Len(segs)] = BareSegment
    BY <1>7 DEF Bare
  <2>2. [BareSegment EXCEPT !.head = h] = r
    BY DEF BareSegment
  <2>3. HeaderDone = [segs EXCEPT ![Len(segs)] = [segs[Len(segs)] EXCEPT !.head = h]]
    BY DEF HeaderDone
  <2> QED BY <2>1, <2>2, <2>3
<1>11. Replaced(segs, r, HeaderDone)
  <2>1. Len(segs) > 0
    BY <1>6, <1>7
  <2> HIDE DEF r
  <2> QED BY <1>6, <1>9, <1>10, <2>1, ExceptLast
<1>12. Files(HeaderDone, anchor, minted, accepted) /\ Whole(r) /\ ValidLen(r) = 0
  <2> HIDE DEF p, h, r
  <2> QED BY <1>1, <1>6, <1>7, <1>8, <1>9, <1>11, HeaderFiles, ZenonT(60)
<1>13. /\ Len(HeaderDone) = Len(segs) /\ HeaderDone[Len(segs)] = r /\ r.head = h
       /\ HeaderDone[mem.seg] = segs[mem.seg]
  <2>1. mem.seg \in 1..Len(segs) - 1
    BY <1>4, <1>6
  <2> QED BY <1>11, <2>1 DEF Replaced
<1>14. Files(SubSeq(segs, 1, Len(segs) - 1), anchor, minted, accepted)
  <2> DEFINE old == SubSeq(segs, 1, Len(segs) - 1)
  <2>1. old \in Seq(Segments) /\ Len(old) = Len(segs) - 1 /\ Added(old, BareSegment, segs)
    BY <1>6, <1>7, AppendSegment, BareForm DEF Bare
  <2> HIDE DEF old
  <2>2. Len(old) > 0
    BY <1>6, <1>7, <2>1
  <2>3. Files(old, anchor, minted, accepted)
    BY <1>1, <1>6, <2>1, <2>2, BareAdded
  <2> QED BY <2>3 DEF old
<1> HIDE DEF r, h
<1>15. Whole(HeaderDone[Len(segs)]) /\ ValidLen(HeaderDone[Len(segs)]) = 0
       /\ HeaderDone[Len(segs)].head = NextHeader
  BY <1>12, <1>13 DEF h
<1> QED BY <1>2, <1>3, <1>4, <1>12, <1>13, <1>14, <1>15

\* The memory and the files as they were, and no frame appended or taken back.
LEMMA SameTail ==
  ASSUME Sound, UNCHANGED <<segs, anchor, mem>>, minted' >= minted, minted' \in Nat,
         Running' => Running,
         (\A u \in Threads : ~Appended(u)') => \A u \in Threads : ~Appended(u)
  PROVE  MemoryIsTail'
<1>1. mem.hash \in Nat /\ minted \in Nat
  BY DEF Sound, Shapes
<1>2. CASE ~Running'
  BY <1>2 DEF MemoryIsTail
<1>3. CASE Running'
  <2>1. anchor' # NoAnchor /\ mem'.hash <= minted'
    BY <1>1, <1>3 DEF Sound, MemoryIsTail
  <2> QED BY <1>3, <2>1 DEF Sound, MemoryIsTail
<1> QED BY <1>2, <1>3

\* A gate whose circuit is broken has only its hash to answer for.
LEMMA BrokenTail ==
  ASSUME Sound, Running, mem'.broken = "yes", mem'.hash = mem.hash, minted' = minted,
         anchor' # NoAnchor
  PROVE  MemoryIsTail'
BY DEF Sound, MemoryIsTail

\* circuit_broken is looked at and the record begins.
LEMMA BeginSound ==
  ASSUME Sound, NEW t \in Threads, NEW size \in Sizes, Begin(t, size) PROVE Sound'
<1> DEFINE r == [pc |-> "lock", size |-> size]
<1>1. /\ th[t] = Idle /\ status = (IF t = "open" THEN "recovering" ELSE "open")
      /\ th' = [th EXCEPT ![t] = r]
      /\ UNCHANGED <<segs, anchor, status, mem, guard, minted, accepted>>
  BY DEF Begin, Become
<1>2. r \in Locking /\ r \notin Framed /\ r.pc = "lock"
  BY DEF Locking, Framed, FramePcs
<1>3. th \in [Threads -> {Idle} \cup Locking \cup Framed]
  BY DEF Sound, Shapes
<1> HIDE DEF r
<1>4. /\ th' \in [Threads -> {Idle} \cup Locking \cup Framed]
      /\ th'[t] = r /\ \A u \in Threads : u # t => th'[u] = th[u]
  BY <1>1, <1>2, <1>3
<1>5. th[t].pc = "idle"
  BY <1>1 DEF Idle
<1>6. Exclusive'
  BY <1>1, <1>2, <1>4, <1>5 DEF Sound, Exclusive
<1>7. AtWork'
  BY <1>1, <1>4 DEF Sound, AtWork
<1>8. InFlight'
  <2>1. \A u \in Threads : th'[u] \in Framed => u # t /\ th'[u] = th[u]
    BY <1>2, <1>4
  <2> QED BY <1>1, <2>1 DEF Sound, InFlight
<1>9. \A u \in Threads : (Appended(u)' <=> Appended(u)) /\ (th'[u].pc = "header" <=> th[u].pc = "header")
  BY <1>2, <1>4, <1>5 DEF Appended
<1>10. Pending'
  <2>1. \A u \in Threads : Appended(u) => Item(u)' = Item(u) /\ th'[u].prev = th[u].prev
    BY <1>4, <1>5 DEF Appended, Item
  <2>2. Last' = Last
    BY <1>1 DEF Last
  <2> QED BY <1>1, <1>9, <2>1, <2>2 DEF Sound, Pending
<1>11. MemoryIsTail'
  <2>1. minted' >= minted /\ minted' \in Nat /\ Running' = Running
    BY <1>1 DEF Sound, Shapes, Running
  <2> QED BY <1>1, <1>9, <2>1, SameTail
<1>12. Opening' /\ Files(segs, anchor, minted, accepted)'
  BY <1>1 DEF Sound, Opening, Last
<1>13. Shapes'
  BY <1>1, <1>4 DEF Sound, Shapes
<1> QED BY <1>6, <1>7, <1>8, <1>10, <1>11, <1>12, <1>13 DEF Sound

\* The frame encoded under the locks, and the locks dropped for a rotation.
LEMMA EncodeSound == ASSUME Sound, NEW t \in Threads, Encode(t) PROVE Sound'
<1> DEFINE rotate == Size(segs[mem.seg]) + th[t].size > MaxSegment
           pc == IF rotate THEN "rotate" ELSE "write"
           r == [pc |-> pc, size |-> th[t].size, seq |-> mem.seq + 1, prev |-> mem.hash,
                 hash |-> minted + 1]
<1>1. /\ th[t].pc = "lock" /\ guard = "free" /\ minted' = minted + 1
      /\ th' = [th EXCEPT ![t] = r] /\ guard' = (IF pc = "write" THEN t ELSE "free")
      /\ UNCHANGED <<segs, anchor, status, mem, accepted>>
  BY DEF Encode, Become
<1> HIDE DEF rotate
<1>2. /\ th \in [Threads -> {Idle} \cup Locking \cup Framed] /\ minted \in Nat /\ mem \in Memories
      /\ accepted \subseteq 1..minted /\ Shapes
  BY DEF Sound, Shapes, Memories
<1>3. th[t].size \in Sizes
  BY <1>1, <1>2, ThreadRecord DEF Locking
<1>4. /\ r \in Framed /\ r.pc = pc /\ r.prev = mem.hash /\ r.seq = mem.seq + 1 /\ r.hash = minted + 1
      /\ pc \in {"rotate", "write"}
  BY <1>2, <1>3 DEF Framed, FramePcs, Memories
<1> HIDE DEF r, pc
<1>5. /\ th' \in [Threads -> {Idle} \cup Locking \cup Framed]
      /\ th'[t] = r /\ \A u \in Threads : u # t => th'[u] = th[u]
  BY <1>1, <1>2, <1>4
<1>6. \A u \in Threads : th[u].pc \notin {"header", "write", "sync", "anchor"}
  BY <1>1, NamedThreads DEF Sound, Exclusive
<1>7. \A u \in Threads : u # t => th'[u].pc \notin {"header", "write", "sync", "anchor"}
  BY <1>5, <1>6
<1>8. Exclusive' /\ guard' \in Threads \cup {"free"}
  BY <1>1, <1>4, <1>5, <1>7, NamedThreads DEF Exclusive
<1>9. Running /\ status = IF t = "open" THEN "recovering" ELSE "open"
  BY <1>1, WorkRuns
<1>10. AtWork'
  BY <1>1, <1>5, <1>9 DEF Sound, AtWork
<1>11. mem.hash <= minted /\ mem.hash \in Nat
  BY <1>2, <1>9 DEF Sound, MemoryIsTail, Memories
<1>12. \A u \in Threads : th[u] \in Framed => /\ th[u].hash \in Nat /\ th[u].prev \in Nat
                                             /\ th[u].hash <= minted /\ th[u].prev <= minted
                                             /\ th[u].hash # mem.hash
  BY DEF Sound, InFlight, Framed
<1>13. InFlight'
  <2> SUFFICES ASSUME NEW u \in Threads, th'[u] \in Framed
               PROVE  /\ th'[u].hash <= minted' /\ th'[u].hash \notin accepted
                      /\ th'[u].hash # mem.hash
                      /\ th'[u].prev <= minted'
                      /\ th'[u].prev = mem.hash => th'[u].seq = mem.seq + 1
                      /\ \A w \in Threads : th'[w] \in Framed =>
                           th'[w].prev # th'[u].hash /\ (w # u => th'[w].hash # th'[u].hash)
    BY <1>1 DEF InFlight
  <2>1. CASE u = t
    <3>1. th'[u] = r /\ minted' = minted + 1
      BY <1>1, <1>5, <2>1
    <3>2. minted + 1 \notin accepted
      BY <1>2
    <3>3. ASSUME NEW w \in Threads, th'[w] \in Framed
          PROVE  th'[w].prev # minted + 1 /\ (w # u => th'[w].hash # minted + 1)
      <4>1. CASE w = t
        BY <1>2, <1>4, <1>5, <1>11, <2>1, <4>1
      <4>2. CASE w # t
        BY <1>2, <1>5, <1>12, <3>3, <4>2
      <4> QED BY <4>1, <4>2
    <3> QED BY <1>2, <1>4, <1>11, <3>1, <3>2, <3>3
  <2>2. CASE u # t
    <3>1. th'[u] = th[u] /\ minted' = minted + 1
      BY <1>1, <1>5, <2>2
    <3>2. th[u].hash <= minted' /\ th[u].prev <= minted'
      BY <1>2, <1>12, <3>1
    <3>3. ASSUME NEW w \in Threads, th'[w] \in Framed
          PROVE  th'[w].prev # th[u].hash /\ (w # u => th'[w].hash # th[u].hash)
      <4>1. CASE w = t
        BY <1>2, <1>4, <1>5, <1>12, <3>1, <4>1
      <4>2. CASE w # t
        BY <1>5, <3>1, <3>3, <4>2 DEF Sound, InFlight
      <4> QED BY <4>1, <4>2
    <3> QED BY <3>1, <3>2, <3>3 DEF Sound, InFlight
  <2> QED BY <2>1, <2>2
<1>14. \A u \in Threads : ~Appended(u) /\ ~Appended(u)' /\ th'[u].pc # "header"
  BY <1>4, <1>5, <1>6, <1>7 DEF Appended
<1>15. Pending'
  BY <1>14 DEF Pending
<1>16. MemoryIsTail'
  <2>1. minted' >= minted /\ minted' \in Nat /\ Running' = Running
    BY <1>1, <1>2 DEF Running
  <2> QED BY <1>1, <1>14, <2>1, SameTail
<1>17. Opening'
  BY <1>1 DEF Sound, Opening, Last
<1>18. Files(segs, anchor, minted, accepted)'
  BY <1>1, <1>2, FilesGrow DEF Sound
<1>19. Shapes'
  <2>1. minted' \in Nat /\ accepted' \subseteq 1..minted'
    BY <1>1, <1>2
  <2> QED BY <1>1, <1>5, <1>8, <2>1 DEF Sound, Shapes
<1> QED BY <1>8, <1>10, <1>13, <1>15, <1>16, <1>17, <1>18, <1>19 DEF Sound

\* A write without a slip, and a rotation without one.
LEMMA NoSlip ==
  ASSUME NEW t \in Threads, mem \in Memories
  PROVE  /\ Slip(t) = {} => th[t].prev = mem.hash /\ mem.broken = "no" /\ mem.seg = Len(segs)
         /\ Slip(t) \ {"stale frame"} = {} => mem.broken = "no" /\ mem.seg = Len(segs)
<1>1. ("circuit broken" \notin Slip(t) => mem.broken = "no")
  BY DEF Slip, Memories
<1>2. "orphan segment" \notin Slip(t) => mem.seg = Len(segs)
  BY DEF Slip
<1>3. "stale frame" \notin Slip(t) => th[t].prev = mem.hash
  BY DEF Slip
<1>4. "circuit broken" # "stale frame" /\ "orphan segment" # "stale frame"
  OBVIOUS
<1> QED BY <1>1, <1>2, <1>3, <1>4

\* rotate_segment as far as the new file.
LEMMA RotateSound ==
  ASSUME Sound, NEW t \in Threads, Rotate(t), slips = {}, slips' = {} PROVE Sound'
<1>1. th[t].pc = "rotate" /\ guard = "free" /\ UNCHANGED <<anchor, minted, accepted>>
  BY DEF Rotate
<1>2. /\ Shapes /\ minted \in Nat /\ mem \in Memories /\ anchor \in Anchors
      /\ Files(segs, anchor, minted, accepted)
  BY DEF Sound, Shapes, Memories, Anchors
<1>3. th[t] \in Framed
  BY <1>1, <1>2, ThreadRecord DEF FramePcs
<1>4. Running /\ th[t] # Idle
  BY <1>1, WorkRuns
<1>5. \A u \in Threads : ~Appended(u)
  BY <1>1, Holder
<1>6. ASSUME NEW broken \in {"yes", "no"}, Fail(t, broken), UNCHANGED segs
      PROVE  Sound'
  <2>1. /\ guard' \in Threads \cup {"free"}
        /\ th' \in [Threads -> {Idle} \cup Locking \cup Framed]
        /\ mem' \in Memories
        /\ status' \in Statuses /\ minted' \in Nat /\ accepted' \subseteq 1..minted'
        /\ Exclusive' /\ AtWork' /\ InFlight' /\ Pending' /\ Opening'
        /\ \A u \in Threads : ~Appended(u)'
        /\ mem'.hash = mem.hash
        /\ broken = "yes" => mem'.broken = "yes"
        /\ broken = "no" => mem' = mem
    BY <1>1, <1>4, <1>6, FailRest DEF Memories
  <2>2. CASE broken = "yes"
    <3>1. anchor' # NoAnchor
      BY <1>1, <1>4 DEF Sound, MemoryIsTail
    <3>2. MemoryIsTail'
      BY <1>1, <1>4, <2>1, <2>2, <3>1, BrokenTail
    <3> QED BY <1>1, <1>2, <1>6, <2>1, <3>2 DEF Sound, Shapes, Memories
  <2>3. CASE broken = "no"
    <3>1. minted' >= minted
      BY <1>1, <1>2
    <3>2. MemoryIsTail'
      BY <1>1, <1>2, <1>4, <1>5, <1>6, <2>1, <2>3, <3>1, SameTail
    <3> QED BY <1>1, <1>2, <1>6, <2>1, <3>2 DEF Sound, Shapes, Memories
  <2> QED BY <2>2, <2>3
<1>7. ASSUME mem.seg = Len(segs),
             segs' = Append(segs, [head |-> Short, items |-> <<>>]),
             slips' = slips \cup (Slip(t) \ {"stale frame"}),
             guard' = t, Become(t, [th[t] EXCEPT !.pc = "header"]), UNCHANGED <<mem, status>>
      PROVE  Sound'
  <2>1. mem.broken = "no"
    <3>1. Slip(t) \ {"stale frame"} = {}
      BY <1>7
    <3> QED BY <1>2, <3>1, NoSlip
  <2>2. /\ segs \in Seq(Segments) /\ Len(segs) \in Nat /\ Len(segs) > 0
        /\ Whole(segs[mem.seg]) /\ anchor # NoAnchor /\ anchor.seg <= mem.seg
        /\ mem.seg \in 1..Len(segs)
        /\ anchor.seg = mem.seg => anchor.seq <= mem.seq
        /\ mem.hash <= minted
        /\ mem.seq + 1 = segs[mem.seg].head.first + ValidLen(segs[mem.seg])
        /\ mem.hash = LastHash(segs[mem.seg])
    BY <1>4, <1>5, <2>1, TailFacts
  <2>3. segs' = Append(segs, BareSegment)
    BY <1>7 DEF BareSegment
  <2>4. Added(segs, BareSegment, segs')
    BY <2>2, <2>3, AppendSegment, BareForm
  <2>5. Files(segs', anchor, minted, accepted)
    BY <1>2, <1>7, <2>2, <2>4, BareAdded
  <2>6. /\ Len(segs') = Len(segs) + 1 /\ segs'[Len(segs')] = BareSegment
        /\ segs'[mem.seg] = segs[mem.seg]
    BY <2>2, <2>4 DEF Added
  <2>7. /\ guard' \in Threads \cup {"free"}
        /\ th' \in [Threads -> {Idle} \cup Locking \cup Framed]
        /\ status' \in Statuses /\ minted' \in Nat /\ accepted' \subseteq 1..minted'
        /\ Exclusive' /\ AtWork' /\ InFlight' /\ Opening'
        /\ th'[t].pc = "header"
        /\ \A u \in Threads : u # t => th'[u].pc \notin {"header", "write", "sync", "anchor"}
    BY <1>1, <1>3, <1>7, MoveRest DEF FramePcs
  <2>8. Pending'
    <3>1. \A u \in Threads : ~Appended(u)'
      BY <2>7 DEF Appended
    <3>2. mem'.broken = "no" /\ mem'.seg + 1 = Len(segs') /\ Bare(Last')
      BY <1>7, <2>1, <2>6 DEF Bare, Last
    <3> QED BY <3>1, <3>2 DEF Pending
  <2>9. MemoryIsTail'
    <3>1. mem'.seg \in 1..Len(segs') /\ mem'.seg >= Len(segs') - 1
      <4> DEFINE L == Len(segs)
      <4>1. L \in Nat /\ L > 0 /\ mem'.seg = L /\ Len(segs') = L + 1
        BY <1>7, <2>2, <2>6
      <4> HIDE DEF L
      <4> QED BY <4>1
    <3> QED BY <1>1, <1>7, <2>2, <2>6, <3>1 DEF MemoryIsTail
  <2> QED BY <1>1, <1>2, <1>7, <2>5, <2>7, <2>8, <2>9 DEF Sound, Shapes, Memories, Anchors
<1>8. \/ \E broken \in {"yes", "no"} : Fail(t, broken) /\ UNCHANGED segs
      \/ Fail(t, "no") /\ UNCHANGED segs
      \/ /\ mem.seg = Len(segs)
         /\ segs' = Append(segs, [head |-> Short, items |-> <<>>])
         /\ slips' = slips \cup (Slip(t) \ {"stale frame"})
         /\ guard' = t /\ Become(t, [th[t] EXCEPT !.pc = "header"])
         /\ UNCHANGED <<mem, status>>
  BY Zenon DEF Rotate
<1> QED BY <1>6, <1>7, <1>8

\* The header of the new file, and the gate in it.
LEMMA RotateHeaderSound ==
  ASSUME Sound, NEW t \in Threads, RotateHeader(t) PROVE Sound'
<1>1. th[t].pc = "header" /\ UNCHANGED <<anchor, minted, accepted>>
  BY DEF RotateHeader
<1>2. \/ /\ segs' = HeaderDone /\ mem' = [mem EXCEPT !.seg = Len(segs)]
         /\ guard' = "free" /\ Become(t, [th[t] EXCEPT !.pc = "relock"]) /\ UNCHANGED status
      \/ Fail(t, "no") /\ segs' \in {segs, HeaderDone}
  BY DEF RotateHeader, HeaderDone
<1>3. /\ Shapes /\ minted \in Nat /\ mem \in Memories /\ anchor \in Anchors
      /\ Files(segs, anchor, minted, accepted)
  BY DEF Sound, Shapes, Memories, Anchors
<1>4. /\ th[t] \in Framed /\ guard = t /\ Running
      /\ mem.broken = "no" /\ mem.seg + 1 = Len(segs)
      /\ Files(HeaderDone, anchor, minted, accepted)
      /\ Len(HeaderDone) = Len(segs) /\ HeaderDone[mem.seg] = segs[mem.seg]
      /\ Whole(HeaderDone[Len(segs)])
      /\ HeaderDone[Len(segs)].head = NextHeader /\ ValidLen(HeaderDone[Len(segs)]) = 0
  BY <1>1, HeaderFacts
<1>5. \A u \in Threads : ~Appended(u)
  BY <1>1, <1>4, Holder DEF Appended
<1>6. /\ Len(segs) \in Nat /\ mem.seg \in 1..Len(segs) /\ Whole(segs[mem.seg])
      /\ anchor # NoAnchor /\ anchor.seg <= mem.seg /\ anchor.seg \in Nat
      /\ anchor.seg = mem.seg => anchor.seq <= mem.seq
      /\ mem.hash <= minted
      /\ mem.seq + 1 = segs[mem.seg].head.first + ValidLen(segs[mem.seg])
      /\ mem.hash = LastHash(segs[mem.seg])
  BY <1>4, <1>5, TailFacts
<1>7. CASE /\ segs' = HeaderDone /\ mem' = [mem EXCEPT !.seg = Len(segs)]
           /\ guard' = "free" /\ Become(t, [th[t] EXCEPT !.pc = "relock"]) /\ UNCHANGED status
  <2>1. /\ mem' \in Memories /\ mem'.seg = Len(segs) /\ mem'.seq = mem.seq
        /\ mem'.hash = mem.hash /\ mem'.broken = "no"
    BY <1>3, <1>4, <1>6, <1>7 DEF Memories
  <2>2. /\ guard' \in Threads \cup {"free"}
        /\ th' \in [Threads -> {Idle} \cup Locking \cup Framed]
        /\ status' \in Statuses /\ minted' \in Nat /\ accepted' \subseteq 1..minted'
        /\ Exclusive' /\ AtWork' /\ InFlight' /\ Opening'
        /\ th'[t].pc = "relock"
        /\ \A u \in Threads : u # t => th'[u].pc \notin {"header", "write", "sync", "anchor"}
    BY <1>1, <1>4, <1>7, <2>1, MoveRest DEF FramePcs
  <2>3. Pending'
    <3>1. \A u \in Threads : ~Appended(u)' /\ th'[u].pc # "header"
      BY <2>2 DEF Appended
    <3> QED BY <3>1 DEF Pending
  <2>4. MemoryIsTail'
    <3>1. mem'.seg \in 1..Len(segs') /\ mem'.seg >= Len(segs') - 1 /\ Len(segs') = Len(segs)
      BY <1>4, <1>6, <1>7, <2>1
    <3>2. anchor.seg < mem'.seg
      BY <1>4, <1>6, <2>1, <1>3 DEF Memories
    <3>3. segs'[mem'.seg].head.first = mem.seq + 1 /\ segs'[mem'.seg].head.prev = mem.hash
      BY <1>4, <1>7, <2>1 DEF NextHeader
    <3>4. mem'.seq + 1 = segs'[mem'.seg].head.first + ValidLen(segs'[mem'.seg])
      BY <1>3, <1>4, <1>7, <2>1, <3>3 DEF Memories
    <3>5. mem'.hash = LastHash(segs'[mem'.seg]) /\ Whole(segs'[mem'.seg])
      BY <1>4, <1>7, <2>1, <3>3 DEF LastHash
    <3>6. /\ anchor'.seg = mem'.seg => anchor'.seq <= mem'.seq
          /\ anchor'.seg <= mem'.seg /\ anchor' # NoAnchor /\ mem'.hash <= minted'
      BY <1>1, <1>6, <2>1, <3>2, <1>3 DEF Memories
    <3> QED BY <3>1, <3>4, <3>5, <3>6 DEF MemoryIsTail
  <2> QED BY <1>1, <1>3, <1>4, <1>7, <2>1, <2>2, <2>3, <2>4 DEF Sound, Shapes, Memories, Anchors
<1>8. CASE Fail(t, "no") /\ segs' \in {segs, HeaderDone}
  <2>1. /\ guard' \in Threads \cup {"free"}
        /\ th' \in [Threads -> {Idle} \cup Locking \cup Framed]
        /\ mem' \in Memories
        /\ status' \in Statuses /\ minted' \in Nat /\ accepted' \subseteq 1..minted'
        /\ Exclusive' /\ AtWork' /\ InFlight' /\ Pending' /\ Opening'
        /\ mem' = mem
    BY <1>1, <1>4, <1>8, WorkRuns, FailRest DEF Memories
  <2>2. Files(segs', anchor, minted, accepted) /\ Len(segs') = Len(segs)
        /\ segs'[mem.seg] = segs[mem.seg]
    BY <1>3, <1>4, <1>8
  <2>3. MemoryIsTail'
    <3>1. mem.seg >= Len(segs) - 1
      BY <1>4, <1>6
    <3> QED BY <1>1, <1>6, <2>1, <2>2, <3>1 DEF MemoryIsTail
  <2> QED BY <1>1, <1>3, <2>1, <2>2, <2>3 DEF Sound, Shapes, Memories, Anchors
<1> QED BY <1>2, <1>7, <1>8

\* The locks taken again after a rotation.
LEMMA RelockSound == ASSUME Sound, NEW t \in Threads, Relock(t) PROVE Sound'
<1>1. /\ th[t].pc = "relock" /\ guard = "free" /\ guard' = t
      /\ Become(t, [th[t] EXCEPT !.pc = "write"])
      /\ UNCHANGED <<segs, anchor, status, mem, minted, accepted>>
  BY DEF Relock
<1>2. /\ Shapes /\ minted \in Nat /\ Files(segs, anchor, minted, accepted)
  BY DEF Sound, Shapes
<1>3. th[t] \in Framed
  BY <1>1, <1>2, ThreadRecord DEF FramePcs
<1>4. /\ guard' \in Threads \cup {"free"}
      /\ th' \in [Threads -> {Idle} \cup Locking \cup Framed]
      /\ status' \in Statuses /\ minted' \in Nat /\ accepted' \subseteq 1..minted'
      /\ Exclusive' /\ AtWork' /\ InFlight' /\ Opening' /\ Running
      /\ th'[t].pc = "write"
      /\ \A u \in Threads : u # t => th'[u].pc \notin {"header", "write", "sync", "anchor"}
  BY <1>1, <1>3, MoveRest DEF FramePcs
<1>5. \A u \in Threads : ~Appended(u)
  BY <1>1, Holder
<1>6. Pending'
  <2>1. \A u \in Threads : ~Appended(u)' /\ th'[u].pc # "header"
    BY <1>4 DEF Appended
  <2> QED BY <2>1 DEF Pending
<1>7. MemoryIsTail'
  <2>1. minted' >= minted
    BY <1>1, <1>2
  <2> QED BY <1>1, <1>4, <1>5, <2>1, SameTail
<1> QED BY <1>1, <1>2, <1>4, <1>6, <1>7 DEF Sound, Shapes

\* The frame written, or an incomplete one, or none.
LEMMA WriteSound ==
  ASSUME Sound, NEW t \in Threads, Write(t), slips = {}, slips' = {} PROVE Sound'
<1> DEFINE s == segs[Len(segs)]
           n == Len(s.items)
<1>1. th[t].pc = "write" /\ UNCHANGED <<anchor, minted, accepted>> /\ Slip(t) = {}
  BY DEF Write
<1>2. \/ /\ segs' = With(Item(t)) /\ Become(t, [th[t] EXCEPT !.pc = "sync"])
         /\ UNCHANGED <<mem, guard, status>>
      \/ Fail(t, "yes") /\ segs' \in {segs, With(Junk)}
  BY Zenon DEF Write
<1>3. /\ Shapes /\ minted \in Nat /\ mem \in Memories /\ anchor \in Anchors
      /\ Files(segs, anchor, minted, accepted)
  BY DEF Sound, Shapes, Memories, Anchors
<1>4. th[t] \in Framed
  BY <1>1, <1>3, ThreadRecord DEF FramePcs
<1>5. guard = t /\ Running /\ th[t] # Idle
  BY <1>1, WorkRuns DEF Sound, Exclusive
<1>6. th[t].prev = mem.hash /\ mem.broken = "no" /\ mem.seg = Len(segs)
  BY <1>1, <1>3, NoSlip
<1>7. \A u \in Threads : ~Appended(u)
  BY <1>1, <1>5, Holder DEF Appended
<1>8. /\ segs \in Seq(Segments) /\ Len(segs) \in Nat /\ Len(segs) > 0
      /\ s \in Segments /\ Whole(s) /\ ValidLen(s) = n /\ n \in Nat
      /\ anchor # NoAnchor /\ anchor.seg <= mem.seg
      /\ anchor.seg = mem.seg => anchor.seq <= mem.seq
      /\ mem.hash <= minted
      /\ mem.seq + 1 = s.head.first + ValidLen(s) /\ mem.hash = LastHash(s)
  BY <1>5, <1>6, <1>7, TailFacts
<1>9. th[t].seq = mem.seq + 1 /\ th[t].hash <= minted
  BY <1>4, <1>6 DEF Sound, InFlight
<1>10. Item(t) \in Frames /\ Item(t).seq = th[t].seq /\ Item(t).prev = th[t].prev
       /\ Item(t).hash = th[t].hash
  BY <1>4 DEF Item, Frames, Framed
<1>11. CASE /\ segs' = With(Item(t)) /\ Become(t, [th[t] EXCEPT !.pc = "sync"])
            /\ UNCHANGED <<mem, guard, status>>
  <2> DEFINE f == Item(t)
             r == [s EXCEPT !.items = Append(@, f)]
  <2>1. segs' = [segs EXCEPT ![Len(segs)] = r]
    BY <1>6, <1>11 DEF With
  <2>2. Extended(s, f, r)
    BY <1>8, <1>10, WrittenItems
  <2> HIDE DEF r, f
  <2>3. r \in Segments
    BY <2>2 DEF Extended
  <2>4. Replaced(segs, r, segs')
    <3> HIDE DEF s
    <3> QED BY <1>8, <2>1, <2>3, ExceptLast
  <2>5. f \in Frames /\ f.seq = s.head.first + ValidLen(s) /\ f.prev = LastHash(s) /\ f.hash <= minted
    BY <1>6, <1>8, <1>9, <1>10 DEF f
  <2>6. /\ Files(segs', anchor, minted, accepted) /\ Whole(r) /\ Len(r.items) > 0
        /\ r.items[Len(r.items)] = f
    <3>1. s = segs[Len(segs)]
      OBVIOUS
    <3> HIDE DEF s, n
    <3> QED BY <1>3, <1>8, <2>2, <2>4, <2>5, <3>1, ExtendFiles DEF Anchors
  <2>7. Len(segs') = Len(segs) /\ segs'[Len(segs)] = r
    BY <2>4 DEF Replaced
  <2>8. /\ guard' \in Threads \cup {"free"}
        /\ th' \in [Threads -> {Idle} \cup Locking \cup Framed]
        /\ status' \in Statuses /\ minted' \in Nat /\ accepted' \subseteq 1..minted'
        /\ Exclusive' /\ AtWork' /\ InFlight' /\ Opening'
        /\ th'[t].pc = "sync" /\ Item(t)' = Item(t) /\ th'[t].prev = th[t].prev
        /\ \A u \in Threads : u # t => th'[u].pc \notin {"header", "write", "sync", "anchor"}
    BY <1>1, <1>4, <1>5, <1>11, MoveRest DEF FramePcs
  <2>9. Pending'
    <3>1. \A u \in Threads : th'[u].pc # "header" /\ (Appended(u)' => u = t)
      BY <2>8 DEF Appended
    <3>2. Last' = r
      BY <2>7 DEF Last
    <3>3. mem'.broken = "no" /\ mem'.seg = Len(segs') /\ th'[t].prev = mem'.hash
      BY <1>6, <1>11, <2>7, <2>8
    <3>4. Len(Last'.items) > 0 /\ Last'.items[Len(Last'.items)] = Item(t)'
      BY <2>6, <2>8, <3>2 DEF f
    <3> QED BY <3>1, <3>3, <3>4 DEF Pending
  <2>10. Appended(t)'
    BY <2>8 DEF Appended
  <2>11. MemoryIsTail'
    <3>1. mem.seg \in 1..Len(segs') /\ mem.seg >= Len(segs') - 1
      BY <1>6, <1>8, <2>7
    <3>2. segs'[mem.seg] = r
      BY <1>6, <2>7
    <3> QED BY <1>1, <1>8, <1>11, <2>6, <2>10, <3>1, <3>2 DEF MemoryIsTail
  <2> QED BY <1>1, <1>3, <1>11, <2>6, <2>8, <2>9, <2>11 DEF Sound, Shapes, Memories, Anchors
<1>12. CASE Fail(t, "yes") /\ segs' \in {segs, With(Junk)}
  <2>1. /\ guard' \in Threads \cup {"free"}
        /\ th' \in [Threads -> {Idle} \cup Locking \cup Framed]
        /\ mem' \in Memories
        /\ status' \in Statuses /\ minted' \in Nat /\ accepted' \subseteq 1..minted'
        /\ Exclusive' /\ AtWork' /\ InFlight' /\ Pending' /\ Opening'
        /\ mem'.hash = mem.hash /\ mem'.broken = "yes"
    BY <1>1, <1>5, <1>12, FailRest DEF Memories
  <2>2. Files(With(Junk), anchor, minted, accepted)
    <3> DEFINE r == [s EXCEPT !.items = Append(@, Junk)]
               new == With(Junk)
    <3>1. new = [segs EXCEPT ![Len(segs)] = r]
      BY <1>6 DEF With
    <3>2. Kept(s, r, n)
      BY <1>8, WrittenItems
    <3>3. s = segs[Len(segs)] /\ s.head # Short
      BY <1>8 DEF Whole
    <3> HIDE DEF r, new, s, n
    <3>4. r \in Segments
      BY <3>2 DEF Kept
    <3>5. Replaced(segs, r, new)
      BY <1>8, <3>1, <3>4, ExceptLast
    <3>6. \A k \in n + 1..ValidLen(s) : FALSE
      BY <1>8
    <3>7. anchor # NoAnchor /\ anchor.seg = Len(segs) => anchor.seq < s.head.first + n
      BY <1>3, <1>8, <3>3 DEF Files, Attests
    <3>8. Files(new, anchor, minted, accepted)
      BY <1>3, <1>8, <3>2, <3>3, <3>5, <3>6, <3>7, ShortenFiles
    <3> QED BY <3>8 DEF new
  <2>3. MemoryIsTail'
    BY <1>1, <1>5, <1>8, <2>1, BrokenTail
  <2> QED BY <1>1, <1>3, <1>12, <2>1, <2>2, <2>3 DEF Sound, Shapes, Memories, Anchors
<1> QED BY <1>2, <1>11, <1>12

\* The frame synced, or undone as far as that succeeds.
LEMMA SyncSound == ASSUME Sound, NEW t \in Threads, Sync(t) PROVE Sound'
<1>1. th[t].pc = "sync" /\ UNCHANGED <<anchor, minted, accepted>>
  BY DEF Sync
<1>2. \/ Become(t, [th[t] EXCEPT !.pc = "anchor"]) /\ UNCHANGED <<segs, mem, guard, status>>
      \/ Fail(t, "yes") /\ segs' \in {segs, LastReplaced(<<>>), LastReplaced(<<Junk>>)}
  BY Zenon DEF Sync
<1>3. /\ Shapes /\ minted \in Nat /\ mem \in Memories /\ anchor \in Anchors
      /\ Files(segs, anchor, minted, accepted)
  BY DEF Sound, Shapes, Memories, Anchors
<1>4. Appended(t)
  BY <1>1 DEF Appended
<1>5. /\ th[t] \in Framed /\ guard = t /\ Running
      /\ Files(LastReplaced(<<>>), anchor, minted, accepted)
      /\ Files(LastReplaced(<<Junk>>), anchor, minted, accepted)
  BY <1>4, AppendedFacts
<1>6. anchor # NoAnchor
  BY <1>5 DEF Sound, MemoryIsTail
<1>7. CASE Become(t, [th[t] EXCEPT !.pc = "anchor"]) /\ UNCHANGED <<segs, mem, guard, status>>
  <2>1. /\ guard' \in Threads \cup {"free"}
        /\ th' \in [Threads -> {Idle} \cup Locking \cup Framed]
        /\ status' \in Statuses /\ minted' \in Nat /\ accepted' \subseteq 1..minted'
        /\ Exclusive' /\ AtWork' /\ InFlight' /\ Opening'
        /\ th'[t].pc = "anchor" /\ Item(t)' = Item(t) /\ th'[t].prev = th[t].prev
        /\ \A u \in Threads : u # t => th'[u].pc \notin {"header", "write", "sync", "anchor"}
    BY <1>1, <1>5, <1>7, MoveRest DEF FramePcs
  <2>2. Appended(t)' /\ \A u \in Threads : th'[u].pc # "header" /\ (Appended(u)' => u = t)
    BY <2>1 DEF Appended
  <2>3. Last' = Last
    BY <1>7 DEF Last
  <2>4. Pending'
    BY <1>4, <1>7, <2>1, <2>2, <2>3 DEF Sound, Pending
  <2>5. MemoryIsTail'
    <3>1. minted' >= minted
      BY <1>1, <1>3
    <3> QED BY <1>1, <1>5, <1>7, <2>1, <2>2, <3>1, SameTail
  <2> QED BY <1>1, <1>3, <1>7, <2>1, <2>4, <2>5 DEF Sound, Shapes, Memories, Anchors
<1>8. CASE Fail(t, "yes") /\ segs' \in {segs, LastReplaced(<<>>), LastReplaced(<<Junk>>)}
  <2>1. /\ guard' \in Threads \cup {"free"}
        /\ th' \in [Threads -> {Idle} \cup Locking \cup Framed]
        /\ mem' \in Memories
        /\ status' \in Statuses /\ minted' \in Nat /\ accepted' \subseteq 1..minted'
        /\ Exclusive' /\ AtWork' /\ InFlight' /\ Pending' /\ Opening'
        /\ mem'.hash = mem.hash /\ mem'.broken = "yes"
    BY <1>1, <1>5, <1>8, WorkRuns, FailRest DEF Memories
  <2>2. MemoryIsTail'
    BY <1>1, <1>5, <1>6, <2>1, BrokenTail
  <2>3. Files(segs', anchor, minted, accepted)
    BY <1>3, <1>5, <1>8
  <2> QED BY <1>1, <1>3, <2>1, <2>2, <2>3 DEF Sound, Shapes, Memories, Anchors
<1> QED BY <1>2, <1>7, <1>8

\* The anchor written, the memory moved on, the caller told.
LEMMA WriteAnchorSound == ASSUME Sound, NEW t \in Threads, WriteAnchor(t) PROVE Sound'
<1>1. th[t].pc = "anchor" /\ segs' = segs /\ minted' = minted
  BY DEF WriteAnchor
<1>2. \/ /\ anchor' = NewAnchor(t)
         /\ mem' = [mem EXCEPT !.seq = th[t].seq, !.hash = th[t].hash]
         /\ accepted' = accepted \cup {th[t].hash}
         /\ Become(t, Idle) /\ guard' = "free"
         /\ status' = IF t = "open" THEN "open" ELSE status
      \/ Fail(t, "yes") /\ anchor' \in {anchor, NewAnchor(t)} /\ UNCHANGED accepted
  BY Zenon DEF WriteAnchor
<1>3. /\ Shapes /\ minted \in Nat /\ mem \in Memories /\ anchor \in Anchors
      /\ accepted \subseteq 1..minted
      /\ Files(segs, anchor, minted, accepted)
  BY DEF Sound, Shapes, Memories, Anchors
<1>4. Appended(t)
  BY <1>1 DEF Appended
<1>5. /\ th[t] \in Framed /\ guard = t /\ Running /\ mem.broken = "no"
      /\ mem.seg = Len(segs) /\ Whole(Last) /\ Last \in Segments
      /\ th[t].seq + 1 = Last.head.first + ValidLen(Last)
      /\ th[t].hash = LastHash(Last)
      /\ Attests(segs, NewAnchor(t)) /\ NewAnchor(t) \in [seg : Nat \ {0}, seq : Nat]
      /\ Holds(segs, th[t].hash)
  BY <1>4, AppendedFacts
<1>6. NewAnchor(t) # NoAnchor /\ anchor # NoAnchor
  BY <1>5 DEF NoAnchor, Sound, MemoryIsTail
<1>7. Files(segs, NewAnchor(t), minted, accepted)
  BY <1>3, <1>5, <1>6, FilesGrow
<1>8. CASE /\ anchor' = NewAnchor(t)
           /\ mem' = [mem EXCEPT !.seq = th[t].seq, !.hash = th[t].hash]
           /\ accepted' = accepted \cup {th[t].hash}
           /\ Become(t, Idle) /\ guard' = "free"
           /\ status' = IF t = "open" THEN "open" ELSE status
  <2>1. Files(segs', anchor', minted', accepted')
    BY <1>1, <1>3, <1>5, <1>7, <1>8, FilesGrow
  <2>2. /\ mem' \in Memories /\ mem'.seq = th[t].seq /\ mem'.hash = th[t].hash
        /\ mem'.seg = Len(segs) /\ mem'.broken = "no"
    BY <1>3, <1>5, <1>8 DEF Memories, Framed
  <2>3. th \in [Threads -> {Idle} \cup Locking \cup Framed]
    BY DEF Sound, Shapes
  <2>4. /\ th' \in [Threads -> {Idle} \cup Locking \cup Framed]
        /\ th'[t] = Idle /\ \A u \in Threads : u # t => th'[u] = th[u]
    BY <1>8, <2>3 DEF Become
  <2>5. \A u \in Threads : u # t => th[u].pc \notin {"header", "write", "sync", "anchor"}
    BY <1>5 DEF Sound, Exclusive
  <2>6. \A u \in Threads : th'[u].pc \notin {"header", "write", "sync", "anchor"}
    BY <2>4, <2>5 DEF Idle
  <2>7. Exclusive' /\ Pending' /\ \A u \in Threads : ~Appended(u)'
    BY <1>8, <2>6, NamedThreads DEF Exclusive, Pending, Appended
  <2>8. status = (IF t = "open" THEN "recovering" ELSE "open") /\ status' = "open"
    BY <1>1, <1>8, WorkRuns
  <2>9. AtWork' /\ status' \in Statuses /\ Opening'
    <3>1. \A u \in Threads : th'[u] # Idle => u # t /\ th[u] # Idle
      BY <2>4
    <3>2. \A u \in Threads : th[u] # Idle => status = IF u = "open" THEN "recovering" ELSE "open"
      BY DEF Sound, AtWork
    <3>3. AtWork'
      BY <2>8, <3>1, <3>2 DEF AtWork
    <3> QED BY <2>8, <3>3 DEF Statuses, Opening
  <2>10. th[t].hash \in 1..minted
    BY <1>3, <1>5 DEF Sound, InFlight, Framed
  <2>11. accepted' \subseteq 1..minted'
    BY <1>1, <1>3, <1>8, <2>10
  <2>12. InFlight'
    <3>1. \A u \in Threads : th'[u] \in Framed => u # t /\ th'[u] = th[u] /\ th[u] \in Framed
      BY <2>4 DEF Framed, FramePcs, Idle
    <3>2. \A u \in Threads : th[u] \in Framed /\ u # t =>
             /\ th[u].hash # th[t].hash /\ th[u].prev # th[t].hash
             /\ th[u].hash <= minted /\ th[u].prev <= minted /\ th[u].hash \notin accepted
      BY <1>5 DEF Sound, InFlight
    <3>3. \A u, w \in Threads : th[u] \in Framed /\ th[w] \in Framed =>
             th[w].prev # th[u].hash /\ (w # u => th[w].hash # th[u].hash)
      BY DEF Sound, InFlight
    <3> QED BY <1>1, <1>8, <2>2, <3>1, <3>2, <3>3 DEF InFlight
  <2>13. MemoryIsTail'
    <3>1. Len(segs) \in Nat /\ Len(segs) > 0
      BY <1>5, TailFacts
    <3>2. Last' = Last /\ segs'[mem'.seg] = Last
      BY <1>1, <2>2 DEF Last
    <3>3. mem'.seg \in 1..Len(segs') /\ mem'.seg >= Len(segs') - 1
      BY <1>1, <2>2, <3>1
    <3>4. anchor'.seg = mem'.seg /\ anchor'.seq = mem'.seq /\ anchor' # NoAnchor
      BY <1>5, <1>6, <1>8, <2>2 DEF NewAnchor
    <3>5. mem'.hash <= minted' /\ mem'.seg \in Nat /\ mem'.seq \in Nat
      BY <1>1, <1>3, <2>2, <2>10 DEF Memories
    <3> QED BY <1>5, <2>2, <3>2, <3>3, <3>4, <3>5 DEF MemoryIsTail
  <2> QED BY <1>1, <1>3, <1>5, <1>8, <2>1, <2>2, <2>4, <2>7, <2>9, <2>11, <2>12, <2>13
          DEF Sound, Shapes, Memories, Anchors
<1>9. CASE Fail(t, "yes") /\ anchor' \in {anchor, NewAnchor(t)} /\ UNCHANGED accepted
  <2>1. /\ guard' \in Threads \cup {"free"}
        /\ th' \in [Threads -> {Idle} \cup Locking \cup Framed]
        /\ mem' \in Memories
        /\ status' \in Statuses /\ minted' \in Nat /\ accepted' \subseteq 1..minted'
        /\ Exclusive' /\ AtWork' /\ InFlight' /\ Pending' /\ Opening'
        /\ mem'.hash = mem.hash /\ mem'.broken = "yes"
    BY <1>1, <1>5, <1>9, WorkRuns, FailRest DEF Memories
  <2>2. MemoryIsTail'
    BY <1>1, <1>5, <1>6, <1>9, <2>1, BrokenTail
  <2>3. Files(segs', anchor', minted', accepted') /\ anchor' \in Anchors
    BY <1>1, <1>3, <1>5, <1>7, <1>9 DEF Anchors
  <2> QED BY <2>1, <2>2, <2>3 DEF Sound, Shapes, Memories, Anchors
<1> QED BY <1>2, <1>8, <1>9

\* The daemon dies.
LEMMA CrashSound == ASSUME Sound, Crash PROVE Sound'
<1>1. /\ segs' \in SegsAfterCrash
      /\ anchor' \in {anchor} \cup {NewAnchor(t) : t \in {u \in Threads : th[u].pc = "anchor"}}
      /\ status' = "closed" /\ mem' = Fresh /\ guard' = "free" /\ th' = [t \in Threads |-> Idle]
      /\ UNCHANGED <<minted, accepted>>
  BY DEF Crash
<1>2. /\ minted \in Nat /\ anchor \in Anchors /\ accepted \subseteq 1..minted
      /\ Files(segs, anchor, minted, accepted)
  BY DEF Sound, Shapes, Anchors
<1>3. Quiet' /\ Opening' /\ ~Running' /\ status' \in Statuses
  BY <1>1 DEF Quiet, Opening, Running, Statuses
<1>4. mem' \in Memories
  BY <1>1 DEF Fresh, Memories
<1>5. Files(segs', anchor', minted, accepted) /\ anchor' \in Anchors
  <2>1. CASE status = "creating"
    <3>1. segs = <<BareSegment>> /\ segs' \in {<<>>, segs, FirstSegment}
      BY <1>1, <2>1 DEF SegsAfterCrash, Sound, Opening
    <3>2. anchor = NoAnchor /\ accepted = {}
      BY <3>1, NothingYet
    <3>3. \A u \in Threads : th[u].pc # "anchor"
      BY <2>1, QuietUnlessRunning DEF Running, Quiet, Idle
    <3>4. anchor' = anchor
      BY <1>1, <3>3
    <3> QED BY <1>2, <3>1, <3>2, <3>4, FirstFiles
  <2>2. CASE status # "creating" /\ \E t \in Threads : th[t].pc = "header"
    <3>1. PICK t \in Threads : th[t].pc = "header"
      BY <2>2
    <3>2. guard = t
      BY <3>1, HeaderFacts
    <3>3. \A u \in Threads : th[u].pc # "anchor" /\ th[u].pc # "sync"
      BY <3>1, <3>2, Holder DEF Appended
    <3>4. segs' \in {segs, SubSeq(segs, 1, Len(segs) - 1), HeaderDone}
      BY <1>1, <2>2, <3>3, Zenon DEF SegsAfterCrash, HeaderDone
    <3>5. anchor' = anchor
      BY <1>1, <3>3
    <3> QED BY <1>2, <3>1, <3>4, <3>5, HeaderFacts
  <2>3. CASE /\ status # "creating" /\ ~\E t \in Threads : th[t].pc = "header"
             /\ \E t \in Threads : th[t].pc = "sync"
    <3>1. PICK t \in Threads : th[t].pc = "sync"
      BY <2>3
    <3>2. segs' \in {segs, LastReplaced(<<>>), LastReplaced(<<Junk>>)}
      BY <1>1, <2>3, Zenon DEF SegsAfterCrash
    <3>3. Appended(t)
      BY <3>1 DEF Appended
    <3>4. guard = t
      BY <3>3, AppendedFacts
    <3>5. \A u \in Threads : th[u].pc # "anchor"
      BY <3>1, <3>4, Holder DEF Appended
    <3>6. anchor' = anchor
      BY <1>1, <3>5
    <3> QED BY <1>2, <3>2, <3>3, <3>6, AppendedFacts
  <2>4. CASE /\ status # "creating" /\ ~\E t \in Threads : th[t].pc = "header"
             /\ ~\E t \in Threads : th[t].pc = "sync"
    <3>1. segs' = segs
      BY <1>1, <2>4 DEF SegsAfterCrash
    <3>2. CASE anchor' = anchor
      BY <1>2, <3>1, <3>2
    <3>3. CASE anchor' # anchor
      <4>1. PICK t \in Threads : th[t].pc = "anchor" /\ anchor' = NewAnchor(t)
        BY <1>1, <3>3
      <4>2. Attests(segs, NewAnchor(t)) /\ NewAnchor(t) \in [seg : Nat \ {0}, seq : Nat]
        BY <4>1, AppendedFacts DEF Appended
      <4>3. NewAnchor(t) # NoAnchor
        BY <4>2 DEF NoAnchor
      <4> QED BY <1>2, <3>1, <4>1, <4>2, <4>3, FilesGrow DEF Anchors
    <3> QED BY <3>2, <3>3
  <2> QED BY <2>1, <2>2, <2>3, <2>4
<1> QED BY <1>1, <1>2, <1>3, <1>4, <1>5, QuietSound DEF Memories, Anchors

-----------------------------------------------------------------------------
(* The invariant, and what follows from it *)

\* The empty directory is sound.
LEMMA InitSound == ASSUME Init PROVE Sound
<1>1. /\ segs = <<>> /\ anchor = NoAnchor /\ status = "closed" /\ mem = Fresh /\ guard = "free"
      /\ th = [t \in Threads |-> Idle] /\ minted = 0 /\ accepted = {}
  BY DEF Init
<1>2. Files(segs, anchor, minted, accepted)
  BY <1>1, FirstFiles
<1>3. \A t \in Threads : th[t] = Idle /\ th[t].pc = "idle" /\ th[t] \notin Framed
  BY <1>1 DEF Idle, Framed, FramePcs
<1>4. Exclusive /\ AtWork /\ InFlight /\ Pending
  BY <1>1, <1>3, NamedThreads DEF Exclusive, AtWork, InFlight, Pending, Appended
<1>5. MemoryIsTail /\ Opening
  BY <1>1 DEF MemoryIsTail, Opening, Running
<1>6. Shapes
  BY <1>1 DEF Shapes, Statuses, Fresh
<1> QED BY <1>2, <1>4, <1>5, <1>6 DEF Sound

\* Every step keeps it, as long as none makes a wrong write.
LEMMA StepSound == ASSUME IInv, [Next]_vars PROVE IInv'
<1> SUFFICES ASSUME slips' = {} PROVE Sound'
  BY DEF IInv
<1>1. CASE UNCHANGED vars
  <2>1. Sound
    BY <1>1 DEF IInv, vars
  <2>2. UNCHANGED <<segs, anchor, status, mem, guard, th, minted, accepted>>
    BY <1>1 DEF vars
  <2>3. Last' = Last /\ Running' = Running
    BY <2>2 DEF Last, Running
  <2>4. \A t \in Threads : Appended(t)' = Appended(t) /\ Item(t)' = Item(t)
    BY <2>2 DEF Appended, Item
  <2>5. Shapes' /\ Exclusive' /\ AtWork' /\ InFlight' /\ Files(segs, anchor, minted, accepted)'
    BY <2>1, <2>2 DEF Sound, Shapes, Exclusive, AtWork, InFlight
  <2>6. MemoryIsTail'
    BY <2>1, <2>2, <2>3, <2>4 DEF Sound, MemoryIsTail
  <2>7. Pending' /\ Opening'
    BY <2>1, <2>2, <2>3, <2>4 DEF Sound, Pending, Opening
  <2> QED BY <2>5, <2>6, <2>7 DEF Sound
<1>2. CASE OpenEmpty
  BY <1>2, OpenEmptySound DEF IInv, OpenEmpty
<1>3. CASE OpenExisting
  BY <1>3, OpenExistingSound DEF IInv, OpenExisting
<1>4. CASE CreateInitial
  BY <1>4, CreateInitialSound DEF IInv, CreateInitial
<1>5. CASE Repair
  <2>1. slips' = slips
    BY <1>5, Zenon DEF Repair, RepairTo
  <2> QED BY <1>5, <2>1, RepairSound DEF IInv
<1>6. CASE \E t \in Threads : RecordStep(t)
  <2>1. PICK t \in Threads : RecordStep(t)
    BY <1>6
  <2>2. CASE \E size \in Sizes : Begin(t, size)
    BY <2>2, BeginSound DEF IInv, Begin
  <2>3. CASE Encode(t)
    <3>1. slips' = slips
      BY <2>3 DEF Encode
    <3> QED BY <2>3, <3>1, EncodeSound DEF IInv
  <2>4. CASE Rotate(t)
    <3>1. slips = {}
      BY <2>4 DEF Rotate
    <3> QED BY <2>4, <3>1, RotateSound DEF IInv
  <2>5. CASE RotateHeader(t)
    <3>1. slips' = slips
      BY <2>5, Zenon DEF RotateHeader
    <3> QED BY <2>5, <3>1, RotateHeaderSound DEF IInv
  <2>6. CASE Relock(t)
    BY <2>6, RelockSound DEF IInv, Relock
  <2>7. CASE Write(t)
    <3>1. slips = {}
      BY <2>7 DEF Write
    <3> QED BY <2>7, <3>1, WriteSound DEF IInv
  <2>8. CASE Sync(t)
    <3>1. slips' = slips
      BY <2>8 DEF Sync
    <3> QED BY <2>8, <3>1, SyncSound DEF IInv
  <2>9. CASE WriteAnchor(t)
    <3>1. slips' = slips
      BY <2>9 DEF WriteAnchor
    <3> QED BY <2>9, <3>1, WriteAnchorSound DEF IInv
  <2> QED BY <2>1, <2>2, <2>3, <2>4, <2>5, <2>6, <2>7, <2>8, <2>9 DEF RecordStep
<1>7. CASE Crash
  <2>1. slips' = slips
    BY <1>7 DEF Crash
  <2> QED BY <1>7, <2>1, CrashSound DEF IInv
<1> QED BY <1>1, <1>2, <1>3, <1>4, <1>5, <1>6, <1>7 DEF Next

\* The invariant says of the files what the properties ask.
LEMMA SoundTrail == ASSUME IInv PROVE TrailKept /\ ReopensUnlessTorn
<1>1. CASE slips # {}
  BY <1>1 DEF TrailKept, AcceptedKept, ChainNumbered, AnchorAttests, ReopensUnlessTorn
<1>2. CASE slips = {}
  <2>1. Sound
    BY <1>2 DEF IInv
  <2>2. Files(segs, anchor, minted, accepted) /\ segs \in Seq(Segments)
    BY <2>1 DEF Sound, Files
  <2>3. DOMAIN segs = 1..Len(segs)
    BY <2>2
  <2>4. AcceptedKept
    BY <2>2, <2>3 DEF AcceptedKept, InChain, Files, Holds
  <2>5. ChainNumbered
    BY <2>2 DEF ChainNumbered, Files, Linked
  <2>6. AnchorAttests
    <3>1. Attests(segs, anchor)
      BY <2>2 DEF Files
    <3> QED BY <2>2, <3>1 DEF AnchorAttests, Attests
  <2>7. ReopensUnlessTorn
    BY <2>1, <2>3 DEF ReopensUnlessTorn, Sound, Opening
  <2> QED BY <2>4, <2>5, <2>6, <2>7 DEF TrailKept
<1> QED BY <1>1, <1>2

\* Over any number of threads, segments, failing calls and crashes: a record
\* whose caller was told Ok stays in the verified chain, the numbers run on
\* across the segments, and the anchor attests no more than the files hold
\* (AuditGate::record, rotate_segment and open_internal), as long as the gate has
\* made none of the three wrong writes.
THEOREM TrailIsKept == Spec => []TrailKept
<1>1. Init => IInv
  BY InitSound DEF IInv
<1>2. IInv /\ [Next]_vars => IInv'
  BY StepSound
<1>3. IInv => TrailKept
  BY SoundTrail
<1> QED BY <1>1, <1>2, <1>3, PTL DEF Spec

\* The gate refuses its own files only where a crash or a failure has left a
\* segment without its header: whatever else was cut short, initialize_or_verify
\* takes the files and repairs them.
THEOREM OpensUnlessTorn == Spec => []ReopensUnlessTorn
<1>1. Init => IInv
  BY InitSound DEF IInv
<1>2. IInv /\ [Next]_vars => IInv'
  BY StepSound
<1>3. IInv => ReopensUnlessTorn
  BY SoundTrail
<1> QED BY <1>1, <1>2, <1>3, PTL DEF Spec
=============================================================================
