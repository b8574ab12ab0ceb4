----------------------------- MODULE LfsSegUsage -----------------------------
(***************************************************************************)
(* The segment usage array of the Sprite log-structured file system       *)
(* (src/CVSROOT/kernel/lfs/lfsSegUsage.c).                                 *)
(*                                                                         *)
(* Each segment has an entry with its live byte count, the flags          *)
(* LFS_SEG_USAGE_CLEAN and LFS_SEG_USAGE_DIRTY and two link indices that  *)
(* thread it on the clean or the dirty list.  The checkpoint record cp    *)
(* holds both lists' head and tail (links[NEXT] is the head,              *)
(* links[PREV] the tail), the counters, the dirty level and the current   *)
(* segment.  A usage state is a record [a |-> array, cp |-> checkpoint,   *)
(* bad |-> panic or wild index]; every procedure of the file is an        *)
(* operator from usage state to usage state, so an action is the whole    *)
(* call, including the list and counter updates it makes.                 *)
(*                                                                         *)
(* The segment writer, the cleaner and file truncation call these         *)
(* procedures from code outside this file; their calls are the actions.   *)
(***************************************************************************)
EXTENDS Integers, Sequences, FiniteSets

LOCAL INSTANCE SequencesExt

CONSTANTS
    NumSegments,    \* usagePtr->params.numberSegments
    SegmentSize,    \* usagePtr->params.segmentSize, in bytes
    BlockSize,      \* superBlock.hdr.blockSize, in bytes
    DirtyLevels,    \* values LfsSetDirtyLevel is called with
    MaxSegsToClean  \* maxSegArrayLen of LfsGetSegsToClean

ASSUME /\ NumSegments \in Nat /\ NumSegments > 0
       /\ BlockSize \in Nat /\ BlockSize > 0
       /\ SegmentSize \in Nat /\ SegmentSize > 0
       /\ SegmentSize % BlockSize = 0
       /\ DirtyLevels \subseteq 0..SegmentSize

\* Segment numbers, and NIL (-1) for an empty link.
Segs == 0..NumSegments - 1
NIL == -1

\* lfsCleanRangeLow (lfsSegUsage.c line 451).
CleanRangeLow == 0

\* LfsBytesToBlocks: bytes to whole blocks, rounding down.
BytesToBlocks(b) == b \div BlockSize

VARIABLES
    usage,      \* the in-memory usage state: [a, cp, bad]
    disk        \* the usage state of the last checkpoint on disk

vars == <<usage, disk>>

Links == [next : Segs \cup {NIL}, prev : Segs \cup {NIL}]

Entry == [active : Int, flags : SUBSET {"CLEAN", "DIRTY"},
          next : Segs \cup {NIL}, prev : Segs \cup {NIL}]

CheckPoint == [clean : Links, dirty : Links, numClean : Int, numDirty : Int,
               freeBlocks : Int, dirtyActiveBytes : Int,
               currentSegment : Segs \cup {NIL}]

TypeOK ==
    /\ usage \in [a : [Segs -> Entry], cp : CheckPoint, bad : BOOLEAN]
    /\ \A i \in Segs : usage.a[i].active \in 0..SegmentSize
    /\ usage.cp.numClean \in 0..NumSegments
    /\ usage.cp.numDirty \in 0..NumSegments
    /\ disk \in [a : [Segs -> Entry], cp : CheckPoint, bad : BOOLEAN]

\* A freshly made file system: segment 0 is the log head, written full,
\* and the others are clean, on the clean list in order.
Fresh(level) ==
    [a  |-> [i \in Segs |->
               IF i = 0
               THEN [active |-> SegmentSize, flags |-> {}, next |-> NIL, prev |-> NIL]
               ELSE [active |-> 0, flags |-> {"CLEAN"},
                     next |-> IF i = NumSegments - 1 THEN NIL ELSE i + 1,
                     prev |-> IF i = 1 THEN NIL ELSE i - 1]],
     cp |-> [clean |-> IF NumSegments = 1 THEN [next |-> NIL, prev |-> NIL]
                      ELSE [next |-> 1, prev |-> NumSegments - 1],
             dirty |-> [next |-> NIL, prev |-> NIL],
             numClean |-> NumSegments - 1, numDirty |-> 0,
             freeBlocks |-> BytesToBlocks((NumSegments - 1) * SegmentSize),
             dirtyActiveBytes |-> level, currentSegment |-> 0],
     bad |-> FALSE]

Init ==
    /\ usage \in {Fresh(d) : d \in DirtyLevels}
    /\ disk = usage

-----------------------------------------------------------------------------
(* The two lists.  L is "clean" or "dirty": cp.cleanLinks or              *)
(* cp.dirtyLinks, with next the head and prev the tail.                   *)

\* Variant that, removing the tail, leaves the header's tail unchanged.
RemoveFromListKeepTail(U, L, seg) ==
    LET lk   == U.cp[L]
        prev == U.a[seg].prev
        next == U.a[seg].next
    IN  IF seg = lk.next
        THEN [U EXCEPT
                !.cp[L] = [next |-> next,
                           prev |-> IF next # NIL THEN lk.prev ELSE NIL],
                !.a = IF next # NIL THEN [U.a EXCEPT ![next].prev = NIL]
                                    ELSE U.a]
        ELSE IF prev = NIL \/ (seg # lk.prev /\ next = NIL)
        THEN [U EXCEPT !.bad = TRUE]
        ELSE IF seg # lk.prev
        THEN [U EXCEPT !.a = [U.a EXCEPT ![prev].next = next,
                                         ![next].prev = prev]]
        ELSE [U EXCEPT !.a[prev].next = next]

\* RemoveFromList: unlink seg from list L.  The head is unlinked through
\* the list header; any other entry through its neighbours, and the kernel
\* panics (bad) when they do not match a well formed list.  The removed
\* entry keeps its stale links.
RemoveFromList(U, L, seg) ==
    LET lk   == U.cp[L]
        prev == U.a[seg].prev
        next == U.a[seg].next
    IN  IF seg = lk.next
        THEN [U EXCEPT
                !.cp[L] = [next |-> next,
                           prev |-> IF next # NIL THEN lk.prev ELSE NIL],
                !.a = IF next # NIL THEN [U.a EXCEPT ![next].prev = NIL]
                                    ELSE U.a]
        ELSE IF prev = NIL \/ (seg # lk.prev /\ next = NIL)
        THEN [U EXCEPT !.bad = TRUE]
        ELSE IF seg # lk.prev
        THEN [U EXCEPT !.a = [U.a EXCEPT ![prev].next = next,
                                         ![next].prev = prev]]
        ELSE [U EXCEPT !.a[prev].next = next, !.cp[L].prev = prev]

\* Variant that links seg in at the head of list L.
AddToListAtHead(U, L, seg) ==
    LET head == U.cp[L].next
        a1   == [U.a EXCEPT ![seg].next = head, ![seg].prev = NIL]
    IN  [U EXCEPT
           !.a = IF head = NIL THEN a1 ELSE [a1 EXCEPT ![head].prev = seg],
           !.cp[L] = [next |-> seg,
                      prev |-> IF head = NIL THEN seg ELSE U.cp[L].prev]]

\* AddToList: append seg at the tail of list L.
AddToList(U, L, seg) ==
    LET tail == U.cp[L].prev
        a1   == [U.a EXCEPT ![seg].next = NIL, ![seg].prev = tail]
    IN  [U EXCEPT
           !.a = IF tail = NIL THEN a1 ELSE [a1 EXCEPT ![tail].next = seg],
           !.cp[L] = [next |-> IF tail = NIL THEN seg ELSE U.cp[L].next,
                      prev |-> seg]]

\* Take seg off list L with its flag F and counter C, or put it on.
Unlist(U, L, F, C, seg) ==
    [RemoveFromList(U, L, seg) EXCEPT !.a[seg].flags = @ \ {F},
                                      !.cp[C] = @ - 1]
Enlist(U, L, F, C, seg) ==
    [AddToList(U, L, seg) EXCEPT !.a[seg].flags = @ \cup {F},
                                 !.cp[C] = @ + 1]

-----------------------------------------------------------------------------
(* LfsSetSegUsage(lfsPtr, seg, activeBytes).                              *)

\* Variant of the clean path that does not decrement numDirty.
MarkCleanNoCount(U, seg) ==
    LET z  == [U EXCEPT !.a[seg].active = 0]
        u1 == [z EXCEPT !.cp.freeBlocks =
                          @ + BytesToBlocks(z.a[seg].active + BlockSize \div 2)]
        u2 == IF "DIRTY" \in u1.a[seg].flags
              THEN [RemoveFromList(u1, "dirty", seg)
                      EXCEPT !.a[seg].flags = @ \ {"DIRTY"}]
              ELSE u1
    IN  IF "CLEAN" \in u2.a[seg].flags THEN u2
        ELSE Enlist(u2, "clean", "CLEAN", "numClean", seg)

\* activeBytes == 0: the segment is marked clean.  activeBytes is stored
\* first, so the freeBlocks credit is computed from the stored 0, not from
\* the bytes the segment held.  Then it leaves the dirty list and joins
\* the clean list unless it is on it already.
MarkClean(U, seg) ==
    LET z  == [U EXCEPT !.a[seg].active = 0]
        u1 == [z EXCEPT !.cp.freeBlocks =
                          @ + BytesToBlocks(z.a[seg].active + BlockSize \div 2)]
        u2 == IF "DIRTY" \in u1.a[seg].flags
              THEN Unlist(u1, "dirty", "DIRTY", "numDirty", seg)
              ELSE u1
    IN  IF "CLEAN" \in u2.a[seg].flags THEN u2
        ELSE Enlist(u2, "clean", "CLEAN", "numClean", seg)

\* The new active byte count: a negative argument is a decrement, floored
\* at 1 so that only an explicit 0 makes a segment clean.
NewActive(old, n) ==
    LET v == IF n < 0 THEN (IF old + n <= 0 THEN 1 ELSE old + n) ELSE n
    IN  IF v <= 0 THEN 1 ELSE v

\* freeBlocks moves by the change in active bytes, rounded to blocks.
Credit(fb, change) ==
    IF change < 0 THEN fb - BytesToBlocks(-change + BlockSize \div 2)
                  ELSE fb + BytesToBlocks(change + BlockSize \div 2)

\* Variant that stores the argument rather than the resolved count.
SetActiveStoresArgument(U, seg, n) ==
    LET v  == NewActive(U.a[seg].active, n)
        u1 == [U EXCEPT !.cp.freeBlocks = Credit(@, U.a[seg].active - v)]
    IN  [u1 EXCEPT !.a[seg].active = n]

\* Variant without the floor at 1.
SetActiveNoFloor(U, seg, n) ==
    LET v  == IF n < 0 THEN U.a[seg].active + n ELSE n
        u1 == [U EXCEPT !.cp.freeBlocks = Credit(@, U.a[seg].active - v)]
        u2 == IF "CLEAN" \in u1.a[seg].flags
              THEN Unlist(u1, "clean", "CLEAN", "numClean", seg) ELSE u1
    IN  IF v <= u2.cp.dirtyActiveBytes
        THEN IF "DIRTY" \in u2.a[seg].flags THEN [u2 EXCEPT !.a[seg].active = v]
             ELSE [Enlist(u2, "dirty", "DIRTY", "numDirty", seg)
                     EXCEPT !.a[seg].active = v]
        ELSE [IF "DIRTY" \in u2.a[seg].flags
              THEN Unlist(u2, "dirty", "DIRTY", "numDirty", seg) ELSE u2
                EXCEPT !.a[seg].active = v]

\* Variant that classifies with < instead of <= dirtyActiveBytes.
SetActiveStrict(U, seg, n) ==
    LET v  == NewActive(U.a[seg].active, n)
        u1 == [U EXCEPT !.cp.freeBlocks = Credit(@, U.a[seg].active - v)]
        u2 == IF "CLEAN" \in u1.a[seg].flags
              THEN Unlist(u1, "clean", "CLEAN", "numClean", seg) ELSE u1
    IN  IF v < u2.cp.dirtyActiveBytes
        THEN IF "DIRTY" \in u2.a[seg].flags THEN [u2 EXCEPT !.a[seg].active = v]
             ELSE [Enlist(u2, "dirty", "DIRTY", "numDirty", seg)
                     EXCEPT !.a[seg].active = v]
        ELSE [IF "DIRTY" \in u2.a[seg].flags
              THEN Unlist(u2, "dirty", "DIRTY", "numDirty", seg) ELSE u2
                EXCEPT !.a[seg].active = v]

\* activeBytes != 0: credit or debit freeBlocks by the change, take the
\* segment off the clean list, then put it on the dirty list if it is at
\* or below dirtyActiveBytes, or off the dirty list (full) if above.
SetActive(U, seg, n) ==
    LET v  == NewActive(U.a[seg].active, n)
        u1 == [U EXCEPT !.cp.freeBlocks = Credit(@, U.a[seg].active - v)]
        u2 == IF "CLEAN" \in u1.a[seg].flags
              THEN Unlist(u1, "clean", "CLEAN", "numClean", seg) ELSE u1
    IN  IF v <= u2.cp.dirtyActiveBytes
        THEN IF "DIRTY" \in u2.a[seg].flags THEN [u2 EXCEPT !.a[seg].active = v]
             ELSE [Enlist(u2, "dirty", "DIRTY", "numDirty", seg)
                     EXCEPT !.a[seg].active = v]
        ELSE [IF "DIRTY" \in u2.a[seg].flags
              THEN Unlist(u2, "dirty", "DIRTY", "numDirty", seg) ELSE u2
                EXCEPT !.a[seg].active = v]

LfsSetSegUsage(U, seg, n) ==
    IF n = 0 THEN MarkClean(U, seg) ELSE SetActive(U, seg, n)

-----------------------------------------------------------------------------
(* The other procedures of lfsSegUsage.c, on a usage state.               *)

\* The segment numbers in order, as the for loops visit them.
SegOrder == [k \in 1..NumSegments |-> k - 1]

\* LfsSegUsageFreeBlocks: each non-NIL disk address loses blockSize live
\* bytes in its segment.  A block address is abstracted to its segment.
LfsSegUsageFreeBlocks(U, addrs) ==
    FoldLeft(LAMBDA u, x : IF x # NIL THEN LfsSetSegUsage(u, x, -BlockSize)
                                      ELSE u,
             U, addrs)

\* LfsSetDirtyLevel: store the level, then every segment at or below it
\* that is on neither list is reclassified by LfsSetSegUsage with its own
\* active byte count.  Segments already dirty stay dirty.
LfsSetDirtyLevel(U, d) ==
    FoldLeft(LAMBDA u, i :
               IF /\ u.a[i].active <= d
                  /\ u.a[i].flags \cap {"DIRTY", "CLEAN"} = {}
               THEN LfsSetSegUsage(u, i, u.a[i].active)
               ELSE u,
             [U EXCEPT !.cp.dirtyActiveBytes = d], SegOrder)

\* LfsGetCleanSeg: the head of the clean list becomes the current segment
\* and is marked full with segmentSize.  An empty list yields NIL (-1),
\* which the code then uses as an array index.
LfsGetCleanSeg(U) ==
    LET cur == U.cp.clean.next
    IN  IF cur = NIL
        THEN [U EXCEPT !.cp.currentSegment = NIL, !.bad = TRUE]
        ELSE LfsSetSegUsage([U EXCEPT !.cp.currentSegment = cur], cur,
                            SegmentSize)

\* LfsGetSegsToClean: walk the dirty list from its head and collect up to
\* max segments holding more than lfsCleanRangeLow live bytes.  The fuel
\* argument stops the walk on a cyclic list, where the kernel would loop.
RECURSIVE SegsToClean(_, _, _, _)
SegsToClean(U, seg, max, fuel) ==
    IF max = 0 \/ seg = NIL \/ fuel = 0 THEN <<>>
    ELSE IF CleanRangeLow < U.a[seg].active
         THEN <<seg>> \o SegsToClean(U, U.a[seg].next, max - 1, fuel - 1)
         ELSE SegsToClean(U, U.a[seg].next, max, fuel - 1)

LfsGetSegsToClean(U, max) ==
    SegsToClean(U, U.cp.dirty.next, max, NumSegments)

-----------------------------------------------------------------------------
(* Actions: the calls made on the usage array by the segment writer, the *)
(* cleaner, file deletion and the checkpoint code.                        *)

\* Block address arrays of one or two entries over the segments and NIL.
AddrArrays == {<<x>> : x \in Segs \cup {NIL}}
                \cup {<<x, y>> : x, y \in Segs \cup {NIL}}

\* A file's blocks are freed (truncation, deletion, overwrite): every
\* non-NIL address lies in a segment holding live data.
FreeBlocks(addrs) ==
    /\ \A k \in DOMAIN addrs :
          addrs[k] # NIL => "CLEAN" \notin usage.a[addrs[k]].flags
    /\ usage' = LfsSegUsageFreeBlocks(usage, addrs)
    /\ UNCHANGED disk

\* The segment writer needs a new segment to write.
GetCleanSeg ==
    /\ usage' = LfsGetCleanSeg(usage)
    /\ UNCHANGED disk

\* The cleaner takes a segment LfsGetSegsToClean returned, rewrites its
\* live blocks elsewhere and marks it clean with LfsSetSegUsage(seg, 0).
CleanSegment(seg) ==
    /\ seg \in ToSet(LfsGetSegsToClean(usage, MaxSegsToClean))
    /\ usage' = LfsSetSegUsage(usage, seg, 0)
    /\ UNCHANGED disk

\* The dirty level is changed.
SetDirtyLevel(d) ==
    /\ usage' = LfsSetDirtyLevel(usage, d)
    /\ UNCHANGED disk

\* SegUsageCheckpoint: the whole array and the checkpoint record are
\* written to the log; SegUsageWriteDone completes it.
Checkpoint ==
    /\ disk' = usage
    /\ UNCHANGED usage

\* The machine crashes (or panics) and SegUsageAttach loads the checkpoint
\* record and the array of the last checkpoint.
CrashAttach ==
    /\ usage' = disk
    /\ UNCHANGED disk

Next ==
    \/ \E addrs \in AddrArrays : ~usage.bad /\ FreeBlocks(addrs)
    \/ ~usage.bad /\ GetCleanSeg
    \/ \E seg \in Segs : ~usage.bad /\ CleanSegment(seg)
    \/ \E d \in DirtyLevels : ~usage.bad /\ SetDirtyLevel(d)
    \/ ~usage.bad /\ Checkpoint
    \/ CrashAttach

Spec == Init /\ [][Next]_vars

-----------------------------------------------------------------------------
(* Properties.                                                            *)

\* The segments flagged F.
Flagged(F) == {i \in Segs : F \in usage.a[i].flags}

\* The entries met walking list L from its head along next links, at most
\* NumSegments + 1 of them so that a cycle shows as an overlong walk.
RECURSIVE WalkOf(_, _, _)
WalkOf(U, seg, fuel) ==
    IF seg = NIL \/ fuel = 0 THEN <<>>
    ELSE <<seg>> \o WalkOf(U, U.a[seg].next, fuel - 1)

\* spec.md section 3 (b): an entry is on exactly the list its flag names.
\* The walk of the clean and of the dirty list from the header meets each
\* flagged segment once and nothing else, every prev link mirrors the
\* next link before it, and the header's tail is the last entry.
\* RemoveFromList and AddToList edit four links in two places; a cleaned,
\* reused or reclassified segment moves between the lists many times.
ListWellFormed(L, F) ==
    LET w == WalkOf(usage, usage.cp[L].next, NumSegments + 1)
    IN  /\ Len(w) = Cardinality(Flagged(F))
        /\ ToSet(w) = Flagged(F)
        /\ usage.cp[L].prev = IF w = <<>> THEN NIL ELSE w[Len(w)]
        /\ \A k \in 1..Len(w) :
              usage.a[w[k]].prev = IF k = 1 THEN NIL ELSE w[k - 1]

ListsWellFormed ==
    ListWellFormed("clean", "CLEAN") /\ ListWellFormed("dirty", "DIRTY")

\* spec.md section 4.4: numClean and numDirty, kept by hand in every
\* branch of LfsSetSegUsage, count the clean and the dirty segments.
CountersMatch ==
    /\ usage.cp.numClean = Cardinality(Flagged("CLEAN"))
    /\ usage.cp.numDirty = Cardinality(Flagged("DIRTY"))

\* spec.md section 3 (a) and (c): no segment is both clean and dirty, and
\* a segment is clean exactly when it holds no live bytes: relative
\* decrements by LfsSegUsageFreeBlocks never reach 0.
CleanIffEmpty ==
    \A i \in Segs :
        /\ {"CLEAN", "DIRTY"} \notin {usage.a[i].flags}
        /\ ("CLEAN" \in usage.a[i].flags <=> usage.a[i].active = 0)

\* spec.md section 3 (d): a segment with live bytes at or below the dirty
\* level is on the dirty list, whether it got there by freed blocks or by
\* LfsSetDirtyLevel raising the level.
BelowThresholdIsDirty ==
    \A i \in Segs :
        0 < usage.a[i].active /\ usage.a[i].active <= usage.cp.dirtyActiveBytes
            => "DIRTY" \in usage.a[i].flags

\* spec.md section 8 scenario 5: marking a segment clean with
\* LfsSetSegUsage(seg, 0) adds the blocks it held to freeBlocks.
CleanCreditsFreeBlocks ==
    [][\A i \in Segs :
         ("CLEAN" \notin usage.a[i].flags /\ "CLEAN" \in usage'.a[i].flags
          /\ ~usage'.bad)
           => usage'.cp.freeBlocks
                = usage.cp.freeBlocks
                  + BytesToBlocks(usage.a[i].active + BlockSize \div 2)]_vars

\* The clean list of a usage state, oldest first.
CleanQueue(U) == WalkOf(U, U.cp.clean.next, NumSegments + 1)

CF == INSTANCE CleanFifo WITH Items <- Segs,
                              q <- CleanQueue(usage),
                              saved <- CleanQueue(disk)

\* spec.md section 4.4: the clean list is a queue.  LfsSetSegUsage(seg, 0)
\* appends a cleaned segment (AddToList), LfsGetCleanSeg hands out the
\* head, no other call takes a segment out of the middle, a checkpoint
\* saves the list and SegUsageAttach restores it: the usage array
\* implements CleanFifo under the mapping CF.
CleanListIsFifo == CF!Spec

=============================================================================
