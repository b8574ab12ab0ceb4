------------------------------ MODULE MigEncap ------------------------------
(***************************************************************************)
(* The buffer that carries a process's file state to the target of a      *)
(* migration (src/CVSROOT/kernel/fs/fsTopMigrate.c).                      *)
(*                                                                         *)
(* Three routines agree on its layout without sharing code:               *)
(* Fs_InitiateMigration computes its size, Fs_EncapFileState fills it on  *)
(* the origin, and the process migration code sends that many bytes to   *)
(* the target, where Fs_DeencapFileState reads them by advancing a        *)
(* pointer field by field.  The layout:                                   *)
(*   numGroups, the group IDs, filePermissions, numStreams (ints);        *)
(*   the per-stream flag bytes, padded by Byte_AlignAddr;                 *)
(*   the prefix length, the prefix and its NUL, padded by Byte_AlignAddr; *)
(*   the cwd's FsMigInfo;                                                  *)
(*   for every stream slot, its index and FsMigInfo, or NIL and zeros.    *)
(*                                                                         *)
(* A byte of the buffer is <<v, k>>: byte k of the value v, so that a     *)
(* value read at the wrong offset or with the wrong width reads wrong.    *)
(* The contents of an FsMigInfo (Fs_EncapStream's copy of the stream) are *)
(* abstracted to one value per stream; StreamMigration models what        *)
(* Fs_DeencapStream then does with it.                                    *)
(***************************************************************************)
EXTENDS Integers, Sequences, SequencesExt

CONSTANTS
    IntSize,        \* sizeof(int)
    MigInfoSize,    \* sizeof(FsMigInfo) = Fs_GetEncapSize()
    AlignTo,        \* the granularity Byte_AlignAddr rounds up to
    GroupIDs,       \* group IDs a process may hold
    Perms,          \* file permission masks
    FlagVals,       \* per-stream flag bytes
    PrefixChars,    \* characters of a prefix name
    MigInfos,       \* encapsulated streams (FsMigInfo contents)
    NoSlot,         \* an empty slot of streamList (NIL)
    Pad,            \* a byte the code never writes (malloc'd, not cleared)
    Zero,           \* a byte bzero clears
    NUL,            \* the string terminator
    MaxGroups, MaxStreams, MaxPrefix   \* bounds on the inputs

ASSUME /\ IntSize \in Nat \ {0}
       /\ MigInfoSize \in Nat \ {0}
       /\ AlignTo \in Nat \ {0}

\* Byte_AlignAddr: round a byte count up to the alignment.
Byte_AlignAddr(n) == ((n + AlignTo - 1) \div AlignTo) * AlignTo

\* The index Fs_EncapFileState writes for an empty slot.
NilIndex == -1

\* A process's Fs_ProcessState as far as migration carries it.
FileStates ==
    UNION {[groups : BoundedSeq(GroupIDs, MaxGroups), perms : Perms,
            flags : [1..n -> FlagVals], streams : [1..n -> MigInfos \cup {NoSlot}],
            prefix : BoundedSeq(PrefixChars, MaxPrefix), cwd : MigInfos] :
           n \in 0..MaxStreams}

-----------------------------------------------------------------------------
(* Bytes.                                                                 *)

\* Byte_FillBuffer / bcopy of an n-byte value.
Bytes(v, n) == [k \in 1..n |-> <<v, k>>]

\* One byte per character.
Chars(s) == [k \in 1..Len(s) |-> <<s[k], 1>>]

Fill(b, n) == [k \in 1..n |-> <<b, 0>>]

\* The byte at position i; past the end of the buffer it is unwritten.
Cell(buf, i) == IF i \in 1..Len(buf) THEN buf[i] ELSE <<Pad, 0>>

\* Byte_EmptyBuffer / bcopy out of an n-byte value at position i; bytes
\* that are not bytes 1..n of one value read as garbage (Pad).
ReadBytes(buf, i, n) ==
    LET v == Cell(buf, i)[1]
    IN  IF \A k \in 1..n : Cell(buf, i + k - 1) = <<v, k>> THEN v ELSE Pad

ReadInt(buf, i) == LET v == ReadBytes(buf, i, IntSize)
                   IN  IF v \in Int THEN v ELSE -99

-----------------------------------------------------------------------------
(* The three routines.                                                    *)

\* Variant of Fs_InitiateMigration that sizes the cwd name without its NUL.
InitiateMigrationSizeNoNul(fs) ==
    LET numStreams == Len(fs.streams)
    IN  (4 + Len(fs.groups)) * IntSize + Byte_AlignAddr(numStreams)
          + numStreams * (MigInfoSize + IntSize) + MigInfoSize
          + Byte_AlignAddr(Len(fs.prefix))

\* Fs_InitiateMigration: infoPtr->size for the file state fs.
InitiateMigrationSize(fs) ==
    LET numStreams == Len(fs.streams)
        cwdLength == Byte_AlignAddr(Len(fs.prefix) + 1)
        streamFlagsLen == Byte_AlignAddr(numStreams)
    IN  (4 + Len(fs.groups)) * IntSize + streamFlagsLen
          + numStreams * (MigInfoSize + IntSize) + MigInfoSize + cwdLength

\* Fs_EncapFileState: the bytes written from ptr on.  Fs_EncapStream fills
\* an FsMigInfo; an empty slot gets NIL and a cleared FsMigInfo.
FsEncap(fs) ==
    LET numStreams == Len(fs.streams)
        cwdLength == Byte_AlignAddr(Len(fs.prefix) + 1)
        Slot(i) == IF fs.streams[i] # NoSlot
                   THEN Bytes(i - 1, IntSize) \o Bytes(fs.streams[i], MigInfoSize)
                   ELSE Bytes(NilIndex, IntSize) \o Fill(Zero, MigInfoSize)
    IN  Bytes(Len(fs.groups), IntSize)
        \o FlattenSeq([i \in 1..Len(fs.groups) |-> Bytes(fs.groups[i], IntSize)])
        \o Bytes(fs.perms, IntSize)
        \o Bytes(numStreams, IntSize)
        \o (IF numStreams > 0
            THEN Chars(fs.flags) \o Fill(Pad, Byte_AlignAddr(numStreams) - numStreams)
            ELSE <<>>)
        \o Bytes(Len(fs.prefix), IntSize)
        \o Chars(fs.prefix) \o <<<<NUL, 1>>>>
        \o Fill(Pad, cwdLength - Len(fs.prefix) - 1)
        \o Bytes(fs.cwd, MigInfoSize)
        \o FlattenSeq([i \in 1..numStreams |-> Slot(i)])

\* Variant of the flags step of Fs_DeencapFileState that skips the flag
\* bytes without the padding.
DeencapFlagsLenUnaligned(numStreams) ==
    IF numStreams > 0 THEN numStreams ELSE 0

\* Fs_DeencapFileState's step past the flag bytes: only when there are
\* streams, and by the aligned length.
DeencapFlagsLen(numStreams) ==
    IF numStreams > 0 THEN Byte_AlignAddr(numStreams) ELSE 0

\* Fs_DeencapFileState: the file state read from buf.  The cwd name is
\* what Fs_Open sees, the characters up to the first NUL.  Each slot's
\* FsMigInfo goes to streamList[index]; a later slot with the same index
\* overwrites an earlier one.
FsDeencap(buf) ==
    LET numGroups == ReadInt(buf, 1)
        atPerms == 1 + IntSize + (IF numGroups > 0 THEN numGroups * IntSize ELSE 0)
        numStreams == ReadInt(buf, atPerms + IntSize)
        atFlags == atPerms + 2 * IntSize
        atCwd == atFlags + DeencapFlagsLen(numStreams)
        cwdLength == ReadInt(buf, atCwd)
        atName == atCwd + IntSize
        nameLen == SelectInSeq([k \in 1..Len(buf) - atName + 1 |-> Cell(buf, atName + k - 1)],
                               LAMBDA b : b = <<NUL, 1>>) - 1
        atMigInfo == atName + Byte_AlignAddr(cwdLength + 1)
        AtSlot(i) == atMigInfo + MigInfoSize + (i - 1) * (IntSize + MigInfoSize)
        Index(i) == ReadInt(buf, AtSlot(i))
        Filled(j) == {i \in 1..numStreams : Index(i) = j - 1}
    IN  [groups |-> [k \in 1..numGroups |-> ReadInt(buf, 1 + k * IntSize)],
         perms |-> ReadInt(buf, atPerms),
         flags |-> [k \in 1..numStreams |-> Cell(buf, atFlags + k - 1)[1]],
         streams |-> [j \in 1..numStreams |->
                        IF Filled(j) = {} THEN NoSlot
                        ELSE ReadBytes(buf, AtSlot(Max(Filled(j))) + IntSize, MigInfoSize)],
         prefix |-> [k \in 1..nameLen |-> Cell(buf, atName + k - 1)[1]],
         cwd |-> ReadBytes(buf, atMigInfo, MigInfoSize)]

-----------------------------------------------------------------------------
(* One migration of a process's file state: the origin sizes the buffer  *)
(* and fills it, the target reads the infoPtr->size bytes it was sent.   *)

VARIABLES
    fsState,    \* the origin process's Fs_ProcessState
    phase,      \* "running", "initiated", "sent" or "arrived" (at the target)
    size,       \* infoPtr->size
    buffer,     \* the bytes Fs_EncapFileState wrote
    received    \* the Fs_ProcessState Fs_DeencapFileState built

encapVars == <<fsState, phase, size, buffer, received>>

\* What a byte of the buffer can be part of.
ByteValues == Int \cup GroupIDs \cup Perms \cup FlagVals \cup PrefixChars
              \cup MigInfos \cup {Pad, Zero, NUL}

TypeOK ==
    /\ fsState \in FileStates
    /\ phase \in {"running", "initiated", "sent", "arrived"}
    /\ size \in Nat
    /\ buffer \in Seq(ByteValues \X Nat)
    /\ received \in FileStates

\* The first n bytes of buf, as the process migration code copies them.
Transfer(buf, n) == [k \in 1..n |-> Cell(buf, k)]

EncapInit ==
    /\ fsState \in FileStates
    /\ phase = "running"
    /\ size = 0
    /\ buffer = <<>>
    /\ received = fsState

\* Fs_InitiateMigration on the origin.
InitiateMigration ==
    /\ phase = "running"
    /\ size' = InitiateMigrationSize(fsState)
    /\ phase' = "initiated"
    /\ UNCHANGED <<fsState, buffer, received>>

\* Fs_EncapFileState into the buffer allocated from infoPtr->size.
EncapFileState ==
    /\ phase = "initiated"
    /\ buffer' = FsEncap(fsState)
    /\ phase' = "sent"
    /\ UNCHANGED <<fsState, size, received>>

\* Fs_DeencapFileState on the target, over the bytes that were sent.
DeencapFileState ==
    /\ phase = "sent"
    /\ received' = FsDeencap(Transfer(buffer, size))
    /\ phase' = "arrived"
    /\ UNCHANGED <<fsState, size, buffer>>

\* The process resumes on the target with the file state it was given,
\* and may migrate again from there.
Resume ==
    /\ phase = "arrived"
    /\ fsState' = received
    /\ phase' = "running"
    /\ size' = 0
    /\ buffer' = <<>>
    /\ UNCHANGED received

EncapNext == InitiateMigration \/ EncapFileState \/ DeencapFileState \/ Resume

EncapSpec == EncapInit /\ [][EncapNext]_encapVars

-----------------------------------------------------------------------------
(* Properties.                                                            *)

\* Fs_EncapFileState writes exactly the infoPtr->size bytes that
\* Fs_InitiateMigration computed: more would run past the buffer the
\* process migration code allocated from that size, fewer would send
\* bytes nobody wrote.
EncapSizeExact ==
    phase \in {"sent", "arrived"} => Len(buffer) = size

\* The file state Fs_DeencapFileState builds from the bytes it was sent is
\* the one the origin had: the groups, permissions, per-stream flags, the
\* cwd prefix Fs_Open gets, the cwd's FsMigInfo and every stream in its
\* own slot (spec.md 4.3, process-level encapsulation).
EncapRoundTrip ==
    phase = "arrived" => received = fsState

=============================================================================
