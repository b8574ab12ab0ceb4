CONSTANTS
    NumSegments <- MCNumSegments
    SegmentSize <- MCSegmentSize
    BlockSize <- MCBlockSize
    DirtyLevels <- MCDirtyLevels
    MaxSegsToClean <- MCMaxSegsToClean
SPECIFICATION Spec
CONSTRAINT StateConstraint
CONSTRAINT FreshDisk
INVARIANTS
    TypeOK
    ListsWellFormed
    CountersMatch
    CleanIffEmpty
    BelowThresholdIsDirty
PROPERTY
    CleanListIsFifo
