CONSTANTS
    fr = fr
    fw = fw
    ch = ch
    e1 = e1
    e2 = e2
    IntSize = 4
    MigInfoSize = 8
    AlignTo = 4
    GroupIDs = {7}
    Perms = {5}
    FlagVals = {fr, fw}
    PrefixChars = {ch}
    MigInfos = {e1, e2}
    NoSlot = NoSlot
    Pad = Pad
    Zero = Zero
    NUL = NUL
    MaxGroups = 2
    MaxStreams = 3
    MaxPrefix = 3
SPECIFICATION EncapSpec
INVARIANTS
    TypeOK
    EncapSizeExact
    EncapRoundTrip
