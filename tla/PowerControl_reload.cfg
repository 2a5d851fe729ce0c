SPECIFICATION Spec
CONSTANTS
    c1 = c1
    c2 = c2
    m1 = m1
    EcoflowSeq <- OneConverter
    MarstekSeq <- NoConverter
    Watts <- TwoWatts
    Readings <- ImportOrExport
    Files <- ShortWaitFile
    Edits <- ReloadEdits
    StartBlock = 1
    InboxCap = 1
    DefaultBase = 1
    DefaultUpper = 3
INVARIANTS
    WithinLimitsInForce
    LimitInvariant
