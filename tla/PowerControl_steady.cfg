SPECIFICATION Spec
CONSTANTS
    c1 = c1
    c2 = c2
    m1 = m1
    EcoflowSeq <- OneConverter
    MarstekSeq <- OneMarstek
    Watts <- FewWatts
    Readings <- FewReadings
    Files <- AnyLimits
    Edits <- NoEdit
    StartBlock = 1
    InboxCap = 2
    DefaultBase = 1
    DefaultUpper = 3
INVARIANTS
    TypeOK
    DecidesOnAnswers
    BlockedOnlyLowers
    AnnouncedIsSent
    RefinementInvariant
PROPERTY
    Regulates
