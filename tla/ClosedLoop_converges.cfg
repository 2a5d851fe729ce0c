SPECIFICATION LoopSpec
CONSTANTS
    c1 = c1
    c2 = c2
    EcoflowSeq <- OneConverter
    MarstekSeq <- NoConverter
    Watts <- PowersSeen
    Readings <- MeterRange
    Files <- NormalFile
    Edits <- NoEdit
    StartBlock = 1
    InboxCap = 1
    DefaultBase = 1
    DefaultUpper = 3
    Rate = 2
    Loads <- House
    Avails <- SunAndBattery
    Disturbances <- Uncontrolled
INVARIANT
    RequestKnown
PROPERTIES
    Converges
    ControlRegained
    StaysBalanced
    DecisionsImprove
