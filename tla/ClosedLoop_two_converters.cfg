SPECIFICATION LoopSpec
CONSTANTS
    c1 = c1
    c2 = c2
    EcoflowSeq <- TwoConverters
    MarstekSeq <- NoConverter
    Watts <- AppWatts
    Readings <- WideRange
    Files <- NormalFile
    Edits <- NoEdit
    StartBlock = 1
    InboxCap = 2
    DefaultBase = 1
    DefaultUpper = 3
    Rate = 2
    Loads <- House
    Avails <- Plenty
    Disturbances <- PlantOnly
INVARIANT
    OverallIsSet
