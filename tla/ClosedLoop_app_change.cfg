SPECIFICATION LoopSpec
CONSTANTS
    c1 = c1
    c2 = c2
    EcoflowSeq <- OneConverter
    MarstekSeq <- NoConverter
    Watts <- AppWatts
    Readings <- MeterRange
    Files <- NormalFile
    Edits <- NoEdit
    StartBlock = 1
    InboxCap = 2
    DefaultBase = 1
    DefaultUpper = 3
    Rate = 2
    Loads <- LowLoad
    Avails <- SunAndBattery
    Disturbances <- AppAndPoll
PROPERTY
    UpdatedIfNeeded
