SPECIFICATION Spec
CONSTANTS
    Patience = 2
    CloseIfStuck = TRUE
    MaxSent = 4
    MaxWire = 3
INVARIANTS
    TypeOK
    InOrder
    StuckWhenSilent
PROPERTIES
    ConnectEnds
    MessagesTaken
    LostLinkEnds
    KeptAlive
