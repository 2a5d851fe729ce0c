SPECIFICATION Spec
CONSTANTS
    c1 = c1
    c2 = c2
    marstek1 = marstek1
    marstek2 = marstek2
    MarstekDevices <- TwoMarsteks
    Setups <- AnySetup
    ConverterSeq <- TwoConverters
    MaxTries = 2
    Room = 1
    Entries = 1
INVARIANTS
    TypeOK
    NoConverterForgotten
PROPERTIES
    StartEnds
    SignalEndsProcess
    MapsSettle
