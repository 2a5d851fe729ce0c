SPECIFICATION Spec
CONSTANTS
    Mappings <- Orders
    Values <- AllValues
    Contents <- AllContents
INVARIANTS
    TypeOK
    EventIsReading
    EndsOnMismatch
