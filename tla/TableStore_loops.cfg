SPECIFICATION Spec
CONSTANTS
    http = http
    callback = callback
    marstek1 = marstek1
    marstek2 = marstek2
    Writers <- EcoflowWriters
    Role <- RoleOf
    Table <- TableOf
    Present <- Started
    Shapes <- GrowingShape
    Disturbances <- Every
INVARIANTS
    TypeOK
    CheckedTableExists
    LostOnlyToRace
PROPERTIES
    TablesCome
    StoresAgain
