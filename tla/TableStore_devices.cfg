SPECIFICATION Spec
CONSTANTS
    http = http
    callback = callback
    marstek1 = marstek1
    marstek2 = marstek2
    Writers <- MarstekPairs
    Role <- RoleOf
    Table <- TableOf
    Present <- Started
    Shapes <- NestingShape
    Disturbances <- OnlyShape
INVARIANT
    LostOnlyToRace
PROPERTY
    StoresAgain
