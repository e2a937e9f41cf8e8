CONSTANTS
    Imported = {i1}
    Native = {n1}
    MaxTurnsEach = 2
    MaxCardsEach = 1
SPECIFICATION ImportSpec
INVARIANTS
    ImportedIsSettled
CHECK_DEADLOCK FALSE
