SPECIFICATION Spec
CONSTANTS
    Size = 3
    Items = {a, b}
INVARIANTS
    NoSlotRace
PROPERTY
    ImplementsFifo
