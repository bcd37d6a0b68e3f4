SPECIFICATION Spec
CONSTANTS
    Last = 3
    Units = 2
    Chunk = 3
    MaxUnits = 7
    MaxFaults = 2
INVARIANTS WrittenInOrder SavedIsWritten
