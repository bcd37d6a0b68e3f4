CONSTANTS
    Parts = {"data"}
    Raw = {}
    Mtd = {}
    Emptied = {"data"}
    Files = {f1, f2}
    Pieces = {k}
    Backups = {b1, b2}
    MaxFaults = 1
SPECIFICATION Spec
INVARIANTS RestoreExact 
SYMMETRY Symmetric
