CONSTANTS
    Parts = {"boot", "data"}
    Raw = {"boot"}
    Mtd = {"boot"}
    Emptied = {}
    Files = {f1, f2}
    Pieces = {k}
    Backups = {b1, b2}
    MaxFaults = 1
SPECIFICATION Spec
INVARIANTS TypeOK RestoreExact DamageConfined BlobsKept
SYMMETRY Symmetric
