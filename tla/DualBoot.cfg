SPECIFICATION Spec
CONSTANTS
    Pairs = 3
    Boot = 2
    MaxMishaps = 2
INVARIANTS HomeAgain
PROPERTIES OnlyChosenSystem
