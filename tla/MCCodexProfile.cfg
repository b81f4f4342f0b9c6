SPECIFICATION ProfileSpec
CONSTANTS
    Commands = {c1, c2}
    NoFile = NoFile
    OwnLine = {own, other}
    Body = {"first", "second"}
    MaxSaves = 2
    MaxLosses = 1
SYMMETRY ProfileSymmetry
INVARIANTS
    ProfileTypeOK
    OneBlock
    InstallIsReversible
    PowerLossLeavesWhole
PROPERTIES
    CommandsKeepOwnLines
    ReplacedTextIsBackedUp
