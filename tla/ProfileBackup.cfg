SPECIFICATION ProfileSpec
CONSTANTS
    Commands = {c1, c2}
    NoFile = NoFile
    OwnLine = {own}
    Body = {"first", "second"}
    MaxSaves = 2
    MaxLosses = 1
PROPERTY BackupBeforeModifying
