SPECIFICATION StartSpec
CONSTANTS
    Lines <- MCLines
    Abbreviation <- MCAbbreviation
    MaxErrors = 3
INVARIANTS ReadAsWritten StartSound
