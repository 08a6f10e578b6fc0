\* Two updaters share the root, with one run directory, over three units of time,
\* and one directory given on the command line.
SPECIFICATION Spec
CONSTANTS
    u1 = u1
    u2 = u2
    r1 = r1
    d1 = d1
    NoOne = NoOne
    NoRun = NoRun
    Updaters = {u1, u2}
    Runs = {r1}
    Explicit = {d1}
    Beginnings <- MCBeginnings
    MaxClock = 3
SYMMETRY MCSymmetry
CONSTRAINT TimeOrExplicit
INVARIANTS OneUpdaterPerRun MarkerSound NeededBackupKept WorksWhereTrusted
PROPERTY ActiveRunKept
CHECK_DEADLOCK FALSE
