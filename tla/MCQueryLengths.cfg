CONSTANTS
    Null = Null
    Words <- MCWords
    Numbers <- MCNumbers
    Oids <- MCOids
    Parameters <- MCAllParameters
    MaxParameters = 2
    ConfLines <- MCConfLines
    MaxLines = 4
    Declarations <- MCDeclarations
    ConfParameters <- MCConfParameters
    Targets <- MCTargets
    Intervals <- MCIntervals
    Timestamps <- MCTimestamps
    TimeBytes = 2
    DateBytes = 1
    Day = 500
    Microsecond = 3
    Epoch = 40
    ConfTargets <- MCConfTargets
    MaxRows = 2
SPECIFICATION Spec
INVARIANT LengthsAreSizes
CHECK_DEADLOCK FALSE
