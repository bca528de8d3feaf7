CONSTANTS
    s1 = s1
    s2 = s2
    Starts = {s1, s2}
    Texts <- MCTexts
    None = None
    NaN = NaN
    Refusal = Refusal
    Old = Old
    Blank = Blank
    Missing = Missing
    Number <- MCNumber
    ParseInt <- MCNumber
    HostOf <- MCHostOf
    PortOf <- MCPortOf
    Stripped <- MCStripped
    WithPort <- MCWithPort
    NewPassword <- MCNewPassword
    Files <- MCFiles
    Launches <- MCLaunches
SPECIFICATION Spec
CHECK_DEADLOCK FALSE
INVARIANTS
    ParsedAsGiven
    SourcesRanked
    OneConfig
    PairIsWhole
PROPERTY
    ImplementsWriteOnce
