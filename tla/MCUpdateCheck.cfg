CONSTANTS
    p1 = p1
    c1 = c1
    c2 = c2
    f1 = f1
    None = None
    Absent = Absent
    Blank = Blank
    Torn = Torn
    NoOne = NoOne
    Unknown = Unknown
    Pages = {p1}
    Callers = {c1, c2}
    Folders = {f1}
    MaxDay = 2
    MaxVersion = 2
    Interval = 1
    IgnoreLast = FALSE
    CliEntry = FALSE
    Faults = TRUE
SPECIFICATION Spec
INVARIANTS
    AloneMergeKeeps
    UpdatesAreHonest
PROPERTIES
    WriteRepairs
    AnswersAreRecent
    Answered
