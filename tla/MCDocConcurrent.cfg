\* Two goroutines ingest the same file while it is edited, every store call
\* can fail and the process can stop.
SPECIFICATION Spec
CONSTANTS
    blank = blank
    short = short
    long = long
    None = None
    Paths = {p1}
    Calls = {c1, c2}
    Versions <- MCVersions
    MaxChunks = 2
    NumChunks <- MCNumChunks
    SourceTypes = {"pdf", "markdown"}
    MayFail <- FaultPoints
INVARIANTS
    TypeOK
    DoneIsExact
PROPERTY
    ImplementsIndex
