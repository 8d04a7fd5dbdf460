\* Two goroutines ingest a file again and again while it is edited, calls
\* fail and the process stops; then all of that ceases.
SPECIFICATION FairSpec
CONSTANTS
    blank = blank
    short = short
    long = long
    None = None
    Paths = {p1}
    Calls = {c1, c2}
    Versions <- MCTwoVersions
    MaxChunks = 1
    NumChunks <- MCTwoNumChunks
    SourceTypes = {"pdf", "markdown"}
    MayFail <- FaultPoints
PROPERTIES
    EveryCallReturns
    IngestConverges
