\* One goroutine at a time ingests a Markdown file, which is edited; nothing
\* fails.
SPECIFICATION Spec
CONSTANTS
    blank = blank
    short = short
    long = long
    None = None
    Paths = {p1}
    Calls = {c1}
    Versions <- MCVersions
    MaxChunks = 2
    NumChunks <- MCNumChunks
    SourceTypes = {"markdown"}
    MayFail = {}
INVARIANT
    ReingestIsSafe
