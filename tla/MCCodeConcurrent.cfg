\* Two goroutines ingest a file as Go, as Ruby and in a language that is not
\* supported while it is edited, everything can fail and the process stops.
SPECIFICATION Spec
CONSTANTS
    v1 = v1
    v2 = v2
    twice = twice
    broken = broken
    f = f
    g = g
    None = None
    Paths = {p1}
    Symbols = {f, g}
    Valid <- MCValid
    Defs <- MCDefs
    Refs <- MCRefs
    Calls = {c1, c2}
    Versions <- MCConcurrentVersions
    Languages = {"go", "ruby", "perl"}
    MayFail <- FaultPoints
    MaxParses = 3
SYMMETRY CallsAlike
INVARIANTS
    TypeOK
    DoneHasNodes
    EdgesJoinRows
    NewNodesHaveEdges
PROPERTIES
    CallsFinish
