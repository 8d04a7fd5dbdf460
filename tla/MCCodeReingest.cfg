\* One goroutine at a time ingests a Go file, which is edited. Nothing fails, but
\* the process may stop.
SPECIFICATION Spec
CONSTANTS
    v1 = v1
    v2 = v2
    twice = twice
    broken = broken
    f = f
    g = g
    None = None
    Paths = {p1}
    Symbols = {f, g}
    Valid <- MCValid
    Defs <- MCDefs
    Refs <- MCRefs
    Calls = {c1}
    Versions <- MCReingestVersions
    Languages = {"go"}
    MayFail = {}
    MaxParses = 2
INVARIANT
    DoneHasCalls
