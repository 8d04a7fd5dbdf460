\* One worker and every tree of up to two entries; the context is never
\* cancelled, as in handleIngest.
SPECIFICATION Spec
CONSTANTS
    Workers = {w1}
    JobCapacity = 2
    Cancellable = FALSE
    MaxEntries = 2
    Trees <- MCTrees
INVARIANT
    AllIngestedOrError
\* IngestDir returns.
CHECK_DEADLOCK FALSE
