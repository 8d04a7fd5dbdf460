\* Two workers, a channel of two files and every tree of up to five entries:
\* more files than the channel holds, and more errors than there are workers.
SPECIFICATION Spec
CONSTANTS
    Workers = {w1, w2}
    JobCapacity = 2
    Cancellable = TRUE
    MaxEntries = 5
    Trees <- MCTrees
INVARIANTS
    TypeOK
    IngestedOnce
    ErrorIsReported
PROPERTY
    Returns
\* IngestDir returns.
CHECK_DEADLOCK FALSE
