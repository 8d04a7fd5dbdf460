\* Two daemons start on one database, serve, fail, are stopped and started again.
SPECIFICATION Spec
CONSTANTS
    Daemons = {d1, d2}
    Migrations = 2
    Handlers = {h1}
    Documents = 2
    MaxStarts = 3
CHECK_DEADLOCK FALSE
INVARIANTS
    TypeOK
    MigratedOnce
    StartsAlone
PROPERTIES
    StopsCleanly
    Settles
