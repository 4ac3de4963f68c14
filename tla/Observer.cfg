\* An observer started and stopped twice, its requests late, lost or repeated;
\* three requests of two codecs on two threads; a timeout of several connects,
\* more attempts than fit in it, waits that are cut to what is left.
CONSTANTS
    MaxStarts = 2
    MaxBeats = 3
    MaxSessions = 2
    MaxHeld = 2
    MaxLeaves = 2
    MaxRecords = 1
    pkg = pkg
    dep = dep
    ours = ours
    other = other
    v1 = v1
    v2 = v2
    Paths = {pkg, dep}
    Imports <- MCImports
    Codecs = {ours, other}
    Threads = {t1, t2}
    Contents = {v1, v2}
    Absent = absent
    Sources <- MCSources
    MaxAsks = 3
    MaxEdits = 1
    Total = 5
    Slice = 3
    IdleWait = 1
    Timeout = 9
    MaxTries = 4
    ReplyMax = 6
    ReplyMin = 2
SPECIFICATION MCSpec
INVARIANTS OneBeaterIfQuick KeptWhileRunning ThreadsApart ClassIsItsRoots CallWithinTimeout Paced
PROPERTIES FreedInTheEnd
CHECK_DEADLOCK FALSE
