\* Two threads share the cached client; in some behaviours only one calls.
CONSTANTS
    Threads = {t1, t2}
    CorrMod = 3
    MaxCalls = 3
    MaxCrashes = 1
    MaxResets = 1
SPECIFICATION FairSpec
INVARIANTS ReplyMatches HandledAtMostOnce
PROPERTIES ImplementsGenCall CallEndsAlone
CHECK_DEADLOCK FALSE
