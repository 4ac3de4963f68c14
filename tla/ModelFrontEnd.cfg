CONSTANTS
    Packages = {a, b, c, k}
    a = a
    b = b
    c = c
    k = k
    NoPackage = nopackage
    Names = {"g", "m", "n", "q", "h", "w", "x", "y", "z", "i", "j", "l"}
    Fields <- MCFields
    Values = {0, 1, 2, 3, 10, 11, 12}
    Absent = absent
    Gateway = 0
    Catalogs = {k}
    NoText = notext
    MaxOpens = 2
    MaxSaves = 1
    Default <- MCDefault
    Texts <- MCTexts
    da = da
    db = db
    dc = dc
    A = A
    B = B
    Docs = {da, db, dc}
    DocNames = {A, B}
    DocTexts <- MCDocTexts
    Unwritten = unwritten
    Shut = shut
    MaxActs = 3
    MaxPending = 2
SPECIFICATION MCSpec
INVARIANTS CacheIsClosed AsImportsSay NearestWins DiagnosticsSettle AnswersFit
CHECK_DEADLOCK FALSE
