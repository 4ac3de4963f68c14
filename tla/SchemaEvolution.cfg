CONSTANTS
    Configs = {c1, c2}
    a = a
    b = b
    Names = {a, b, c}
    Bodies <- MCBodies
    MaxItems = 3
    MaxChanges = 2
    MaxReleases = 3
SPECIFICATION SchemaSpec
INVARIANTS TagsStable DigestTellsWire CarriesFields EdgeIsBuilt
CHECK_DEADLOCK FALSE
SYMMETRY Alike
