CONSTANTS
    N = 3
    Ids = {1, 2, 3, 4}
    Ctimes = {1, 2}
INIT CacheInit
NEXT CacheNext
INVARIANTS
    CacheTypeOK
    UniqueKey
    FreeSuffix
PROPERTIES
    LruRefinement
