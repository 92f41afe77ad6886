CONSTANTS
    Callers = {c1, c2}
    Names = {n1, n2}
    ChannelKeys = {k1, k2}
    Bad = Bad  None = None
    Groups = {g0, g1}  NoGroup = g0
    MaxOps = 4
SPECIFICATION Spec
INVARIANT CacheCoherent
PROPERTIES RouteLosesOnlyOnChange ProfileKeyKept
CHECK_DEADLOCK FALSE
