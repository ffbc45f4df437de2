SPECIFICATION Spec
CONSTANTS
    c1 = c1
    c2 = c2
    c3 = c3
    old = old
    new = new
    newer = newer
    None = None
    Callers = {c1, c2, c3}
    Grants = {old, new}
    Legacy = {old}
    Supersedes <- Chain
    Rank <- Ages
    PageLimit = 2
    MaxDrops = 0
INVARIANT SupersededIsNotEffective
SYMMETRY SameCallers
CHECK_DEADLOCK FALSE
