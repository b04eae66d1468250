\* Two clients, a deleted key and a versioned one, crashes anywhere.
CONSTANTS
    Clients = {c1, c2}
    Keys = {k1, k2}
    Values = {v1, v2}
    Absent = Absent
    Torn = Torn
    Free = Free
    Orphan = Orphan
    MaxTries = 2
    Deletable = {k1}
    Versioned = {k2}
SPECIFICATION FairSpec
INVARIANTS LockedByItsWriter
PROPERTIES StoreIsAtomic EveryCallReturns
CHECK_DEADLOCK FALSE
