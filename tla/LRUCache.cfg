\* Five keys for four places: every shape of the list, and evictions.
SPECIFICATION LRUSpec
CONSTANTS
    LRUKeys = {k1, k2, k3, k4, k5}
    NoNode = NoNode
    MaxSize = 4
INVARIANT ListIsSound
PROPERTY ImplementsRecency
