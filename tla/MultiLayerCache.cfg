\* Three keys for one and two places; of the two values one is falsy.
SPECIFICATION Spec
CONSTANTS
    Keys = {a, b, c}
    Data = {x, y}
    Falsy = {y}
    Null = Null
    TTLs = {0, 2}
    Patterns = {{b, c}}
    L1MaxSize = 1
    L2MaxSize = 2
    DefaultTTL = 1
    MaxTime = 3
INVARIANT AnswersAreCurrent
PROPERTY EvictionFollowsUse
