\* Three users, one organisation, two requests at once, a pool of one or two connections.
SPECIFICATION Spec
CONSTANTS
    u1 = u1
    u2 = u2
    u3 = u3
    Users = {u1, u2, u3}
    Founder = u1
    FirstAdmin = u2
    Stranger = stranger
    Null = Null
    Slugs = {"acme", "other"}
    FirstSlug = "acme"
    MaxRequests = 2
    PoolSizes = {1, 2}
    Asked <- SomeRequests
INVARIANT TablesAreSound
PROPERTIES WritesAreWhole PlanDriftHasCause RequestsEnd
CHECK_DEADLOCK FALSE
