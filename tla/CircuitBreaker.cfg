\* Five calls: two trip the breaker, two are test requests, one is late, and
\* resets fall between any two steps.
SPECIFICATION HSpec
CONSTANTS
    Calls = {c1, c2, c3, c4, c5}
    FailureThreshold = 2
    HalfOpenRequests = 2
INVARIANTS Inv ProbeBudget
PROPERTIES TransitionsHaveReasons ImplementsProtocol SelfHealing
