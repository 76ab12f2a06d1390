\* Two requests of two attempts: three failures trip the breaker, the fourth
\* attempt is the test request.  Every balancing algorithm is a case of random.
SPECIFICATION Spec
CONSTANTS
    Instances = {1, 2}
    Algorithms = {"random"}
    Requests = {r1, r2}
    MaxAttempts = 2
    FiltersStatusCodes = TRUE
    FailureThreshold = 3
    HalfOpenRequests = 1
INVARIANT BooksBalance
PROPERTIES BreakerIsUsedProperly RequestsAnswered
