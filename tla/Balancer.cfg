\* Three instances, six requests: two full turns, and resets with requests
\* under way.
SPECIFICATION AccountingSpec
CONSTANTS
    Instances = {1, 2, 3}
    Algorithms = {"round-robin", "least-connections"}
    MaxSelections = 6
INVARIANT CountsAreSound
PROPERTY LeastLoadedChosen
