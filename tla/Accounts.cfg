\* Two requests at a time, two addresses and names, tokens of a second, one
\* client address of three requests in two seconds, blocked by two failures.
SPECIFICATION RoutesSpec
CONSTANTS
    r1 = r1
    r2 = r2
    e1 = e1
    e2 = e2
    n1 = n1
    n2 = n2
    ip1 = ip1
    IPs = {ip1}
    Window = 2
    MaxRequests = 3
    BlockAfter = 2
    Requests = {r1, r2}
    Emails = {e1, e2}
    Names = {n1, n2}
    TokenLife = 1
    MaxTime = 2
    MaxId = 2
SYMMETRY Symmetric
INVARIANTS TypeOK OneAccountPerAddress LogoutIsFinal GuardsHold
PROPERTY SessionsAreNotReplaced
