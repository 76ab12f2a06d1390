\* Two devices of one user, three sockets, one task; one connection is lost.
SPECIFICATION Spec
CONSTANTS
    ann = ann
    bob = bob
    phone = phone
    laptop = laptop
    task = task
    Users = {ann, bob}
    Sockets = {1, 2, 3}
    TaskIds = {task}
    Null = Null
    Clients = {phone, laptop}
    Token <- SomeToken
    Owner <- SomeOwner
    MaxAttempts = 1
    MaxEvents = 4
INVARIANT PresenceIsSound
PROPERTIES ConnectSettles GoneMeansOffline
