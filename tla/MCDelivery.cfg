SPECIFICATION DeliverySpec
CONSTANTS
    Servers = {s1, s2}
    MaxTries = 2
    Subs = {p1, p2}
    Topics <- TwoTopics
    SndHwm = 1
    MaxWant = 1
    MaxSends = 2
    Setups <- TwoSetups
    Binders = {b1}
    Connectors = {c1, c2}
    NoBinder = NoBinder
    PeerHwm = 1
    MaxInbox = 1
    MaxListed = 2
    MaxBinds = 2
INVARIANTS VerdictsAreOwn DistributedRight
PROPERTY RoutedRight
CHECK_DEADLOCK FALSE
