SPECIFICATION AllSpec
CONSTANTS
    Tried = {"LINGER", "SNDHWM", "HEARTBEAT_TTL", "HEARTBEAT_TIMEOUT", "CONFLATE",
        "XPUB_VERBOSE", "XPUB_VERBOSER", "XPUB_MANUAL", "XPUB_MANUAL_LAST_VALUE"}
    TriedBytes = {"ROUTING_ID", "SOCKS_PROXY", "DISCONNECT_MSG", "CURVE_SERVERKEY"}
    IntValues <- EdgeValues
    Lengths = {0, 1, 32, 256}
    MaxNuls = 2
    MaxChanged = 2
    MonNames = {"a", "b"}
    Listeners = {"l1", "l2"}
    MaxFrames = 2
    MaxMonitors = 2
    Items = {x, y}
    Delimiter = d
    Hwm = 2
    MaxQueue = 3
    WsSockets = {a, b}
    MaxConns = 2
    MaxBuffer = 2
    MaxCalls = 2
    UdpSockets = {a, b}
    Ports = {p1, p2, p3}
    NoPort = NoPort
    MaxFlight = 1
    MaxQueued = 1
    NormTopics = {x, y}
    MaxTurns = 2
    MaxObjects = 3
    MaxHandles = 2
    MaxChanges = 2
    Base = 8
    LongBytes = 2
    ChunkBase = 4
    ChunkBytes = 2
    DigitBase = 3
    Digits = 3
    Bodies <- EdgeBodies
    Properties <- EdgeProperties
    MaxWritten = 2
INVARIANTS OptionsConsistent MonitorConsistent DatagramsAddressed NormSound
    ReadsBack
PROPERTIES WebStreamSound ImplementsChannel
CHECK_DEADLOCK FALSE
