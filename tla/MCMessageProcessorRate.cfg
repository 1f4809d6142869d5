CONSTANTS
    Conn = {c1, c2}
    RemoteIPs = {p1}
    SelfIP = self
    NoIP = noip
    NoConn = noconn
    PeerVersions = {1}
    PROTOCOL_VERSION = 2
    MaxWire = 1
    TDs <- MCTDs
    TxHashSetCooldown = 2
    MaxTime = 4
    StreamChunks = 2
INIT ProcInit
NEXT Next
SYMMETRY ConnSymmetry
PROPERTY TxHashSetRateLimit
