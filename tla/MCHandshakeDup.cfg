CONSTANTS
    Conn = {c1, c2, c3}
    RemoteIPs = {p1}
    SelfIP = self
    NoIP = noip
    NoConn = noconn
    PeerVersions <- MCPeerVersions
    PROTOCOL_VERSION = 2
    MaxWire = 1
INIT Init
NEXT HsNext
SYMMETRY ConnSymmetry
INVARIANT AtMostOneConnectionPerIP
