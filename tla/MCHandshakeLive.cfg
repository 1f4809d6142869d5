\* Two slots: a self-dial pair, or a remote connection next to an inbound
\* one, with the fairness of the connection threads.
CONSTANTS
    Conn = {c1, c2}
    RemoteIPs = {p1}
    SelfIP = self
    NoIP = noip
    NoConn = noconn
    PeerVersions <- MCPeerVersions
    PROTOCOL_VERSION = 2
    MaxWire = 1
SPECIFICATION HsSpec
INVARIANTS
    NoSelfConnection
PROPERTIES
    HandshakeTerminates
