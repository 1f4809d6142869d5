\* One slot and one remote peer announcing an older and a newer version:
\* an outbound handshake answered by a Shake at the newer one.
CONSTANTS
    Conn = {c1}
    RemoteIPs = {p1}
    SelfIP = self
    NoIP = noip
    NoConn = noconn
    PeerVersions <- MCPeerVersions
    PROTOCOL_VERSION = 2
    MaxWire = 1
INIT Init
NEXT HsNext
INVARIANT NegotiatedVersion
