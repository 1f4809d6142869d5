----------------------------- MODULE Handshake -----------------------------
(***************************************************************************)
(* Connection set-up of the P2P layer: src/src/P2P/Seed/HandShake.cpp and  *)
(* the BLOCKING mode of MessageRetriever::RetrieveMessage                  *)
(* (src/src/P2P/MessageRetriever.cpp), which the handshake uses to read    *)
(* the peer's Hand or Shake.                                               *)
(*                                                                         *)
(* Each element of Conn is one connection slot, run by its own thread      *)
(* (Connection.h).  The connection table of the ConnectionManager is not   *)
(* under src/: it is modelled from the spec (4.6: "drives C5 handshake     *)
(* then inserts") as the slots in phase "active".                          *)
(*                                                                         *)
(* A dial to our own listening address (SelfIP) creates two slots of our   *)
(* own, linked: what one sends is read by the other.  Every other address  *)
(* is a remote peer, whose messages are an environment action.             *)
(***************************************************************************)
EXTENDS Naturals, Sequences

CONSTANTS
    Conn,             \* connection slots (connection ids)
    RemoteIPs,        \* addresses of remote peers
    SelfIP,           \* our own listening address
    NoIP,             \* the address of a free slot
    NoConn,           \* "not linked to a slot of ours"
    PeerVersions,     \* protocol versions a remote peer may announce
    PROTOCOL_VERSION, \* P2P::PROTOCOL_VERSION
    MaxWire           \* bound on unread messages a remote peer has sent

ASSUME HandshakeAssumptions ==
    /\ SelfIP \notin RemoteIPs
    /\ NoIP \notin RemoteIPs \cup {SelfIP}
    /\ NoConn \notin Conn
    /\ PROTOCOL_VERSION \in Nat
    /\ PeerVersions \subseteq Nat
    /\ MaxWire \in Nat

IPs == RemoteIPs \cup {SelfIP}

(* The nonce of a Hand: ours is the static NONCE of HandShake.cpp; every   *)
(* remote peer draws its own.                                              *)
Nonces == {"ours", "theirs"}

Versions == PeerVersions \cup {PROTOCOL_VERSION}

(* Message payloads, reduced to what the handshake reads of them.  "Bad"   *)
(* is a message whose header fails MessageHeader::IsValid or whose payload *)
(* does not arrive: RetrieveMessage throws, PerformHandshake catches.      *)
HandMsg(n, v) == [type |-> "Hand", nonce |-> n, ver |-> v]
ShakeMsg(v) == [type |-> "Shake", nonce |-> "none", ver |-> v]
PlainMsg(t) == [type |-> t, nonce |-> "none", ver |-> PROTOCOL_VERSION]

Msgs ==
    {HandMsg(n, v) : n \in Nonces, v \in Versions}
    \cup {ShakeMsg(v) : v \in Versions}
    \cup {PlainMsg(t) : t \in {"BanReason", "Ping", "Bad"}}

(* What a remote peer may put on the wire: anything but our nonce.         *)
RemoteMsgs ==
    {HandMsg("theirs", v) : v \in PeerVersions}
    \cup {ShakeMsg(v) : v \in PeerVersions}
    \cup {PlainMsg(t) : t \in {"BanReason", "Ping", "Bad"}}

Phases == {"free", "outHand", "outShake", "inHand", "shaken", "active", "closed"}

(* Phases in which the connection thread is inside PerformHandshake.       *)
Handshaking == {"outHand", "outShake", "inHand"}

VARIABLES
    phase,   \* phase[c]: where the thread of slot c is
    dir,     \* dir[c]: EDirection of the handshake
    ip,      \* ip[c]: address of the peer of slot c
    ver,     \* ver[c]: ConnectedPeer protocol version
    wire,    \* wire[c]: messages received by slot c and not yet read
    link     \* link[c]: our own slot at the other end of a self-dial

hsVars == <<phase, dir, ip, ver, wire, link>>

TypeOK ==
    /\ phase \in [Conn -> Phases]
    /\ dir \in [Conn -> {"in", "out"}]
    /\ ip \in [Conn -> IPs \cup {NoIP}]
    /\ ver \in [Conn -> Versions]
    /\ wire \in [Conn -> Seq(Msgs)]
    /\ link \in [Conn -> Conn \cup {NoConn}]

MinVersion(a, b) == IF a < b THEN a ELSE b

(* ConnectionManager::IsConnected (spec-modelled): some connection in the  *)
(* table has that address.                                                 *)
IsConnected(a) == \E d \in Conn : phase[d] = "active" /\ ip[d] = a

(* The wires w after sending m on slot c: m reaches the wire of our own   *)
(* slot at the other end of a self-dial while that slot is open; a remote  *)
(* peer's reaction is the environment action RemoteSend.                   *)
Deliver(w, c, m) ==
    IF link[c] # NoConn /\ phase[link[c]] \notin {"free", "closed"}
    THEN [w EXCEPT ![link[c]] = Append(@, m)]
    ELSE w

Init ==
    /\ phase = [c \in Conn |-> "free"]
    /\ dir = [c \in Conn |-> "out"]
    /\ ip = [c \in Conn |-> NoIP]
    /\ ver = [c \in Conn |-> PROTOCOL_VERSION]
    /\ wire = [c \in Conn |-> <<>>]
    /\ link = [c \in Conn |-> NoConn]

-----------------------------------------------------------------------------
(* Opening a connection (Seeder / ConnectionManager, spec-modelled).       *)

(* Outbound dial to a remote peer.                                         *)
DialRemote(c, a) ==
    /\ phase[c] = "free"
    /\ phase' = [phase EXCEPT ![c] = "outHand"]
    /\ dir' = [dir EXCEPT ![c] = "out"]
    /\ ip' = [ip EXCEPT ![c] = a]
    /\ UNCHANGED <<ver, wire, link>>

(* Outbound dial to our own address: our listener accepts it on slot d.    *)
DialSelf(c, d) ==
    /\ c # d
    /\ phase[c] = "free"
    /\ phase[d] = "free"
    /\ phase' = [phase EXCEPT ![c] = "outHand", ![d] = "inHand"]
    /\ dir' = [dir EXCEPT ![c] = "out", ![d] = "in"]
    /\ ip' = [ip EXCEPT ![c] = SelfIP, ![d] = SelfIP]
    /\ link' = [link EXCEPT ![c] = d, ![d] = c]
    /\ UNCHANGED <<ver, wire>>

(* Inbound connection accepted from a remote peer.                         *)
Accept(c, a) ==
    /\ phase[c] = "free"
    /\ phase' = [phase EXCEPT ![c] = "inHand"]
    /\ dir' = [dir EXCEPT ![c] = "in"]
    /\ ip' = [ip EXCEPT ![c] = a]
    /\ UNCHANGED <<ver, wire, link>>

(* A remote peer writes a message to the socket of slot c.                 *)
RemoteSend(c, m) ==
    /\ phase[c] \in Handshaking
    /\ ip[c] \in RemoteIPs
    /\ Len(wire[c]) < MaxWire
    /\ wire' = [wire EXCEPT ![c] = Append(@, m)]
    /\ UNCHANGED <<phase, dir, ip, ver, link>>

-----------------------------------------------------------------------------
(* HandShake::PerformOutboundHandshake                                     *)

(* TransmitHandMessage: Hand{PROTOCOL_VERSION, NONCE, ...}; a failed send  *)
(* returns false.                                                          *)
SendHand(c) ==
    /\ phase[c] = "outHand"
    /\ \/ /\ phase' = [phase EXCEPT ![c] = "outShake"]
          /\ wire' = Deliver(wire, c, HandMsg("ours", PROTOCOL_VERSION))
       \/ /\ phase' = [phase EXCEPT ![c] = "closed"]
          /\ UNCHANGED wire
    /\ UNCHANGED <<dir, ip, ver, link>>

(* Mutant of ReceiveShake: a message other than the Shake is skipped and  *)
(* the wait goes on.                                                       *)
ReceiveShakeSkipOthers(c) ==
    /\ phase[c] = "outShake"
    /\ wire[c] # <<>>
    /\ LET m == Head(wire[c]) IN
         IF m.type = "Shake"
         THEN /\ phase' = [phase EXCEPT ![c] = "shaken"]
              /\ ver' = [ver EXCEPT ![c] = m.ver]
         ELSE UNCHANGED <<phase, ver>>
    /\ wire' = [wire EXCEPT ![c] = Tail(@)]
    /\ UNCHANGED <<dir, ip, link>>

(* The Shake arrives: the connection takes the version the peer sent.      *)
(* Anything else (BanReason, another type, a bad frame) returns false.     *)
ReceiveShake(c) ==
    /\ phase[c] = "outShake"
    /\ wire[c] # <<>>
    /\ LET m == Head(wire[c]) IN
         IF m.type = "Shake"
         THEN /\ phase' = [phase EXCEPT ![c] = "shaken"]
              /\ ver' = [ver EXCEPT ![c] = m.ver]
         ELSE /\ phase' = [phase EXCEPT ![c] = "closed"]
              /\ UNCHANGED ver
    /\ wire' = [wire EXCEPT ![c] = Tail(@)]
    /\ UNCHANGED <<dir, ip, link>>

-----------------------------------------------------------------------------
(* Mutant of ReceiveHand: the self-connection test on the nonce is gone.  *)
ReceiveHandNoNonceCheck(c) ==
    /\ phase[c] = "inHand"
    /\ wire[c] # <<>>
    /\ LET m == Head(wire[c])
           v == MinVersion(PROTOCOL_VERSION, m.ver)
       IN
         IF m.type = "Hand" /\ ~IsConnected(ip[c])
         THEN \/ /\ phase' = [phase EXCEPT ![c] = "shaken"]
                 /\ ver' = [ver EXCEPT ![c] = v]
                 /\ wire' = Deliver([wire EXCEPT ![c] = Tail(@)], c, ShakeMsg(v))
              \/ /\ phase' = [phase EXCEPT ![c] = "closed"]
                 /\ ver' = [ver EXCEPT ![c] = v]
                 /\ wire' = [wire EXCEPT ![c] = Tail(@)]
         ELSE /\ phase' = [phase EXCEPT ![c] = "closed"]
              /\ wire' = [wire EXCEPT ![c] = Tail(@)]
              /\ UNCHANGED ver
    /\ UNCHANGED <<dir, ip, link>>

(* HandShake::PerformInboundHandshake                                      *)

(* The first message is read.  A Hand with a nonce other than ours from an *)
(* address not yet connected is answered with a Shake at version          *)
(* min(PROTOCOL_VERSION, theirs), whose send may fail; every other first   *)
(* message ends the handshake.                                             *)
ReceiveHand(c) ==
    /\ phase[c] = "inHand"
    /\ wire[c] # <<>>
    /\ LET m == Head(wire[c])
           v == MinVersion(PROTOCOL_VERSION, m.ver)
       IN
         IF m.type = "Hand" /\ m.nonce # "ours" /\ ~IsConnected(ip[c])
         THEN \/ /\ phase' = [phase EXCEPT ![c] = "shaken"]
                 /\ ver' = [ver EXCEPT ![c] = v]
                 /\ wire' = Deliver([wire EXCEPT ![c] = Tail(@)], c, ShakeMsg(v))
              \/ /\ phase' = [phase EXCEPT ![c] = "closed"]
                 /\ ver' = [ver EXCEPT ![c] = v]
                 /\ wire' = [wire EXCEPT ![c] = Tail(@)]
         ELSE /\ phase' = [phase EXCEPT ![c] = "closed"]
              /\ wire' = [wire EXCEPT ![c] = Tail(@)]
              /\ UNCHANGED ver
    /\ UNCHANGED <<dir, ip, link>>

(* RetrieveMessage in BLOCKING mode returns null when nothing arrived      *)
(* within 8 seconds or shutdown was requested: the handshake fails.        *)
HandshakeTimeout(c) ==
    /\ phase[c] \in {"outShake", "inHand"}
    /\ wire[c] = <<>>
    /\ phase' = [phase EXCEPT ![c] = "closed"]
    /\ UNCHANGED <<dir, ip, ver, wire, link>>

-----------------------------------------------------------------------------
(* After PerformHandshake returned true the ConnectionManager inserts the  *)
(* connection into its table (spec-modelled).                              *)
AddConnection(c) ==
    /\ phase[c] = "shaken"
    /\ phase' = [phase EXCEPT ![c] = "active"]
    /\ UNCHANGED <<dir, ip, ver, wire, link>>

(* The peer hangs up or the connection is disconnected.                    *)
Disconnect(c) ==
    /\ phase[c] = "active"
    /\ phase' = [phase EXCEPT ![c] = "closed"]
    /\ UNCHANGED <<dir, ip, ver, wire, link>>

(* The slot of a finished connection is reused once no open slot of ours  *)
(* is linked to it.                                                        *)
Recycle(c) ==
    /\ phase[c] = "closed"
    /\ \A d \in Conn : link[d] = c => phase[d] \in {"free", "closed"}
    /\ phase' = [phase EXCEPT ![c] = "free"]
    /\ ip' = [ip EXCEPT ![c] = NoIP]
    /\ wire' = [wire EXCEPT ![c] = <<>>]
    /\ link' = [link EXCEPT ![c] = NoConn]
    /\ UNCHANGED <<dir, ver>>

-----------------------------------------------------------------------------
(* The steps of the thread that runs slot c's handshake.                   *)
HandshakeStep(c) ==
    \/ SendHand(c)
    \/ ReceiveShake(c)
    \/ ReceiveHand(c)
    \/ HandshakeTimeout(c)

HsNext ==
    \E c \in Conn :
        \/ \E a \in RemoteIPs : DialRemote(c, a) \/ Accept(c, a)
        \/ \E d \in Conn : DialSelf(c, d)
        \/ \E m \in RemoteMsgs : RemoteSend(c, m)
        \/ HandshakeStep(c)
        \/ AddConnection(c)
        \/ Disconnect(c)
        \/ Recycle(c)

(* RetrieveMessage returns within its 8 s deadline and the manager inserts *)
(* a shaken connection: every connection thread keeps running.             *)
HsFairness ==
    \A c \in Conn : WF_hsVars(HandshakeStep(c)) /\ WF_hsVars(AddConnection(c))

HsSpec == Init /\ [][HsNext]_hsVars /\ HsFairness

-----------------------------------------------------------------------------
(* Properties                                                              *)

(* Self-connection detection (HandShake.cpp:113, spec scenario 2): a dial  *)
(* to our own address never becomes a connection, on either end.  It takes *)
(* the dial, our Hand crossing to our own inbound slot, and the nonce test *)
(* refusing it, which leaves the outbound slot waiting for a Shake that    *)
(* never comes.                                                            *)
NoSelfConnection ==
    \A c \in Conn : ip[c] = SelfIP => phase[c] \notin {"shaken", "active"}

(* Spec 8: at most one active connection per peer address.  The inbound   *)
(* test !IsConnected (HandShake.cpp:113) and the insertion into the table *)
(* happen in different steps, and the outbound handshake has no such test. *)
AtMostOneConnectionPerIP ==
    \A c, d \in Conn :
        (c # d /\ phase[c] = "active" /\ phase[d] = "active") => ip[c] # ip[d]

(* Every handshake ends: RetrieveMessage's deadline means no thread waits  *)
(* forever for a Hand or a Shake, and the manager inserts what succeeded.  *)
HandshakeTerminates ==
    \A c \in Conn : phase[c] \in Handshaking \cup {"shaken"} ~> phase[c] \in {"active", "closed"}

(* Spec 4.5: the version a connection works at is the negotiated          *)
(* min(ours, theirs), never above our PROTOCOL_VERSION.  The inbound side  *)
(* takes the min (HandShake.cpp:119); the outbound side stores the version *)
(* of the peer's Shake as it is (HandShake.cpp:72).                        *)
NegotiatedVersion ==
    \A c \in Conn : phase[c] \in {"shaken", "active"} => ver[c] <= PROTOCOL_VERSION

=============================================================================
