-------------------------- MODULE HandshakeProofs --------------------------
(***************************************************************************)
(* Proofs about the connection set-up of Handshake.tla for every set of    *)
(* slots, addresses and versions: type correctness, and that a dial to our *)
(* own address never becomes a connection (the nonce test of               *)
(* HandShake::PerformInboundHandshake).                                    *)
(***************************************************************************)
EXTENDS Handshake, SequenceTheorems, TLAPS

(* Our own Hand, as TransmitHandMessage sends it.                          *)
OursHand == HandMsg("ours", PROTOCOL_VERSION)

(* A free slot carries nothing over from its last connection: Recycle      *)
(* clears its link and its wire.                                           *)
FreeClean ==
    \A c \in Conn : phase[c] = "free" => link[c] = NoConn /\ wire[c] = <<>>

(* Only the two slots of a self-dial are linked.                           *)
LinkedIsSelf ==
    \A c \in Conn : link[c] # NoConn => ip[c] = SelfIP

(* All a slot of a self-dial ever reads is our own Hand: the only sender   *)
(* on its wire is its twin, and the twin never gets as far as a Shake.     *)
SelfWire ==
    \A c \in Conn : ip[c] = SelfIP =>
        \A i \in 1..Len(wire[c]) : wire[c][i] = OursHand

(* The inductive strengthening of NoSelfConnection.                        *)
IInv == TypeOK /\ FreeClean /\ LinkedIsSelf /\ SelfWire /\ NoSelfConnection

-----------------------------------------------------------------------------
(* Sending on a slot appends the message to at most one wire and leaves   *)
(* every other wire as it was.                                             *)
LEMMA DeliverShape ==
    ASSUME TypeOK, NEW w \in [Conn -> Seq(Msgs)], NEW c \in Conn, NEW m \in Msgs
    PROVE  /\ Deliver(w, c, m) \in [Conn -> Seq(Msgs)]
           /\ \A e \in Conn : \/ Deliver(w, c, m)[e] = w[e]
                              \/ Deliver(w, c, m)[e] = Append(w[e], m)
BY DEF Deliver, TypeOK

(* The messages a slot of ours sends are messages.                        *)
LEMMA SentAreMsgs ==
    ASSUME HandshakeAssumptions
    PROVE  /\ OursHand \in Msgs
           /\ \A v \in Versions : ShakeMsg(v) \in Msgs
           /\ RemoteMsgs \subseteq Msgs
BY DEF OursHand, Msgs, RemoteMsgs, Versions, Nonces

(* The version ReceiveHand keeps is one of the two it compares.            *)
LEMMA MinVersionType ==
    ASSUME NEW a \in Versions, NEW b \in Versions
    PROVE  MinVersion(a, b) \in Versions
BY DEF MinVersion

(* Every message carries a protocol version.                              *)
LEMMA MsgVersions ==
    \A m \in Msgs : m.ver \in Versions
BY DEF Msgs, HandMsg, ShakeMsg, PlainMsg, Versions

-----------------------------------------------------------------------------
(* Type correctness: every step of the handshake keeps every slot's phase, *)
(* address, version, wire and link in range.                               *)
LEMMA TypeInductive == TypeOK /\ [HsNext]_hsVars => TypeOK'
  <2> SUFFICES ASSUME TypeOK, [HsNext]_hsVars PROVE TypeOK'
    OBVIOUS
  <2>1. ASSUME NEW c \in Conn, NEW a \in RemoteIPs, DialRemote(c, a) \/ Accept(c, a)
        PROVE TypeOK'
    <3>1. CASE DialRemote(c, a)
      BY <3>1 DEF DialRemote, TypeOK, IPs, Phases
    <3>2. CASE Accept(c, a)
      BY <3>2 DEF Accept, TypeOK, IPs, Phases
    <3>. QED
      BY <2>1, <3>1, <3>2
  <2>2. ASSUME NEW c \in Conn, NEW d \in Conn, DialSelf(c, d) PROVE TypeOK'
    BY <2>2 DEF DialSelf, TypeOK, IPs, Phases
  <2>3. ASSUME NEW c \in Conn, NEW m \in RemoteMsgs, RemoteSend(c, m) PROVE TypeOK'
    <3>1. m \in Msgs
      BY SentAreMsgs, HandshakeAssumptions
    <3>. QED
      BY <2>3, <3>1 DEF RemoteSend, TypeOK
  <2>4. ASSUME NEW c \in Conn, SendHand(c) PROVE TypeOK'
    <3>1. Deliver(wire, c, OursHand) \in [Conn -> Seq(Msgs)]
      BY DeliverShape, SentAreMsgs, HandshakeAssumptions DEF TypeOK
    <3>. QED
      BY <2>4, <3>1 DEF SendHand, TypeOK, Phases, OursHand
  <2>5. ASSUME NEW c \in Conn, ReceiveShake(c) PROVE TypeOK'
    <3>1. wire[c] # <<>> /\ Head(wire[c]).ver \in Versions
      BY <2>5, MsgVersions DEF ReceiveShake, TypeOK
    <3>2. [wire EXCEPT ![c] = Tail(@)] \in [Conn -> Seq(Msgs)]
      BY <3>1 DEF TypeOK
    <3>. QED
      BY <2>5, <3>1, <3>2 DEF ReceiveShake, TypeOK, Phases
  <2>6. ASSUME NEW c \in Conn, ReceiveHand(c) PROVE TypeOK'
    <3> DEFINE v == MinVersion(PROTOCOL_VERSION, Head(wire[c]).ver)
               rest == [wire EXCEPT ![c] = Tail(@)]
    <3>1. wire[c] # <<>> /\ Head(wire[c]).ver \in Versions
      BY <2>6, MsgVersions DEF ReceiveHand, TypeOK
    <3>2. v \in Versions
      BY <3>1, MinVersionType, HandshakeAssumptions DEF Versions
    <3>3. rest \in [Conn -> Seq(Msgs)]
      BY <3>1 DEF TypeOK
    <3>4. Deliver(rest, c, ShakeMsg(v)) \in [Conn -> Seq(Msgs)]
      BY <3>2, <3>3, DeliverShape, SentAreMsgs, HandshakeAssumptions
    <3>. QED
      BY <2>6, <3>2, <3>3, <3>4 DEF ReceiveHand, TypeOK, Phases
  <2>7. ASSUME NEW c \in Conn, HandshakeTimeout(c) \/ AddConnection(c)
                                \/ Disconnect(c)
        PROVE TypeOK'
    BY <2>7 DEF HandshakeTimeout, AddConnection, Disconnect, TypeOK, Phases
  <2>8. ASSUME NEW c \in Conn, Recycle(c) PROVE TypeOK'
    BY <2>8 DEF Recycle, TypeOK, Phases, IPs
  <2>9. CASE UNCHANGED hsVars
    BY <2>9 DEF hsVars, TypeOK
  <2>. QED
    BY <2>1, <2>2, <2>3, <2>4, <2>5, <2>6, <2>7, <2>8, <2>9
       DEF HsNext, HandshakeStep

(* Type correctness: through every dial, accept, PerformHandshake step,    *)
(* insertion, disconnect and reuse of a slot, each slot's phase, address,  *)
(* version, unread messages and link stay in range.                        *)
THEOREM TypeCorrect == Init /\ [][HsNext]_hsVars => []TypeOK
<1>1. Init => TypeOK
  BY HandshakeAssumptions DEF Init, TypeOK, IPs, Versions, Phases
<1>. QED
  BY <1>1, TypeInductive, PTL

-----------------------------------------------------------------------------
(* Reading our own Hand from the front of a self-dial slot's wire leaves   *)
(* only our own Hand behind.                                               *)
LEMMA TailOfOurs ==
    ASSUME NEW s \in Seq(Msgs), s # <<>>,
           \A i \in 1..Len(s) : s[i] = OursHand
    PROVE  /\ Head(s) = OursHand
           /\ \A i \in 1..Len(Tail(s)) : Tail(s)[i] = OursHand
BY DEF OursHand

(* Our own Hand is a Hand with our nonce, which neither the Shake test of *)
(* the outbound handshake nor the nonce test of the inbound one accepts.   *)
LEMMA OursHandFields ==
    OursHand.type = "Hand" /\ OursHand.nonce = "ours"
BY DEF OursHand, HandMsg

(* Appending our own Hand keeps a wire made of our own Hand.              *)
LEMMA AppendOurs ==
    ASSUME NEW s \in Seq(Msgs), \A i \in 1..Len(s) : s[i] = OursHand
    PROVE  \A i \in 1..Len(Append(s, OursHand)) : Append(s, OursHand)[i] = OursHand
BY DEF OursHand

(* The strengthened invariant is preserved by every step.                  *)
LEMMA IInvInductive == IInv /\ [HsNext]_hsVars => IInv'
<1> SUFFICES ASSUME IInv, [HsNext]_hsVars PROVE IInv'
  OBVIOUS
<1>0. TypeOK'
  BY TypeInductive DEF IInv
<1>a. TypeOK /\ FreeClean /\ LinkedIsSelf /\ SelfWire /\ NoSelfConnection
  BY DEF IInv
<1>1. ASSUME NEW c \in Conn, NEW a \in RemoteIPs, DialRemote(c, a) \/ Accept(c, a)
      PROVE IInv'
  <2>1. /\ phase'[c] \in {"outHand", "inHand"} /\ ip'[c] = a
        /\ phase' = [phase EXCEPT ![c] = phase'[c]] /\ ip' = [ip EXCEPT ![c] = a]
        /\ UNCHANGED <<wire, link>> /\ phase[c] = "free"
    BY <1>a, <1>1 DEF DialRemote, Accept, TypeOK
  <2>2. FreeClean'
    BY <1>a, <2>1 DEF FreeClean, TypeOK
  <2>3. LinkedIsSelf'
    BY <1>a, <2>1 DEF FreeClean, LinkedIsSelf, TypeOK
  <2>4. SelfWire' /\ NoSelfConnection'
    BY <1>a, <2>1, HandshakeAssumptions DEF SelfWire, NoSelfConnection, TypeOK
  <2>. QED
    BY <1>0, <2>2, <2>3, <2>4 DEF IInv
<1>2. ASSUME NEW c \in Conn, NEW d \in Conn, DialSelf(c, d) PROVE IInv'
  <2>1. wire[c] = <<>> /\ wire[d] = <<>>
    BY <1>a, <1>2 DEF DialSelf, FreeClean
  <2>2. FreeClean'
    BY <1>a, <1>2 DEF DialSelf, FreeClean, TypeOK
  <2>3. LinkedIsSelf'
    BY <1>a, <1>2 DEF DialSelf, LinkedIsSelf, TypeOK
  <2>4. SelfWire'
    <3> SUFFICES ASSUME NEW e \in Conn, ip'[e] = SelfIP
                 PROVE  \A i \in 1..Len(wire'[e]) : wire'[e][i] = OursHand
      BY DEF SelfWire
    <3>1. CASE e \in {c, d}
      BY <1>2, <2>1, <3>1 DEF DialSelf
    <3>2. CASE e \notin {c, d}
      BY <1>a, <1>2, <3>2 DEF DialSelf, SelfWire, TypeOK
    <3>. QED
      BY <3>1, <3>2
  <2>5. NoSelfConnection'
    BY <1>a, <1>2 DEF DialSelf, NoSelfConnection, TypeOK
  <2>. QED
    BY <1>0, <2>2, <2>3, <2>4, <2>5 DEF IInv
<1>3. ASSUME NEW c \in Conn, NEW m \in RemoteMsgs, RemoteSend(c, m) PROVE IInv'
  <2>1. phase[c] # "free" /\ ip[c] # SelfIP
    BY <1>3, HandshakeAssumptions DEF RemoteSend, Handshaking
  <2>2. FreeClean' /\ SelfWire'
    BY <1>a, <1>3, <2>1 DEF RemoteSend, FreeClean, SelfWire, TypeOK
  <2>3. LinkedIsSelf' /\ NoSelfConnection'
    BY <1>a, <1>3 DEF RemoteSend, LinkedIsSelf, NoSelfConnection
  <2>. QED
    BY <1>0, <2>2, <2>3 DEF IInv
<1>4. ASSUME NEW c \in Conn, SendHand(c) PROVE IInv'
  <2>1. \A e \in Conn : \/ wire'[e] = wire[e]
                        \/ wire'[e] = Append(wire[e], OursHand)
    <3>1. OursHand \in Msgs /\ wire \in [Conn -> Seq(Msgs)]
      BY <1>a, SentAreMsgs, HandshakeAssumptions DEF TypeOK
    <3>2. \A e \in Conn : \/ Deliver(wire, c, OursHand)[e] = wire[e]
                          \/ Deliver(wire, c, OursHand)[e] = Append(wire[e], OursHand)
      BY <1>a, <3>1, DeliverShape
    <3>. QED
      BY <1>4, <3>2 DEF SendHand, OursHand
  <2>2. SelfWire'
    <3> SUFFICES ASSUME NEW e \in Conn, ip'[e] = SelfIP
                 PROVE  \A i \in 1..Len(wire'[e]) : wire'[e][i] = OursHand
      BY DEF SelfWire
    <3>1. ip[e] = SelfIP /\ wire[e] \in Seq(Msgs)
      BY <1>a, <1>4 DEF SendHand, TypeOK
    <3>2. \A i \in 1..Len(wire[e]) : wire[e][i] = OursHand
      BY <1>a, <3>1 DEF SelfWire
    <3>. QED
      BY <2>1, <3>1, <3>2, AppendOurs
  <2>3. FreeClean'
    BY <1>a, <1>4 DEF SendHand, FreeClean, TypeOK, Deliver
  <2>4. LinkedIsSelf' /\ NoSelfConnection'
    BY <1>a, <1>4 DEF SendHand, LinkedIsSelf, NoSelfConnection, TypeOK
  <2>. QED
    BY <1>0, <2>2, <2>3, <2>4 DEF IInv
<1>5. ASSUME NEW c \in Conn, ReceiveShake(c) PROVE IInv'
  <2>1. /\ wire' = [wire EXCEPT ![c] = Tail(wire[c])]
        /\ phase' = [phase EXCEPT ![c] = phase'[c]]
        /\ phase'[c] \in {"shaken", "closed"}
        /\ wire[c] # <<>> /\ phase[c] = "outShake"
        /\ UNCHANGED <<ip, link>>
    BY <1>a, <1>5 DEF ReceiveShake, TypeOK
  <2>2. ip[c] = SelfIP => phase'[c] = "closed"
    BY <1>a, <1>5, TailOfOurs, OursHandFields DEF ReceiveShake, SelfWire, TypeOK
  <2>3. ip[c] = SelfIP => \A i \in 1..Len(Tail(wire[c])) : Tail(wire[c])[i] = OursHand
    BY <1>a, <2>1, TailOfOurs DEF SelfWire, TypeOK
  <2>4. SelfWire'
    BY <1>a, <2>1, <2>3 DEF SelfWire, TypeOK
  <2>5. FreeClean' /\ LinkedIsSelf' /\ NoSelfConnection'
    BY <1>a, <2>1, <2>2 DEF FreeClean, LinkedIsSelf, NoSelfConnection, TypeOK
  <2>. QED
    BY <1>0, <2>4, <2>5 DEF IInv
<1>6. ASSUME NEW c \in Conn, ReceiveHand(c) PROVE IInv'
  <2> DEFINE rest == [wire EXCEPT ![c] = Tail(@)]
  <2>1. /\ phase' = [phase EXCEPT ![c] = phase'[c]]
        /\ phase'[c] \in {"shaken", "closed"}
        /\ wire[c] # <<>> /\ phase[c] = "inHand"
        /\ UNCHANGED <<ip, link>>
    BY <1>a, <1>6 DEF ReceiveHand, TypeOK
  <2>2. CASE ip[c] = SelfIP
    <3>1. phase'[c] = "closed" /\ wire' = rest
      BY <1>a, <1>6, <2>2, TailOfOurs, OursHandFields DEF ReceiveHand, SelfWire, TypeOK
    <3>2. \A i \in 1..Len(Tail(wire[c])) : Tail(wire[c])[i] = OursHand
      BY <1>a, <2>1, <2>2, TailOfOurs DEF SelfWire, TypeOK
    <3>3. SelfWire'
      BY <1>a, <2>1, <3>1, <3>2 DEF SelfWire, TypeOK
    <3>4. FreeClean' /\ LinkedIsSelf' /\ NoSelfConnection'
      BY <1>a, <2>1, <3>1 DEF FreeClean, LinkedIsSelf, NoSelfConnection, TypeOK
    <3>. QED
      BY <1>0, <3>3, <3>4 DEF IInv
  <2>3. CASE ip[c] # SelfIP
    <3>1. link[c] = NoConn
      BY <1>a, <2>3 DEF LinkedIsSelf
    <3>2. wire' = rest
      BY <1>6, <3>1 DEF ReceiveHand, Deliver
    <3>3. SelfWire'
      BY <1>a, <2>1, <2>3, <3>2 DEF SelfWire, TypeOK
    <3>4. FreeClean' /\ LinkedIsSelf' /\ NoSelfConnection'
      BY <1>a, <2>1, <2>3, <3>2 DEF FreeClean, LinkedIsSelf, NoSelfConnection, TypeOK
    <3>. QED
      BY <1>0, <3>3, <3>4 DEF IInv
  <2>. QED
    BY <2>2, <2>3
<1>7. ASSUME NEW c \in Conn, HandshakeTimeout(c) \/ AddConnection(c) \/ Disconnect(c)
      PROVE IInv'
  <2>1. /\ phase' = [phase EXCEPT ![c] = phase'[c]]
        /\ phase'[c] \in {"active", "closed"}
        /\ phase'[c] = "active" => phase[c] = "shaken"
        /\ phase[c] # "free"
        /\ UNCHANGED <<ip, wire, link>>
    BY <1>a, <1>7 DEF HandshakeTimeout, AddConnection, Disconnect, TypeOK
  <2>2. FreeClean' /\ LinkedIsSelf' /\ SelfWire' /\ NoSelfConnection'
    BY <1>a, <2>1 DEF FreeClean, LinkedIsSelf, SelfWire, NoSelfConnection, TypeOK
  <2>. QED
    BY <1>0, <2>2 DEF IInv
<1>8. ASSUME NEW c \in Conn, Recycle(c) PROVE IInv'
  <2>1. FreeClean' /\ LinkedIsSelf'
    BY <1>a, <1>8 DEF Recycle, FreeClean, LinkedIsSelf, TypeOK
  <2>2. SelfWire' /\ NoSelfConnection'
    BY <1>a, <1>8, HandshakeAssumptions DEF Recycle, SelfWire, NoSelfConnection, TypeOK
  <2>. QED
    BY <1>0, <2>1, <2>2 DEF IInv
<1>9. CASE UNCHANGED hsVars
  BY <1>a, <1>9 DEF hsVars, IInv, TypeOK, FreeClean, LinkedIsSelf, SelfWire, NoSelfConnection
<1>. QED
  BY <1>1, <1>2, <1>3, <1>4, <1>5, <1>6, <1>7, <1>8, <1>9 DEF HsNext, HandshakeStep
LEMMA InitIInv == Init => IInv
BY HandshakeAssumptions
DEF Init, IInv, TypeOK, IPs, Versions, Phases, FreeClean, LinkedIsSelf,
    SelfWire, NoSelfConnection

(* Self-connection detection (HandShake.cpp:113): for every number of      *)
(* slots and addresses, no slot of a dial to our own address is ever       *)
(* shaken or inserted into the connection table.  Along IInv: the two      *)
(* slots of a self-dial only ever read our own Hand, which the outbound    *)
(* side rejects as not a Shake and the inbound side as carrying our nonce. *)
THEOREM SelfConnectionRefused == Init /\ [][HsNext]_hsVars => []NoSelfConnection
<1>1. Init => IInv
  BY InitIInv
<1>2. IInv => NoSelfConnection
  BY DEF IInv
<1>. QED
  BY <1>1, <1>2, IInvInductive, PTL

=============================================================================
