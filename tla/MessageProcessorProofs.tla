----------------------- MODULE MessageProcessorProofs -----------------------
(***************************************************************************)
(* Proofs about MessageProcessor.tla for every number of slots, addresses, *)
(* difficulties, chunks and every cooldown: type correctness of the       *)
(* processor's state, and the cooldown of SendTxHashSet on a connection    *)
(* (MessageProcessor.cpp:413-421).                                         *)
(***************************************************************************)
EXTENDS MessageProcessor, HandshakeProofs, TLAPS

(* An open slot has a peer address: dials and accepts set it, Recycle      *)
(* clears it with the phase.                                               *)
OpenHasAddress ==
    \A c \in Conn : phase[c] # "free" => ip[c] \in IPs

(* A free slot has never streamed a snapshot: Recycle resets servedAt.     *)
FreeUnserved ==
    \A c \in Conn : phase[c] = "free" => servedAt[c] = 0

(* The clock never runs behind a recorded request.                         *)
ClockAhead ==
    /\ now >= TxHashSetCooldown
    /\ \A a \in IPs : lastTxHashSetRequest[a] <= now

(* SendTxHashSet records the request (line 421) in the step in which the   *)
(* snapshot starts, on the Peer shared by every connection of the address: *)
(* the last snapshot of an open slot started no later than its address's   *)
(* last request.                                                           *)
ServedBeforeRequest ==
    \A c \in Conn : phase[c] # "free" => servedAt[c] <= lastTxHashSetRequest[ip[c]]

(* A thread that passed the cooldown test (lines 413-418) and has not yet  *)
(* recorded the request: its own last snapshot is at least the cooldown    *)
(* old, whatever other connections of its address did in between.         *)
CheckedCooldown ==
    \A c \in Conn : proc[c] = "txhsUpdate" => now - servedAt[c] >= TxHashSetCooldown

(* A thread inside the streaming loop has a chunk left to send.            *)
StreamHasChunks ==
    \A c \in Conn : proc[c] = "txhsStream" => chunks[c] >= 1

(* The inductive strengthening of ProcTypeOK and TxHashSetServedApart.     *)
ProcIInv ==
    /\ ProcTypeOK
    /\ OpenHasAddress
    /\ FreeUnserved
    /\ ClockAhead
    /\ ServedBeforeRequest
    /\ CheckedCooldown
    /\ StreamHasChunks

-----------------------------------------------------------------------------
(* What the connection loop does with a status (Finish) closes at most     *)
(* connection c and bans at most its address.                              *)
LEMMA FinishShape ==
    ASSUME NEW c \in Conn, ip[c] \in IPs, banned \subseteq IPs,
           NEW st, Finish(c, st)
    PROVE  /\ phase' \in {phase, [phase EXCEPT ![c] = "closed"]}
           /\ banned' \subseteq IPs
BY DEF Finish

(* A step that handles one message without touching SendTxHashSet's state: *)
(* it may close connection c, ban, record history and move the chain.      *)
QuietStep(c) ==
    /\ phase[c] = "active"
    /\ phase' \in {phase, [phase EXCEPT ![c] = "closed"]}
    /\ banned' \subseteq IPs
    /\ misbehaved' \subseteq IPs
    /\ invalidFrom' \subseteq IPs
    /\ chainTD' \in TDs
    /\ UNCHANGED <<dir, ip, ver, wire, link, now, shutdown, syncStatus,
                   lastTxHashSetRequest, proc, chunks, servedAt, servedIP>>

LEMMA QuietStepIInv ==
    ASSUME ProcIInv, NEW c \in Conn, QuietStep(c)
    PROVE  ProcIInv'
<1>1. \A d \in Conn : phase'[d] = "free" <=> phase[d] = "free"
  <2>1. CASE phase' = phase
    BY <2>1
  <2>2. CASE phase' = [phase EXCEPT ![c] = "closed"]
    BY <2>2 DEF QuietStep, ProcIInv, ProcTypeOK, TypeOK
  <2>. QED
    BY <2>1, <2>2 DEF QuietStep
<1>2. ProcTypeOK'
  BY DEF QuietStep, ProcIInv, ProcTypeOK, TypeOK, Phases
<1>. QED
  BY <1>1, <1>2 DEF QuietStep, ProcIInv, OpenHasAddress, FreeUnserved, ClockAhead,
                    ServedBeforeRequest, CheckedCooldown, StreamHasChunks

(* Every handler of ProcessMessage other than SendTxHashSet is such a      *)
(* step: it runs on an active connection, whose address is a peer's.      *)
LEMMA ReceiveIsQuiet ==
    ASSUME ProcIInv, NEW c \in Conn,
           \/ RecvComplaintOrGarbage(c)
           \/ RecvQuery(c)
           \/ \E valid \in BOOLEAN : RecvHeader(c, valid) \/ RecvHeaders(c, valid)
           \/ \E td \in TDs, valid \in BOOLEAN :
                 RecvBlock(c, td, valid) \/ RecvCompactBlock(c, td, valid)
           \/ RecvTransaction(c)
           \/ RecvTxHashSetArchive(c)
    PROVE  QuietStep(c)
<1> USE DEF QuietStep, UnchangedAfterMessage
<1>1. Ready(c) => ip[c] \in IPs /\ banned \subseteq IPs
                  /\ misbehaved \subseteq IPs /\ invalidFrom \subseteq IPs
                  /\ chainTD \in TDs
  BY DEF Ready, ProcIInv, OpenHasAddress, ProcTypeOK
<1>2. ASSUME Ready(c), NEW bad \in BOOLEAN, Misbehaves(c, bad)
      PROVE  misbehaved' \subseteq IPs
  BY <1>1, <1>2 DEF Misbehaves
<1>3. ASSUME Ready(c), NEW r, JudgedInvalid(c, r)
      PROVE  invalidFrom' \subseteq IPs
  BY <1>1, <1>3 DEF JudgedInvalid
<1>4. ASSUME Ready(c), NEW st, Finish(c, st)
      PROVE  /\ phase' \in {phase, [phase EXCEPT ![c] = "closed"]}
             /\ banned' \subseteq IPs
  BY <1>1, <1>4, FinishShape
<1>5. CASE RecvComplaintOrGarbage(c)
  BY <1>1, <1>2, <1>4, <1>5 DEF RecvComplaintOrGarbage, Ready
<1>6. CASE RecvQuery(c)
  BY <1>1, <1>4, <1>5, <1>6 DEF RecvQuery, Ready
<1>7. ASSUME NEW valid \in BOOLEAN, RecvHeader(c, valid) PROVE QuietStep(c)
  <2>1. Ready(c) /\ Misbehaves(c, ~valid) /\ chainTD' = chainTD
    BY <1>7 DEF RecvHeader
  <2>2. misbehaved' \subseteq IPs
    BY <2>1, <1>2
  <2>3. CASE syncStatus # "NOT_SYNCING"
    BY <1>1, <1>4, <2>1, <2>2, <2>3, <1>7 DEF RecvHeader, Ready
  <2>4. CASE syncStatus = "NOT_SYNCING"
    <3>1. PICK r \in AddResult(valid), hasBlock \in BOOLEAN, ok \in BOOLEAN :
             /\ JudgedInvalid(c, r)
             /\ Finish(c, CASE r = "EXCEPTION" -> "BAN_PEER"
                            [] r = "INVALID" -> "BAN_PEER"
                            [] ~hasBlock -> SendStatus(ok)
                            [] r = "SUCCESS" -> "SUCCESS"
                            [] OTHER -> "UNKNOWN_ERROR")
      BY <1>7, <2>4 DEF RecvHeader
    <3>. QED
      BY <1>1, <1>3, <1>4, <2>1, <2>2, <3>1, <1>7 DEF RecvHeader, Ready
  <2>. QED
    BY <2>3, <2>4
<1>8. ASSUME NEW valid \in BOOLEAN, RecvHeaders(c, valid) PROVE QuietStep(c)
  <2>1. Ready(c) /\ Misbehaves(c, ~valid)
    BY <1>8 DEF RecvHeaders
  <2>2. PICK r \in AddResult(valid) :
           /\ JudgedInvalid(c, r)
           /\ Finish(c, IF r \in {"INVALID", "EXCEPTION"} THEN "BAN_PEER" ELSE "SUCCESS")
    BY <1>8 DEF RecvHeaders
  <2>. QED
    BY <1>1, <1>2, <1>3, <1>4, <2>1, <2>2, <1>8 DEF RecvHeaders, Ready
<1>9. ASSUME NEW td \in TDs, NEW valid \in BOOLEAN, RecvBlock(c, td, valid)
      PROVE  QuietStep(c)
  <2>1. Ready(c) /\ Misbehaves(c, ~valid)
    BY <1>9 DEF RecvBlock
  <2>2. misbehaved' \subseteq IPs
    BY <2>1, <1>2
  <2>3. CASE syncStatus = "SYNCING_BLOCKS"
    BY <1>1, <1>4, <2>1, <2>2, <2>3, <1>9 DEF RecvBlock, Ready
  <2>4. CASE syncStatus # "SYNCING_BLOCKS"
    <3>1. PICK r \in AddResult(valid), ok \in BOOLEAN :
             /\ JudgedInvalid(c, r)
             /\ chainTD' = IF r = "SUCCESS" /\ td > chainTD THEN td ELSE chainTD
             /\ Finish(c, CASE r \in {"INVALID", "EXCEPTION"} -> "BAN_PEER"
                            [] r = "ORPHANED" /\ td > chainTD -> SendStatus(ok)
                            [] OTHER -> "SUCCESS")
      BY <1>9, <2>4 DEF RecvBlock
    <3>. QED
      BY <1>1, <1>3, <1>4, <2>1, <2>2, <3>1, <1>9 DEF RecvBlock, Ready
  <2>. QED
    BY <2>3, <2>4
<1>10. ASSUME NEW td \in TDs, NEW valid \in BOOLEAN, RecvCompactBlock(c, td, valid)
       PROVE  QuietStep(c)
  <2>1. Ready(c) /\ Misbehaves(c, ~valid)
    BY <1>10 DEF RecvCompactBlock
  <2>2. PICK r \in AddResult(valid) \cup (IF valid THEN {"TRANSACTIONS_MISSING"} ELSE {}),
             ok \in BOOLEAN :
          /\ JudgedInvalid(c, r)
          /\ chainTD' = IF r = "SUCCESS" /\ td > chainTD THEN td ELSE chainTD
          /\ Finish(c, CASE r = "EXCEPTION" -> "BAN_PEER"
                         [] r = "SUCCESS" -> "SUCCESS"
                         [] r = "TRANSACTIONS_MISSING" -> SendStatus(ok)
                         [] r = "ORPHANED" /\ syncStatus = "NOT_SYNCING" /\ td > chainTD
                              -> SendStatus(ok)
                         [] OTHER -> "UNKNOWN_ERROR")
    BY <1>10 DEF RecvCompactBlock
  <2>. QED
    BY <1>1, <1>2, <1>3, <1>4, <2>1, <2>2, <1>10 DEF RecvCompactBlock, Ready
<1>11. CASE RecvTransaction(c)
  <2>1. Ready(c)
    BY <1>11 DEF RecvTransaction
  <2>2. \E st : Finish(c, st)
    BY <1>11 DEF RecvTransaction
  <2>. QED
    BY <1>1, <1>4, <1>11, <2>1, <2>2 DEF RecvTransaction, Ready
<1>12. CASE RecvTxHashSetArchive(c)
  <2>1. Ready(c)
    BY <1>12 DEF RecvTxHashSetArchive
  <2>2. PICK ok \in BOOLEAN : Finish(c, IF ok THEN "SUCCESS" ELSE "BAN_PEER")
                               /\ Misbehaves(c, ~ok)
    BY <1>12 DEF RecvTxHashSetArchive
  <2>. QED
    BY <1>1, <1>2, <1>4, <1>12, <2>1, <2>2 DEF RecvTxHashSetArchive, Ready
<1>. QED
  BY <1>5, <1>6, <1>7, <1>8, <1>9, <1>10, <1>11, <1>12

-----------------------------------------------------------------------------
(* SendTxHashSet, lines 413-418: the cooldown test on the Peer.            *)
LEMMA CheckIInv ==
    ASSUME ProcIInv, NEW c \in Conn, TxHashSetCheck(c)
    PROVE  ProcIInv'
<1> DEFINE tooSoon == lastTxHashSetRequest[ip[c]] > now - TxHashSetCooldown
<1>1. phase[c] = "active" /\ proc[c] = "ready" /\ ip[c] \in IPs
  BY DEF TxHashSetCheck, Ready, ProcIInv, OpenHasAddress
<1>2. misbehaved' \subseteq IPs
  BY <1>1 DEF TxHashSetCheck, Misbehaves, ProcIInv, ProcTypeOK
<1>3. CASE tooSoon
  <2>1. QuietStep(c)
    BY <1>1, <1>2, <1>3, FinishShape DEF TxHashSetCheck, QuietStep, ProcIInv, ProcTypeOK
  <2>. QED
    BY <2>1, QuietStepIInv
<1>4. CASE ~tooSoon
  <2>1. /\ proc' = [proc EXCEPT ![c] = "txhsUpdate"]
        /\ UNCHANGED <<hsVars, now, shutdown, syncStatus, lastTxHashSetRequest,
                       chainTD, chunks, banned, invalidFrom, servedAt, servedIP>>
    BY <1>4 DEF TxHashSetCheck, hsVars
  <2>2. servedAt[c] <= lastTxHashSetRequest[ip[c]]
    BY <1>1 DEF ProcIInv, ServedBeforeRequest
  <2>3. now - servedAt[c] >= TxHashSetCooldown
    BY <1>1, <1>4, <2>2, ProcessorAssumptions
       DEF ProcIInv, ProcTypeOK, Times
  <2>4. ProcTypeOK'
    BY <1>2, <2>1 DEF ProcIInv, ProcTypeOK, TypeOK, hsVars, ProcPhases
  <2>5. CheckedCooldown'
    BY <2>1, <2>3 DEF ProcIInv, ProcTypeOK, CheckedCooldown
  <2>6. StreamHasChunks'
    BY <2>1 DEF ProcIInv, ProcTypeOK, StreamHasChunks
  <2>. QED
    BY <2>1, <2>4, <2>5, <2>6
       DEF ProcIInv, hsVars, OpenHasAddress, FreeUnserved, ClockAhead, ServedBeforeRequest
<1>. QED
  BY <1>3, <1>4

(* SendTxHashSet, lines 421-456: the request is recorded on the Peer of    *)
(* the address, and the snapshot starts or the call gives up.              *)
LEMMA UpdateIInv ==
    ASSUME ProcIInv, NEW c \in Conn, TxHashSetUpdate(c)
    PROVE  ProcIInv'
<1>1. /\ phase[c] = "active" /\ proc[c] = "txhsUpdate" /\ ip[c] \in IPs
      /\ lastTxHashSetRequest' = [lastTxHashSetRequest EXCEPT ![ip[c]] = now]
      /\ UNCHANGED <<hsVars, now, shutdown, syncStatus, chainTD, banned,
                     misbehaved, invalidFrom>>
  BY DEF TxHashSetUpdate, ProcIInv, OpenHasAddress
<1>2. now \in Times /\ lastTxHashSetRequest \in [IPs -> Times]
      /\ servedAt \in [Conn -> Times] /\ phase \in [Conn -> Phases]
      /\ ip \in [Conn -> IPs \cup {NoIP}]
  BY DEF ProcIInv, ProcTypeOK, TypeOK
<1>3. \A a \in IPs : lastTxHashSetRequest'[a] \in {lastTxHashSetRequest[a], now}
                     /\ lastTxHashSetRequest'[a] >= lastTxHashSetRequest[a]
  BY <1>1, <1>2 DEF ProcIInv, ClockAhead, Times
<1>4. lastTxHashSetRequest'[ip[c]] = now
  BY <1>1, <1>2
<1>5. CASE /\ proc' = [proc EXCEPT ![c] = "txhsStream"]
           /\ chunks' = [chunks EXCEPT ![c] = StreamChunks]
           /\ servedAt' = [servedAt EXCEPT ![c] = now]
           /\ servedIP' = [servedIP EXCEPT ![ip[c]] = now]
  <2>1. ProcTypeOK'
    BY <1>1, <1>2, <1>3, <1>5, ProcessorAssumptions
       DEF ProcIInv, ProcTypeOK, TypeOK, hsVars, ProcPhases
  <2>2. ServedBeforeRequest'
    BY <1>1, <1>2, <1>3, <1>4, <1>5
       DEF ProcIInv, ServedBeforeRequest, ClockAhead, hsVars, Times
  <2>3. (FreeUnserved /\ ClockAhead /\ CheckedCooldown /\ StreamHasChunks)'
    BY <1>1, <1>2, <1>3, <1>5, ProcessorAssumptions
       DEF ProcIInv, ProcTypeOK, FreeUnserved, ClockAhead, CheckedCooldown,
           StreamHasChunks, hsVars, Times
  <2>. QED
    BY <1>1, <2>1, <2>2, <2>3 DEF ProcIInv, OpenHasAddress, hsVars
<1>6. CASE /\ proc' = [proc EXCEPT ![c] = "ready"]
           /\ UNCHANGED <<chunks, servedAt, servedIP>>
  <2>1. ProcTypeOK'
    BY <1>1, <1>2, <1>3, <1>6
       DEF ProcIInv, ProcTypeOK, TypeOK, hsVars, ProcPhases
  <2>2. ServedBeforeRequest'
    BY <1>1, <1>2, <1>3, <1>6 DEF ProcIInv, ServedBeforeRequest, hsVars, Times
  <2>3. (FreeUnserved /\ ClockAhead /\ CheckedCooldown /\ StreamHasChunks)'
    BY <1>1, <1>2, <1>3, <1>6
       DEF ProcIInv, ProcTypeOK, FreeUnserved, ClockAhead, CheckedCooldown,
           StreamHasChunks, hsVars, Times
  <2>. QED
    BY <1>1, <2>1, <2>2, <2>3 DEF ProcIInv, OpenHasAddress, hsVars
<1>. QED
  BY <1>5, <1>6 DEF TxHashSetUpdate

(* SendTxHashSet, lines 462-480: one chunk of the archive, or the ban that *)
(* ends the loop.                                                          *)
LEMMA StreamChunkIInv ==
    ASSUME ProcIInv, NEW c \in Conn, TxHashSetStreamChunk(c)
    PROVE  ProcIInv'
<1>1. /\ phase[c] = "active" /\ proc[c] = "txhsStream" /\ ip[c] \in IPs
      /\ chunks[c] \in 1..StreamChunks
      /\ UNCHANGED <<dir, ip, ver, wire, link, now, shutdown, syncStatus,
                     lastTxHashSetRequest, chainTD, histVars>>
  BY DEF TxHashSetStreamChunk, ProcIInv, OpenHasAddress, StreamHasChunks, ProcTypeOK
<1>2. PICK sent \in BOOLEAN :
         IF ~sent \/ shutdown
         THEN /\ Finish(c, "BAN_PEER")
              /\ proc' = [proc EXCEPT ![c] = "ready"]
              /\ chunks' = [chunks EXCEPT ![c] = 0]
         ELSE /\ chunks' = [chunks EXCEPT ![c] = @ - 1]
              /\ proc' = [proc EXCEPT ![c] = IF chunks[c] = 1 THEN "ready" ELSE "txhsStream"]
              /\ UNCHANGED <<phase, banned>>
  BY DEF TxHashSetStreamChunk
<1>3. /\ phase' \in {phase, [phase EXCEPT ![c] = "closed"]}
      /\ banned' \subseteq IPs
      /\ proc' \in [Conn -> ProcPhases]
      /\ chunks' \in [Conn -> 0..StreamChunks]
      /\ \A d \in Conn : d # c => proc'[d] = proc[d] /\ chunks'[d] = chunks[d]
      /\ proc'[c] = "txhsStream" => chunks'[c] >= 1
      /\ proc'[c] \in {"ready", "txhsStream"}
  <2>1. proc \in [Conn -> ProcPhases] /\ chunks \in [Conn -> 0..StreamChunks]
        /\ banned \subseteq IPs
    BY DEF ProcIInv, ProcTypeOK
  <2>2. CASE ~sent \/ shutdown
    BY <1>1, <1>2, <2>1, <2>2, FinishShape, ProcessorAssumptions DEF ProcPhases
  <2>3. CASE ~(~sent \/ shutdown)
    BY <1>1, <1>2, <2>1, <2>3, ProcessorAssumptions DEF ProcPhases
  <2>. QED
    BY <2>2, <2>3
<1>4. \A d \in Conn : phase'[d] = "free" <=> phase[d] = "free"
  BY <1>1, <1>3 DEF ProcIInv, ProcTypeOK, TypeOK
<1>5. ProcTypeOK'
  <2>1. TypeOK'
    BY <1>1, <1>3 DEF ProcIInv, ProcTypeOK, TypeOK, Phases
  <2>. QED
    BY <1>1, <1>3, <2>1 DEF ProcIInv, ProcTypeOK, histVars
<1>6. (OpenHasAddress /\ FreeUnserved /\ ClockAhead /\ ServedBeforeRequest)'
  BY <1>1, <1>4 DEF ProcIInv, histVars, OpenHasAddress, FreeUnserved, ClockAhead,
                    ServedBeforeRequest
<1>7. CheckedCooldown'
  BY <1>1, <1>3 DEF ProcIInv, histVars, CheckedCooldown
<1>8. StreamHasChunks'
  BY <1>3 DEF ProcIInv, StreamHasChunks
<1>. QED
  BY <1>5, <1>6, <1>7, <1>8 DEF ProcIInv

(* The clock, a shutdown request and the sync controller.                 *)
LEMMA EnvironmentIInv ==
    ASSUME ProcIInv, Tick \/ RequestShutdown \/ \E s \in SyncStatuses : SetSyncStatus(s)
    PROVE  ProcIInv'
<1>1. CASE Tick
  <2>1. now' = now + 1 /\ now + 1 \in Times
        /\ UNCHANGED <<hsVars, shutdown, syncStatus, lastTxHashSetRequest,
                       chainTD, proc, chunks, banned, histVars>>
    BY <1>1, ProcessorAssumptions DEF Tick, ProcIInv, ProcTypeOK, Times
  <2>2. ProcTypeOK'
    BY <2>1 DEF ProcIInv, ProcTypeOK, TypeOK, hsVars, histVars
  <2>3. ClockAhead'
    BY <2>1, ProcessorAssumptions DEF ProcIInv, ProcTypeOK, ClockAhead, Times
  <2>4. CheckedCooldown'
    <3>1. servedAt' = servedAt /\ proc' = proc
      BY <2>1 DEF histVars
    <3>. QED
      BY <2>1, <3>1, ProcessorAssumptions DEF ProcIInv, ProcTypeOK, CheckedCooldown, Times
  <2>. QED
    BY <2>1, <2>2, <2>3, <2>4 DEF ProcIInv, hsVars, histVars, OpenHasAddress,
                             FreeUnserved, ServedBeforeRequest, StreamHasChunks
<1>2. CASE RequestShutdown \/ \E s \in SyncStatuses : SetSyncStatus(s)
  BY <1>2 DEF RequestShutdown, SetSyncStatus, ProcIInv, ProcTypeOK, TypeOK,
              hsVars, histVars, OpenHasAddress, FreeUnserved, ClockAhead,
              ServedBeforeRequest, CheckedCooldown, StreamHasChunks
<1>. QED
  BY <1>1, <1>2

-----------------------------------------------------------------------------
(* The steps of PerformHandshake, a remote peer's send, the insertion into *)
(* the table and a disconnect keep every slot's address, and neither free  *)
(* a slot nor take a free one.                                             *)
LEMMA HandshakeKeepsSlots ==
    ASSUME TypeOK, NEW c \in Conn,
           \/ \E m \in RemoteMsgs : RemoteSend(c, m)
           \/ HandshakeStep(c)
           \/ AddConnection(c)
           \/ Disconnect(c)
    PROVE  /\ ip' = ip
           /\ \A e \in Conn : phase'[e] = "free" <=> phase[e] = "free"
<1> DEFINE Moves(x) == /\ phase[c] # "free" /\ x # "free"
                       /\ phase' = [phase EXCEPT ![c] = x]
<1>1. ASSUME NEW x, Moves(x) PROVE \A e \in Conn : phase'[e] = "free" <=> phase[e] = "free"
  BY <1>1 DEF TypeOK
<1>2. CASE \E m \in RemoteMsgs : RemoteSend(c, m)
  BY <1>2 DEF RemoteSend
<1>3. CASE SendHand(c)
  BY <1>1, <1>3 DEF SendHand
<1>4. CASE ReceiveShake(c)
  <2>1. ip' = ip
    BY <1>4 DEF ReceiveShake
  <2>2. Moves("shaken") \/ Moves("closed")
    BY <1>4 DEF ReceiveShake
  <2>. QED
    BY <1>1, <2>1, <2>2
<1>5. CASE ReceiveHand(c)
  <2>1. ip' = ip
    BY <1>5 DEF ReceiveHand
  <2>2. Moves("shaken") \/ Moves("closed")
    BY <1>5 DEF ReceiveHand
  <2>. QED
    BY <1>1, <2>1, <2>2
<1>6. CASE HandshakeTimeout(c) \/ AddConnection(c) \/ Disconnect(c)
  BY <1>1, <1>6 DEF HandshakeTimeout, AddConnection, Disconnect
<1>. QED
  BY <1>2, <1>3, <1>4, <1>5, <1>6 DEF HandshakeStep

(* A handshake step of the composed system: the processor's state stays,   *)
(* except that a reused slot forgets when it last streamed a snapshot.     *)
LEMMA HsStepIInv ==
    ASSUME ProcIInv, HsStep
    PROVE  ProcIInv'
<1>0. TypeOK /\ ProcTypeOK
  BY DEF ProcIInv, ProcTypeOK
<1>1. CASE /\ \E c \in Conn :
                \/ \E a \in RemoteIPs : DialRemote(c, a) \/ Accept(c, a)
                \/ \E d \in Conn : DialSelf(c, d)
                \/ \E m \in RemoteMsgs : RemoteSend(c, m)
                \/ HandshakeStep(c)
                \/ AddConnection(c)
                \/ Disconnect(c) /\ proc[c] = "ready"
           /\ UNCHANGED <<procVars, histVars>>
  <2>1. UNCHANGED <<now, shutdown, syncStatus, lastTxHashSetRequest, chainTD,
                    proc, chunks, banned, misbehaved, invalidFrom, servedAt, servedIP>>
    BY <1>1 DEF procVars, histVars
  <2>2. TypeOK'
    <3>1. HsNext
      BY <1>1 DEF HsNext
    <3>. QED
      BY <1>0, <3>1, TypeInductive
  <2>3. (OpenHasAddress /\ FreeUnserved /\ ServedBeforeRequest)'
    <3>1. PICK c \in Conn :
                \/ \E a \in RemoteIPs : DialRemote(c, a) \/ Accept(c, a)
                \/ \E d \in Conn : DialSelf(c, d)
                \/ \E m \in RemoteMsgs : RemoteSend(c, m)
                \/ HandshakeStep(c)
                \/ AddConnection(c)
                \/ Disconnect(c) /\ proc[c] = "ready"
      BY <1>1
    <3>2. CASE \E a \in RemoteIPs : DialRemote(c, a) \/ Accept(c, a)
      <4>1. PICK a \in RemoteIPs :
               /\ phase[c] = "free" /\ phase'[c] # "free"
               /\ phase' = [phase EXCEPT ![c] = phase'[c]]
               /\ ip' = [ip EXCEPT ![c] = a]
        BY <3>2, <1>0 DEF DialRemote, Accept, TypeOK
      <4>2. servedAt[c] = 0 /\ lastTxHashSetRequest[a] \in Times
        BY <4>1 DEF ProcIInv, FreeUnserved, ProcTypeOK, IPs
      <4>. QED
        BY <1>0, <2>1, <4>1, <4>2
           DEF ProcIInv, TypeOK, OpenHasAddress, FreeUnserved, ServedBeforeRequest,
               IPs, Times
    <3>3. CASE \E d \in Conn : DialSelf(c, d)
      <4>1. PICK d \in Conn :
               /\ c # d /\ phase[c] = "free" /\ phase[d] = "free"
               /\ phase' = [phase EXCEPT ![c] = "outHand", ![d] = "inHand"]
               /\ ip' = [ip EXCEPT ![c] = SelfIP, ![d] = SelfIP]
        BY <3>3 DEF DialSelf
      <4>2. servedAt[c] = 0 /\ servedAt[d] = 0
            /\ lastTxHashSetRequest[SelfIP] \in Times
        BY <4>1 DEF ProcIInv, FreeUnserved, ProcTypeOK, IPs
      <4>3. \A e \in Conn : /\ phase'[e] = "free" <=> (phase[e] = "free" /\ e \notin {c, d})
                            /\ ip'[e] = IF e \in {c, d} THEN SelfIP ELSE ip[e]
        BY <1>0, <4>1 DEF TypeOK
      <4>4. OpenHasAddress'
        BY <4>3 DEF ProcIInv, OpenHasAddress, IPs
      <4>5. FreeUnserved'
        BY <2>1, <4>3 DEF ProcIInv, FreeUnserved
      <4>6. ServedBeforeRequest'
        BY <1>0, <2>1, <4>2, <4>3 DEF ProcIInv, ServedBeforeRequest, Times
      <4>. QED
        BY <4>4, <4>5, <4>6
    <3>4. CASE \/ \E m \in RemoteMsgs : RemoteSend(c, m)
               \/ HandshakeStep(c)
               \/ AddConnection(c)
               \/ Disconnect(c) /\ proc[c] = "ready"
      <4>1. ip' = ip /\ \A e \in Conn : phase'[e] = "free" <=> phase[e] = "free"
        BY <1>0, <3>4, HandshakeKeepsSlots
      <4>. QED
        BY <2>1, <4>1 DEF ProcIInv, OpenHasAddress, FreeUnserved, ServedBeforeRequest
    <3>. QED
      BY <3>1, <3>2, <3>3, <3>4
  <2>. QED
    BY <2>1, <2>2, <2>3
       DEF ProcIInv, ProcTypeOK, ClockAhead, CheckedCooldown, StreamHasChunks
<1>2. ASSUME NEW c \in Conn, Recycle(c),
             servedAt' = [servedAt EXCEPT ![c] = 0],
             UNCHANGED <<now, shutdown, syncStatus, lastTxHashSetRequest, chainTD,
                         proc, chunks, banned, misbehaved, invalidFrom, servedIP>>
      PROVE  ProcIInv'
  <2>1. TypeOK'
    BY <1>0, <1>2, TypeInductive DEF HsNext
  <2>2. /\ phase' = [phase EXCEPT ![c] = "free"]
        /\ ip' = [ip EXCEPT ![c] = NoIP]
    BY <1>2 DEF Recycle
  <2>3. ProcTypeOK'
    BY <1>0, <1>2, <2>1, ProcessorAssumptions DEF ProcTypeOK, Times
  <2>4. \A e \in Conn : /\ phase'[e] = "free" <=> (phase[e] = "free" \/ e = c)
                        /\ e # c => ip'[e] = ip[e] /\ servedAt'[e] = servedAt[e]
                        /\ servedAt'[c] = 0
    BY <1>0, <1>2, <2>2 DEF ProcTypeOK, TypeOK
  <2>5. (OpenHasAddress /\ FreeUnserved /\ ServedBeforeRequest)'
    BY <1>2, <2>4 DEF ProcIInv, OpenHasAddress, FreeUnserved, ServedBeforeRequest
  <2>6. (ClockAhead /\ CheckedCooldown /\ StreamHasChunks)'
    BY <1>0, <1>2, ProcessorAssumptions
       DEF ProcIInv, ProcTypeOK, ClockAhead, CheckedCooldown, StreamHasChunks, Times
  <2>. QED
    BY <2>3, <2>5, <2>6 DEF ProcIInv
<1>. QED
  BY <1>1, <1>2 DEF HsStep

-----------------------------------------------------------------------------
LEMMA ProcInitIInv == ProcInit => ProcIInv
<1> SUFFICES ASSUME ProcInit PROVE ProcIInv
  OBVIOUS
<1>1. TypeOK
  BY HandshakeAssumptions DEF ProcInit, Init, TypeOK, IPs, Versions, Phases
<1>2. ProcTypeOK
  <2>1. TxHashSetCooldown \in Times /\ 0 \in Times /\ 0 \in 0..StreamChunks
    BY ProcessorAssumptions DEF Times
  <2>2. lastTxHashSetRequest \in [IPs -> Times] /\ servedAt \in [Conn -> Times]
        /\ servedIP \in [IPs -> Times] /\ chunks \in [Conn -> 0..StreamChunks]
    BY <2>1 DEF ProcInit
  <2>3. proc \in [Conn -> ProcPhases] /\ chainTD \in TDs /\ now \in Times
    BY <2>1, ProcessorAssumptions DEF ProcInit, ProcPhases
  <2>. QED
    BY <1>1, <2>2, <2>3 DEF ProcInit, ProcTypeOK
<1>3. OpenHasAddress /\ FreeUnserved /\ ServedBeforeRequest
  BY DEF ProcInit, Init, OpenHasAddress, FreeUnserved, ServedBeforeRequest
<1>4. ClockAhead /\ CheckedCooldown /\ StreamHasChunks
  BY ProcessorAssumptions
     DEF ProcInit, ClockAhead, CheckedCooldown, StreamHasChunks
<1>. QED
  BY <1>2, <1>3, <1>4 DEF ProcIInv

LEMMA ProcNextIInv == ProcIInv /\ [Next]_vars => ProcIInv'
<1> SUFFICES ASSUME ProcIInv, [Next]_vars PROVE ProcIInv'
  OBVIOUS
<1>1. CASE HsStep
  BY <1>1, HsStepIInv
<1>2. ASSUME NEW c \in Conn, ProcessMessage(c) PROVE ProcIInv'
  <2>1. CASE \/ RecvComplaintOrGarbage(c)
             \/ RecvQuery(c)
             \/ \E valid \in BOOLEAN : RecvHeader(c, valid) \/ RecvHeaders(c, valid)
             \/ \E td \in TDs, valid \in BOOLEAN :
                   RecvBlock(c, td, valid) \/ RecvCompactBlock(c, td, valid)
             \/ RecvTransaction(c)
             \/ RecvTxHashSetArchive(c)
    BY <2>1, ReceiveIsQuiet, QuietStepIInv
  <2>2. CASE TxHashSetCheck(c)
    BY <2>2, CheckIInv
  <2>3. CASE TxHashSetUpdate(c)
    BY <2>3, UpdateIInv
  <2>4. CASE TxHashSetStreamChunk(c)
    BY <2>4, StreamChunkIInv
  <2>. QED
    BY <1>2, <2>1, <2>2, <2>3, <2>4 DEF ProcessMessage
<1>3. CASE Tick \/ RequestShutdown \/ \E s \in SyncStatuses : SetSyncStatus(s)
  BY <1>3, EnvironmentIInv
<1>4. CASE UNCHANGED vars
  BY <1>4 DEF vars, hsVars, procVars, histVars, ProcIInv, ProcTypeOK, TypeOK,
              OpenHasAddress, FreeUnserved, ClockAhead, ServedBeforeRequest,
              CheckedCooldown, StreamHasChunks
<1>. QED
  BY <1>1, <1>2, <1>3, <1>4 DEF Next

LEMMA AlwaysProcIInv == Spec => []ProcIInv
BY ProcInitIInv, ProcNextIInv, PTL DEF Spec

(* Type correctness of the composed system: through every handshake step, *)
(* every handler of ProcessMessage, every step of SendTxHashSet and every  *)
(* clock, shutdown and sync-status change, the processor's state stays in  *)
(* range; in particular the streaming loop of SendTxHashSet never counts   *)
(* its chunks below zero.                                                  *)
THEOREM ProcTypeCorrect == Spec => []ProcTypeOK
BY AlwaysProcIInv, PTL DEF ProcIInv

-----------------------------------------------------------------------------
(* Only SendTxHashSet's record step (lines 421-456) starts a stream: a      *)
(* thread enters the streaming loop only from having passed the cooldown   *)
(* test.                                                                   *)
LEMMA StreamEntry ==
    ASSUME ProcIInv, Next, NEW c \in Conn,
           proc'[c] = "txhsStream", proc[c] # "txhsStream"
    PROVE  proc[c] = "txhsUpdate"
<1>0. proc \in [Conn -> ProcPhases]
  BY DEF ProcIInv, ProcTypeOK
<1>1. CASE HsStep
  BY <1>1 DEF HsStep, procVars
<1>2. ASSUME NEW e \in Conn, ProcessMessage(e) PROVE proc[c] = "txhsUpdate"
  <2>1. CASE \/ RecvComplaintOrGarbage(e)
             \/ RecvQuery(e)
             \/ \E valid \in BOOLEAN : RecvHeader(e, valid) \/ RecvHeaders(e, valid)
             \/ \E td \in TDs, valid \in BOOLEAN :
                   RecvBlock(e, td, valid) \/ RecvCompactBlock(e, td, valid)
             \/ RecvTransaction(e)
             \/ RecvTxHashSetArchive(e)
    BY <2>1, ReceiveIsQuiet DEF QuietStep
  <2>2. CASE TxHashSetCheck(e)
    <3>1. proc' = proc \/ proc' = [proc EXCEPT ![e] = "txhsUpdate"]
      BY <2>2 DEF TxHashSetCheck
    <3>. QED
      BY <1>0, <3>1
  <2>3. CASE TxHashSetUpdate(e)
    <3>1. proc[e] = "txhsUpdate" /\ \A d \in Conn : d # e => proc'[d] = proc[d]
      BY <1>0, <2>3 DEF TxHashSetUpdate
    <3>. QED
      BY <3>1
  <2>4. CASE TxHashSetStreamChunk(e)
    <3>1. proc[e] = "txhsStream" /\ \A d \in Conn : d # e => proc'[d] = proc[d]
      BY <1>0, <2>4 DEF TxHashSetStreamChunk
    <3>. QED
      BY <3>1
  <2>. QED
    BY <1>2, <2>1, <2>2, <2>3, <2>4 DEF ProcessMessage
<1>3. CASE Tick \/ RequestShutdown \/ \E s \in SyncStatuses : SetSyncStatus(s)
  BY <1>3 DEF Tick, RequestShutdown, SetSyncStatus
<1>. QED
  BY <1>1, <1>2, <1>3 DEF Next

(* The cooldown of SendTxHashSet (lines 413-421), for every cooldown, clock *)
(* bound, number of chunks and of connections: a connection starts         *)
(* streaming a snapshot only if the last snapshot it streamed started at   *)
(* least the cooldown earlier, although the test reads a Peer that other   *)
(* connections of the same address update between the test and the record. *)
THEOREM TxHashSetCooldownKept == Spec => TxHashSetServedApart
<1>1. ProcIInv /\ [Next]_vars =>
         [\A c \in Conn :
            (proc'[c] = "txhsStream" /\ proc[c] # "txhsStream")
               => now - servedAt[c] >= TxHashSetCooldown]_vars
  <2> SUFFICES ASSUME ProcIInv, [Next]_vars, NEW c \in Conn,
                      proc'[c] = "txhsStream", proc[c] # "txhsStream"
               PROVE  now - servedAt[c] >= TxHashSetCooldown
    BY DEF vars, procVars
  <2>1. CASE Next
    BY <2>1, StreamEntry DEF ProcIInv, CheckedCooldown
  <2>2. CASE UNCHANGED vars
    BY <2>2 DEF vars, procVars
  <2>. QED
    BY <2>1, <2>2
<1>. QED
  BY <1>1, AlwaysProcIInv, PTL DEF Spec, TxHashSetServedApart


-----------------------------------------------------------------------------
(* The processor as seen by the connection table: the connection loop     *)
(* closing a connection on BAN_PEER or SOCKET_FAILURE (spec 7) is the      *)
(* handshake's own Disconnect, and every other processor step leaves the   *)
(* handshake's state alone.                                                *)
LEMMA ClosingIsDisconnect ==
    ASSUME NEW c \in Conn, phase[c] = "active",
           phase' \in {phase, [phase EXCEPT ![c] = "closed"]},
           UNCHANGED <<dir, ip, ver, wire, link>>
    PROVE  [HsNext]_hsVars
<1>1. CASE phase' = phase
  BY <1>1 DEF hsVars
<1>2. CASE phase' = [phase EXCEPT ![c] = "closed"]
  BY <1>2 DEF HsNext, Disconnect
<1>. QED
  BY <1>1, <1>2

(* Every step of the composed system is a step of the handshake or leaves *)
(* the handshake's variables as they are.                                  *)
LEMMA ProcStepIsHsStep == ProcIInv /\ [Next]_vars => [HsNext]_hsVars
<1> SUFFICES ASSUME ProcIInv, [Next]_vars PROVE [HsNext]_hsVars
  OBVIOUS
<1>1. CASE HsStep
  BY <1>1 DEF HsStep, HsNext
<1>2. ASSUME NEW c \in Conn, ProcessMessage(c) PROVE [HsNext]_hsVars
  <2>1. CASE \/ RecvComplaintOrGarbage(c)
             \/ RecvQuery(c)
             \/ \E valid \in BOOLEAN : RecvHeader(c, valid) \/ RecvHeaders(c, valid)
             \/ \E td \in TDs, valid \in BOOLEAN :
                   RecvBlock(c, td, valid) \/ RecvCompactBlock(c, td, valid)
             \/ RecvTransaction(c)
             \/ RecvTxHashSetArchive(c)
    BY <2>1, ReceiveIsQuiet, ClosingIsDisconnect DEF QuietStep
  <2>2. CASE TxHashSetCheck(c)
    <3>1. /\ phase[c] = "active"
          /\ phase' \in {phase, [phase EXCEPT ![c] = "closed"]}
          /\ UNCHANGED <<dir, ip, ver, wire, link>>
      BY <2>2 DEF TxHashSetCheck, Ready, Finish
    <3>. QED
      BY <3>1, ClosingIsDisconnect
  <2>3. CASE TxHashSetUpdate(c)
    BY <2>3 DEF TxHashSetUpdate, hsVars
  <2>4. CASE TxHashSetStreamChunk(c)
    <3>1. /\ phase[c] = "active"
          /\ phase' \in {phase, [phase EXCEPT ![c] = "closed"]}
          /\ UNCHANGED <<dir, ip, ver, wire, link>>
      BY <2>4 DEF TxHashSetStreamChunk, Finish
    <3>. QED
      BY <3>1, ClosingIsDisconnect
  <2>. QED
    BY <1>2, <2>1, <2>2, <2>3, <2>4 DEF ProcessMessage
<1>3. CASE Tick \/ RequestShutdown \/ \E s \in SyncStatuses : SetSyncStatus(s)
  BY <1>3 DEF Tick, RequestShutdown, SetSyncStatus, hsVars
<1>4. CASE UNCHANGED vars
  BY <1>4 DEF vars, hsVars
<1>. QED
  BY <1>1, <1>2, <1>3, <1>4 DEF Next

(* The processor, run on top of the handshake, behaves towards the         *)
(* connection slots as the handshake alone does.                           *)
LEMMA ProcRefinesHandshake == Spec => Init /\ [][HsNext]_hsVars
<1>1. ProcInit => Init
  BY DEF ProcInit
<1>. QED
  BY <1>1, AlwaysProcIInv, ProcStepIsHsStep, PTL DEF Spec

(* Closing connections on a ban or a failed send (MessageProcessor.cpp and *)
(* the connection loop of spec 7) never lets a connection to our own       *)
(* address reach the table: NoSelfConnection holds for the composed system *)
(* for every number of slots, addresses and versions.                      *)
THEOREM ProcSelfConnectionRefused == Spec => []NoSelfConnection
BY ProcRefinesHandshake, SelfConnectionRefused, PTL

=============================================================================
