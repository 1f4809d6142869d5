-------------------------- MODULE MessageProcessor --------------------------
(***************************************************************************)
(* MessageProcessor::ProcessMessage and SendTxHashSet                      *)
(* (src/src/P2P/MessageProcessor.cpp) running on the active connections of *)
(* the Handshake model.  Each connection thread processes one message at a *)
(* time; SendTxHashSet is split at the points where another thread can    *)
(* interleave: between the cooldown test on the shared Peer object and its *)
(* update, and between two chunks of the streamed snapshot.               *)
(*                                                                         *)
(* Collaborators that are not under src/ are modelled from the spec: the   *)
(* chain server answers Add* calls with a status (4.4), the connection     *)
(* loop bans and closes on BAN_PEER and closes on SOCKET_FAILURE (7), the  *)
(* sync controller may change the sync status at any time (4.9).          *)
(***************************************************************************)
EXTENDS Handshake, Integers

CONSTANTS
    TDs,                \* total difficulties carried by blocks and pings
    TxHashSetCooldown,  \* the 2 hours of SendTxHashSet, in clock ticks
    MaxTime,            \* last clock value explored
    StreamChunks        \* BUFFER_SIZE chunks in a snapshot archive

ASSUME ProcessorAssumptions ==
    /\ TDs \subseteq Nat
    /\ 0 \in TDs
    /\ TxHashSetCooldown \in Nat \ {0}
    /\ MaxTime \in Nat
    /\ MaxTime >= TxHashSetCooldown
    /\ StreamChunks \in Nat \ {0}

(* ESyncStatus, reduced to the values ProcessMessage tells apart:         *)
(* NOT_SYNCING, SYNCING_BLOCKS and any other syncing phase.                *)
SyncStatuses == {"NOT_SYNCING", "SYNCING_HEADERS", "SYNCING_BLOCKS"}

(* Where a connection thread is inside ProcessMessage.                     *)
ProcPhases == {"ready", "txhsUpdate", "txhsStream"}

(* Statuses of the chain server's Add* calls; EXCEPTION is a thrown        *)
(* BlockChainException or BadDataException.                                *)
AddResult(valid) ==
    IF valid THEN {"SUCCESS", "ALREADY_EXISTS", "ORPHANED", "EXCEPTION"}
             ELSE {"INVALID", "EXCEPTION"}

VARIABLES
    now,                   \* wall clock
    shutdown,              \* ShutdownManagerAPI::WasShutdownRequested
    syncStatus,            \* m_pSyncStatus->GetStatus()
    lastTxHashSetRequest,  \* Peer::GetLastTxHashSetRequest, one Peer per address
    chainTD,               \* total difficulty of the confirmed chain
    proc,                  \* proc[c]: where c's thread is inside ProcessMessage
    chunks,                \* chunks[c]: snapshot chunks c still has to send
    banned,                \* addresses banned by the connection loop
    \* history, for the properties
    misbehaved,            \* addresses that sent what the spec bans for
    invalidFrom,           \* addresses whose data the chain judged INVALID
    servedAt,              \* servedAt[c]: when c last started streaming a snapshot
    servedIP               \* servedIP[a]: when a snapshot last started to a

procVars == <<now, shutdown, syncStatus, lastTxHashSetRequest, chainTD,
              proc, chunks, banned>>
histVars == <<misbehaved, invalidFrom, servedAt, servedIP>>
vars == <<hsVars, procVars, histVars>>

Times == 0..MaxTime

ProcTypeOK ==
    /\ TypeOK
    /\ now \in Times
    /\ shutdown \in BOOLEAN
    /\ syncStatus \in SyncStatuses
    /\ lastTxHashSetRequest \in [IPs -> Times]
    /\ chainTD \in TDs
    /\ proc \in [Conn -> ProcPhases]
    /\ chunks \in [Conn -> 0..StreamChunks]
    /\ banned \subseteq IPs
    /\ misbehaved \subseteq IPs
    /\ invalidFrom \subseteq IPs
    /\ servedAt \in [Conn -> Times]
    /\ servedIP \in [IPs -> Times]

(* The clock starts long after the epoch: a Peer that never asked for a    *)
(* snapshot has last request 0, and 0 also stands for "never served".     *)
ProcInit ==
    /\ Init
    /\ now = TxHashSetCooldown
    /\ shutdown = FALSE
    /\ syncStatus \in SyncStatuses
    /\ lastTxHashSetRequest = [a \in IPs |-> 0]
    /\ chainTD = 0
    /\ proc = [c \in Conn |-> "ready"]
    /\ chunks = [c \in Conn |-> 0]
    /\ banned = {}
    /\ misbehaved = {}
    /\ invalidFrom = {}
    /\ servedAt = [c \in Conn |-> 0]
    /\ servedIP = [a \in IPs |-> 0]

-----------------------------------------------------------------------------
(* A connection thread between two messages.                               *)
Ready(c) == phase[c] = "active" /\ proc[c] = "ready"

(* The connection loop's reaction to the returned status (spec 7):         *)
(* BAN_PEER bans the address and closes, SOCKET_FAILURE closes, any other  *)
(* status keeps the connection.                                            *)
Finish(c, st) ==
    /\ phase' = IF st \in {"BAN_PEER", "SOCKET_FAILURE"}
                THEN [phase EXCEPT ![c] = "closed"] ELSE phase
    /\ banned' = IF st = "BAN_PEER" THEN banned \cup {ip[c]} ELSE banned

(* MessageSender::Send on the socket: TRUE or FALSE.                       *)
SendStatus(ok) == IF ok THEN "SUCCESS" ELSE "SOCKET_FAILURE"

Misbehaves(c, bad) == misbehaved' = IF bad THEN misbehaved \cup {ip[c]} ELSE misbehaved

JudgedInvalid(c, r) == invalidFrom' = IF r = "INVALID" THEN invalidFrom \cup {ip[c]} ELSE invalidFrom

UnchangedAfterMessage ==
    UNCHANGED <<dir, ip, ver, wire, link, now, shutdown, syncStatus,
                lastTxHashSetRequest, proc, chunks, servedAt, servedIP>>

(* Error and BanReason: logged, the peer is banned (lines 113-126).        *)
(* A payload that does not deserialize throws: banned (lines 78-95).       *)
RecvComplaintOrGarbage(c) ==
    /\ Ready(c)
    /\ Finish(c, "BAN_PEER")
    /\ Misbehaves(c, TRUE)
    /\ UNCHANGED <<chainTD, invalidFrom>>
    /\ UnchangedAfterMessage

(* Requests answered from the chain or the peer DB, or RESOURCE_NOT_FOUND  *)
(* (144-162, 173-183, 234-245, 282-293, 363-378); Ping answered with Pong  *)
(* (127-136); Pong (137-143), PeerAddrs (163-172) and unknown types        *)
(* (398-405) leave the connection as it is.  The peer totals that Ping,    *)
(* Pong and Header record (ConnectedPeer::UpdateTotals) feed only the sync *)
(* controller and are not modelled.                                        *)
RecvQuery(c) ==
    /\ Ready(c)
    /\ \E st \in {"SUCCESS", "SOCKET_FAILURE", "RESOURCE_NOT_FOUND", "UNKNOWN_MESSAGE"} :
          Finish(c, st)
    /\ UNCHANGED <<chainTD, misbehaved, invalidFrom>>
    /\ UnchangedAfterMessage

(* Header (184-219): while syncing stop; else add the header and, unless   *)
(* the block is known, ask for its compact block; INVALID bans.            *)
RecvHeader(c, valid) ==
    /\ Ready(c)
    /\ IF syncStatus # "NOT_SYNCING"
       THEN /\ Finish(c, "SUCCESS")
            /\ UNCHANGED invalidFrom
       ELSE \E r \in AddResult(valid), hasBlock \in BOOLEAN, ok \in BOOLEAN :
              /\ JudgedInvalid(c, r)
              /\ Finish(c, CASE r = "EXCEPTION" -> "BAN_PEER"
                             [] r = "INVALID" -> "BAN_PEER"
                             [] ~hasBlock -> SendStatus(ok)
                             [] r = "SUCCESS" -> "SUCCESS"
                             [] OTHER -> "UNKNOWN_ERROR")
    /\ Misbehaves(c, ~valid)
    /\ UNCHANGED chainTD
    /\ UnchangedAfterMessage

(* Headers (220-233): INVALID bans.  Not gated by the sync status.         *)
RecvHeaders(c, valid) ==
    /\ Ready(c)
    /\ \E r \in AddResult(valid) :
          /\ JudgedInvalid(c, r)
          /\ Finish(c, IF r \in {"INVALID", "EXCEPTION"} THEN "BAN_PEER" ELSE "SUCCESS")
    /\ Misbehaves(c, ~valid)
    /\ UNCHANGED <<chainTD>>
    /\ UnchangedAfterMessage

(* Block (246-281): during block sync it goes to the block pipe; else it   *)
(* is added: SUCCESS relays its header, an orphan with more work than our  *)
(* chain makes us ask for its parent, INVALID bans.                        *)
RecvBlock(c, td, valid) ==
    /\ Ready(c)
    /\ IF syncStatus = "SYNCING_BLOCKS"
       THEN /\ Finish(c, "SUCCESS")
            /\ UNCHANGED <<chainTD, invalidFrom>>
       ELSE \E r \in AddResult(valid), ok \in BOOLEAN :
              /\ JudgedInvalid(c, r)
              /\ chainTD' = IF r = "SUCCESS" /\ td > chainTD THEN td ELSE chainTD
              /\ Finish(c, CASE r \in {"INVALID", "EXCEPTION"} -> "BAN_PEER"
                             [] r = "ORPHANED" /\ td > chainTD -> SendStatus(ok)
                             [] OTHER -> "SUCCESS")
    /\ Misbehaves(c, ~valid)
    /\ UnchangedAfterMessage

(* CompactBlock (294-324): SUCCESS relays, TRANSACTIONS_MISSING asks for   *)
(* the full block, an orphan with more work asks for the parent when not   *)
(* syncing; every other status, INVALID included, is UNKNOWN_ERROR.        *)
RecvCompactBlock(c, td, valid) ==
    /\ Ready(c)
    /\ \E r \in AddResult(valid) \cup (IF valid THEN {"TRANSACTIONS_MISSING"} ELSE {}),
          ok \in BOOLEAN :
          /\ JudgedInvalid(c, r)
          /\ chainTD' = IF r = "SUCCESS" /\ td > chainTD THEN td ELSE chainTD
          /\ Finish(c, CASE r = "EXCEPTION" -> "BAN_PEER"
                         [] r = "SUCCESS" -> "SUCCESS"
                         [] r = "TRANSACTIONS_MISSING" -> SendStatus(ok)
                         [] r = "ORPHANED" /\ syncStatus = "NOT_SYNCING" /\ td > chainTD
                              -> SendStatus(ok)
                         [] OTHER -> "UNKNOWN_ERROR")
    /\ Misbehaves(c, ~valid)
    /\ UnchangedAfterMessage

(* StemTransaction, Transaction, TransactionKernelMsg (325-350, 379-397):  *)
(* dropped with SYNCING while syncing; otherwise handed to the tx pipe or  *)
(* answered with a GetTransaction.                                         *)
RecvTransaction(c) ==
    /\ Ready(c)
    /\ IF syncStatus # "NOT_SYNCING"
       THEN Finish(c, "SYNCING")
       ELSE \E st \in {"SUCCESS", "UNKNOWN_ERROR", "SOCKET_FAILURE", "RESOURCE_NOT_FOUND"} :
              Finish(c, st)
    /\ UNCHANGED <<chainTD, misbehaved, invalidFrom>>
    /\ UnchangedAfterMessage

(* TxHashSetArchive (357-362): the TxHashSet pipe downloads and checks the *)
(* archive; a failure bans.                                                *)
RecvTxHashSetArchive(c) ==
    /\ Ready(c)
    /\ \E ok \in BOOLEAN :
          /\ Finish(c, IF ok THEN "SUCCESS" ELSE "BAN_PEER")
          /\ Misbehaves(c, ~ok)
    /\ UNCHANGED <<chainTD, invalidFrom>>
    /\ UnchangedAfterMessage

-----------------------------------------------------------------------------
(* SendTxHashSet (408-498)                                                 *)

(* Mutant of TxHashSetUpdate: the request is not recorded (line 421).     *)
TxHashSetUpdateNoRecord(c) ==
    /\ phase[c] = "active"
    /\ proc[c] = "txhsUpdate"
    /\ \/ /\ proc' = [proc EXCEPT ![c] = "txhsStream"]
          /\ chunks' = [chunks EXCEPT ![c] = StreamChunks]
          /\ servedAt' = [servedAt EXCEPT ![c] = now]
          /\ servedIP' = [servedIP EXCEPT ![ip[c]] = now]
       \/ /\ proc' = [proc EXCEPT ![c] = "ready"]
          /\ UNCHANGED <<chunks, servedAt, servedIP>>
    /\ UNCHANGED <<hsVars, now, shutdown, syncStatus, lastTxHashSetRequest,
                   chainTD, banned, misbehaved, invalidFrom>>

(* Mutant of TxHashSetStreamChunk: the loop sends one chunk too many.      *)
TxHashSetStreamChunkOneMore(c) ==
    /\ phase[c] = "active"
    /\ proc[c] = "txhsStream"
    /\ \E sent \in BOOLEAN :
          IF ~sent \/ shutdown
          THEN /\ Finish(c, "BAN_PEER")
               /\ proc' = [proc EXCEPT ![c] = "ready"]
               /\ chunks' = [chunks EXCEPT ![c] = 0]
          ELSE /\ chunks' = [chunks EXCEPT ![c] = @ - 1]
               /\ proc' = [proc EXCEPT ![c] = IF chunks[c] = 0 THEN "ready" ELSE "txhsStream"]
               /\ UNCHANGED <<phase, banned>>
    /\ UNCHANGED <<dir, ip, ver, wire, link, now, shutdown, syncStatus,
                   lastTxHashSetRequest, chainTD, histVars>>

(* Lines 413-418: a peer whose last request is less than the cooldown ago  *)
(* is banned.                                                              *)
TxHashSetCheck(c) ==
    /\ Ready(c)
    /\ LET tooSoon == lastTxHashSetRequest[ip[c]] > now - TxHashSetCooldown IN
         /\ IF tooSoon
            THEN /\ Finish(c, "BAN_PEER")
                 /\ UNCHANGED proc
            ELSE /\ proc' = [proc EXCEPT ![c] = "txhsUpdate"]
                 /\ UNCHANGED <<phase, banned>>
         /\ Misbehaves(c, tooSoon)
    /\ UNCHANGED <<dir, ip, ver, wire, link, now, shutdown, syncStatus,
                   lastTxHashSetRequest, chainTD, chunks,
                   invalidFrom, servedAt, servedIP>>

(* Lines 421-456: record the request, look the header up, snapshot it,     *)
(* open the zip and send the TxHashSetArchive message (its result is not   *)
(* looked at).  A missing header, a failed snapshot or an unreadable file  *)
(* return UNKNOWN_ERROR.                                                   *)
TxHashSetUpdate(c) ==
    /\ phase[c] = "active"
    /\ proc[c] = "txhsUpdate"
    /\ lastTxHashSetRequest' = [lastTxHashSetRequest EXCEPT ![ip[c]] = now]
    /\ \/ /\ proc' = [proc EXCEPT ![c] = "txhsStream"]
          /\ chunks' = [chunks EXCEPT ![c] = StreamChunks]
          /\ servedAt' = [servedAt EXCEPT ![c] = now]
          /\ servedIP' = [servedIP EXCEPT ![ip[c]] = now]
       \/ /\ proc' = [proc EXCEPT ![c] = "ready"]
          /\ UNCHANGED <<chunks, servedAt, servedIP>>
    /\ UNCHANGED <<hsVars, now, shutdown, syncStatus, chainTD, banned,
                   misbehaved, invalidFrom>>

(* Lines 462-480: one chunk of the archive.  A failed send or a shutdown   *)
(* request bans the peer; after the last chunk the status is SUCCESS.      *)
TxHashSetStreamChunk(c) ==
    /\ phase[c] = "active"
    /\ proc[c] = "txhsStream"
    /\ \E sent \in BOOLEAN :
          IF ~sent \/ shutdown
          THEN /\ Finish(c, "BAN_PEER")
               /\ proc' = [proc EXCEPT ![c] = "ready"]
               /\ chunks' = [chunks EXCEPT ![c] = 0]
          ELSE /\ chunks' = [chunks EXCEPT ![c] = @ - 1]
               /\ proc' = [proc EXCEPT ![c] = IF chunks[c] = 1 THEN "ready" ELSE "txhsStream"]
               /\ UNCHANGED <<phase, banned>>
    /\ UNCHANGED <<dir, ip, ver, wire, link, now, shutdown, syncStatus,
                   lastTxHashSetRequest, chainTD, histVars>>

-----------------------------------------------------------------------------
(* Environment                                                             *)

Tick ==
    /\ now < MaxTime
    /\ now' = now + 1
    /\ UNCHANGED <<hsVars, shutdown, syncStatus, lastTxHashSetRequest,
                   chainTD, proc, chunks, banned, histVars>>

RequestShutdown ==
    /\ ~shutdown
    /\ shutdown' = TRUE
    /\ UNCHANGED <<hsVars, now, syncStatus, lastTxHashSetRequest,
                   chainTD, proc, chunks, banned, histVars>>

(* The sync controller moves between phases (spec 4.9).                    *)
SetSyncStatus(s) ==
    /\ syncStatus' = s
    /\ UNCHANGED <<hsVars, now, shutdown, lastTxHashSetRequest,
                   chainTD, proc, chunks, banned, histVars>>

(* Handshake steps leave the processor alone; a connection is only closed  *)
(* by its peer between two messages, and a reused slot starts afresh.      *)
HsStep ==
    \/ /\ \E c \in Conn :
             \/ \E a \in RemoteIPs : DialRemote(c, a) \/ Accept(c, a)
             \/ \E d \in Conn : DialSelf(c, d)
             \/ \E m \in RemoteMsgs : RemoteSend(c, m)
             \/ HandshakeStep(c)
             \/ AddConnection(c)
             \/ Disconnect(c) /\ proc[c] = "ready"
       /\ UNCHANGED <<procVars, histVars>>
    \/ \E c \in Conn :
          /\ Recycle(c)
          /\ servedAt' = [servedAt EXCEPT ![c] = 0]
          /\ UNCHANGED <<now, shutdown, syncStatus, lastTxHashSetRequest, chainTD,
                         proc, chunks, banned, misbehaved, invalidFrom, servedIP>>

ProcessMessage(c) ==
    \/ RecvComplaintOrGarbage(c)
    \/ RecvQuery(c)
    \/ \E valid \in BOOLEAN : RecvHeader(c, valid) \/ RecvHeaders(c, valid)
    \/ \E td \in TDs, valid \in BOOLEAN :
          \/ RecvBlock(c, td, valid)
          \/ RecvCompactBlock(c, td, valid)
    \/ RecvTransaction(c)
    \/ RecvTxHashSetArchive(c)
    \/ TxHashSetCheck(c)
    \/ TxHashSetUpdate(c)
    \/ TxHashSetStreamChunk(c)

Next ==
    \/ HsStep
    \/ \E c \in Conn : ProcessMessage(c)
    \/ Tick
    \/ RequestShutdown
    \/ \E s \in SyncStatuses : SetSyncStatus(s)

Spec == ProcInit /\ [][Next]_vars

-----------------------------------------------------------------------------
(* Properties                                                              *)

(* The TxHashSet cooldown on one connection (lines 413-421): a connection  *)
(* starts streaming a snapshot only if every snapshot it streamed before   *)
(* started at least the cooldown earlier.                                  *)
TxHashSetServedApart ==
    [][\A c \in Conn :
         (proc'[c] = "txhsStream" /\ proc[c] # "txhsStream")
            => now - servedAt[c] >= TxHashSetCooldown]_vars

(* Spec 4.7 and scenario 6: an address is served at most one snapshot per  *)
(* cooldown window, whatever connections it uses.                          *)
TxHashSetRateLimit ==
    [][\A c \in Conn :
         (proc'[c] = "txhsStream" /\ proc[c] # "txhsStream")
            => now - servedIP[ip[c]] >= TxHashSetCooldown]_vars

(* Spec 7: peers are banned for what they send (an Error, invalid or       *)
(* undecodable data, a repeated snapshot request), never for our own       *)
(* failures or for our shutdown.                                           *)
BanOnlyForMisbehaviour == banned \subseteq misbehaved

(* Spec 4.6 and 9: every peer whose block, header or compact block the     *)
(* chain judged INVALID is banned.                                         *)
InvalidDataBanned == invalidFrom \subseteq banned

=============================================================================
