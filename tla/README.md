# TLA+ models of GrinPlusPlus

This directory holds TLA+ specifications of parts of the GrinPlusPlus node and
wallet (sources under `src/`). It contains:

- the TLC configurations that model-check them on small instances;
- TLAPS proofs, for every instance, of the handshake's central safety
  property, and of the wallet receive's atomicity, key uniqueness and
  refinement of an atomic receive;
- `PROJECT.json`, which lists the components, runs, mutants, the source lines
  each definition models, the findings, the hazards and the theorems.

## 1. The system and its parts

| Part | Source | State | Operations | Interacts with |
|------|--------|-------|------------|----------------|
| P2P handshake | `src/src/P2P/Seed/HandShake.cpp`, `src/src/P2P/MessageRetriever.cpp` | static `NONCE`; per connection: direction, peer address, negotiated version, bytes on the socket | `PerformHandshake` (outbound: send Hand, wait for Shake; inbound: wait for Hand, check nonce and `IsConnected`, send Shake), `RetrieveMessage` in BLOCKING mode (8 s deadline, shutdown, bad header or payload) | connection manager (table of active connections), message sender |
| Connection | `src/src/P2P/Connection.h` | one thread, socket, `ConnectedPeer` per connection | handshake, then a loop that passes each message to the processor and acts on its status | handshake, processor, connection manager |
| Message processor | `src/src/P2P/MessageProcessor.cpp` | shared `Peer` objects (last TxHashSet request time), sync status, the chain | `ProcessMessage`: one branch per message type; `SendTxHashSet`: cooldown check, snapshot, streaming | chain server, pipelines, sync status, connection manager, the socket |
| Cuckarooz PoW | `src/src/PoW/Cuckarooz.cpp`, `src/deps/cuckoo/cuckarooz/cuckarooz.hpp` | none (pure function) | `Validate`: size check, then `verify_cuckarooz` (hash the edges, XOR filter, cycle walk) | header validation |
| Kernel signatures, crypto | `KernelSignatureValidator.h`, `CryptoUtil.h` | none | batch signature checks, key arithmetic | validators |
| Slate | `src/include/Wallet/Models/Slate/Slate.h` | slate record | field updates, `AddInput`, `AddOutput`; binary and JSON serialization | the two wallets building a transaction |
| Wallet receive and summary | `ReceiveSlateBuilder.cpp`, `Wallet.cpp`, `WalletRefresher.h`, `WalletSqlite.h`, `UserMetadata.h` | wallet DB (outputs, transactions, slates, next child path, next transaction id) under `Locked<Wallet>` | `AddReceiverData` (check not already received, new output, signature, payment proof, batch commit), `GetWalletSummary` | DB, slate, keychain |
| Glue | `JSONFactory.h`, `OwnerAPI.h`, DTOs, `TestWallet.h` | none | formatting, declarations, test fixture | API |

The hard behaviours of the node are concurrent. Every connection runs on its
own thread, and all of them share:

- the connection manager's table;
- the `Peer` objects, one per address;
- the chain and the sync status.

A peer is an adversary: it may send anything, in any order, or nothing at all.
The handshake reads with a deadline. Snapshot streaming can be cut short by a
failed send or by shutdown.

The hard behaviours of the wallet come from failure and repetition:

- a receive holds the wallet's write lock, so it does not interleave with
  another receive;
- a receive can throw, or the process can crash, between any two of its
  steps, and only the SQLite batch's commit makes its writes durable;
- a slate can come back after its receive was cancelled;
- the slate itself crosses between wallets in two encodings, which must
  agree with their decoders.

## 2. Modules

| Module | Models | Checked by |
|--------|--------|------------|
| `Handshake` | handshake, retriever deadline, connection slots | `MCHandshake` runs |
| `HandshakeProofs` | theorems about `Handshake` | `tlapm` |
| `MessageProcessor` | `ProcessMessage`, `SendTxHashSet`, on top of `Handshake` (EXTENDS) | `MCMessageProcessor` runs |
| `MessageProcessorProofs` | theorems about `MessageProcessor` | `tlapm` |
| `Cuckarooz` | `Validate` and `verify_cuckarooz` | `MCCuckarooz.cfg` |
| `SlateCodec` | the slate, its builders, `Serialize`/`Deserialize`, `ToJSON`/`FromJSON` | `MCSlateCodec` runs |
| `SlateCodecProofs` | theorems about `SlateCodec` | `tlapm` |
| `WalletDB` | the tables a receive touches, and the writes to them | used by the two below |
| `WalletReceiveAbstract` | what a receive promises: an atomic step | property of the `MCWalletReceive` run |
| `WalletReceive` | `AddReceiverData` step by step, on a batch, with failures | `MCWalletReceive` runs |
| `WalletReceiveProofs` | theorems about `WalletReceive` | `tlapm` |

### Handshake

Each element of `Conn` is a connection slot: one `Connection` with its thread.

Variables:

- `phase[c]`: free, outHand, outShake, inHand, shaken, active or closed;
- `dir`, `ip` and `ver`: the `ConnectedPeer` fields the handshake sets;
- `wire[c]`: the messages on the socket that slot `c` has not read yet;
- `link[c]`: the slot at the other end of a dial to our own address.

A self-dial is two slots of ours, linked, with address `SelfIP`: what one
slot sends lands on the wire of the other (`Deliver`). Every other address is
a remote peer. A remote peer's messages come from the environment action
`RemoteSend`, and may be any message except one carrying our nonce.

Actions, following the code:

- `SendHand` and `ReceiveShake` are `PerformOutboundHandshake`. `SendHand`
  is a send that may fail. In `ReceiveShake`, a Shake sets the version to
  the one it carries (line 72). A BanReason, any other type, or a bad frame
  (the "Bad" message, for the exceptions of `RetrieveMessage`) fails.
- `ReceiveHand` is `PerformInboundHandshake`. The test is line 113:
  `nonce != NONCE && !IsConnected(ip)`. The version is
  `min(PROTOCOL_VERSION, theirs)`. The Shake send may fail.
- `HandshakeTimeout` is the null return of `RetrieveMessage` in BLOCKING mode
  at its 8 s deadline. In the model it is enabled exactly when the slot is
  waiting and nothing is on its wire.
- The connection-manager side is not under `src/` and is modelled from the
  spec (4.5, 4.6):
  - `DialRemote`, `DialSelf` and `Accept` open slots;
  - `AddConnection` inserts a shaken connection into the table;
  - `Disconnect` ends it;
  - `Recycle` reuses a finished slot.

  `IsConnected(a)` is "some active slot has address `a`".

### MessageProcessor

This module adds these variables to the handshake:

- `now`, `shutdown`, `syncStatus`;
- `lastTxHashSetRequest`: the shared `Peer`, one per address;
- `chainTD`;
- `proc[c]`: where `c`'s thread is in `ProcessMessage`;
- `chunks[c]`: snapshot chunks left to send;
- `banned`.

It also has history variables for the properties: `misbehaved`,
`invalidFrom`, `servedAt` and `servedIP`.

Actions:

- Each message branch is one action. The chain server's answer is a
  nondeterministic status from `AddResult(valid)`: a valid object may still
  meet an internal `BlockChainException`, and an invalid one is INVALID or
  throws.
- The status a branch returns goes through `Finish`, the connection loop's
  reaction from spec section 7: BAN_PEER bans and closes, SOCKET_FAILURE
  closes, anything else keeps the connection.
- `SendTxHashSet` is split at the points where another thread can run:
  - `TxHashSetCheck`: lines 413-418;
  - `TxHashSetUpdate`: line 421 and the snapshot, up to the archive message;
  - `TxHashSetStreamChunk`: one loop iteration, lines 462-480.
- The environment actions are `Tick`, `RequestShutdown` and `SetSyncStatus`.
- The handshake actions are reused. A connection can be disconnected only
  between two messages, since its thread reads the socket only there.

### Cuckarooz

`verify_cuckarooz` runs one step per loop iteration:

- `HashEdge`: lines 50-58;
- `CheckXor`: lines 59-60;
- `FollowStep`: one outer iteration of the cycle walk, lines 62-73.

The inner scan of line 63 is `Matches(i)`. Two matches are a branch and none
is a dead end.

`sipblock` is not modelled bit by bit: each accepted edge's endpoints are any
pair of node values. This is sound because accepted indices are strictly
ascending, so each index is hashed once and no two hashes have to agree.
`CheckSize` and `Return` are `Cuckarooz::Validate`.

The reference, `ProofIsValid`, is written independently of the algorithm: the
nonces are `PROOFSIZE` ascending edge indices in range, and their edges form
one cycle. One cycle means every node is an endpoint exactly twice or not at
all, and the edges are connected (`Relation`'s `IsConnected`).

### SlateCodec

The variable `slate` is the record `Slate` with its public fields. The other
variables record a transfer:

- `wire`: the encoded slate in transit;
- `sent`: the slate as it was encoded;
- `received`: what the other side decoded.

Data is abstracted. An id, an offset, a signature, a commitment entry, a range
proof and a payment proof are small numbers. A binary encoding is a sequence
of tokens, one per `Append` of `Serialize`. The nested structs' own
`Serialize` is not in `Slate.h`, so each of them is one token.

What is kept exactly:

- the two flag bytes, computed bit by bit (`FieldStatusToByte` and
  `FromByte`, with `IsSet`);
- the order of the fields, and which are present;
- the length prefixes, taken modulo their width: `(uint8_t)sigs.size()` and
  `(uint16_t)commitments.size()`;
- the trailing lock height of a height-locked kernel.

`Deserialize` reads each field at the position the fields before it leave.
A read past the end is the `DeserializationException` of `ByteBuffer`. A JSON
object is a function from keys to values. `JsonKeys` is its domain: the five
keys `ToJSON` always sets, and each optional key whose field differs from
its default (`OptionalKeyPresent`, lines 365-407). `FromJSON` applies the code's
defaults and, as the code does, never reads `feat_args` (line 439).

Actions:

- the builders: `SetAmounts`, `SetStage`, `SetKernelFeatures`, `AddInput`
  (lines 177-187: a commitment already present is not added again),
  `AddOutput` (lines 189-203: an existing input gets the range proof),
  `AddSignature` and `SetPaymentProof`;
- `SendBinary` and `SendJSON`. `SendJSON` needs the feature args that the
  assert of line 383 demands;
- `Receive`: the other side decodes the slate and goes on from what it
  decoded.

### WalletDB, WalletReceive and WalletReceiveAbstract

`WalletDB` is the part of the database a receive touches:

- the wallet transactions, each with an id, a slate and a type;
- the outputs, each with a key path, a transaction id and a status;
- the saved slates;
- the two counters: the next child of the user path, and `nextTxId` of
  `UserMetadata`.

Its operators are the writes:

- `TakeIds`: `GetNextChildPath` and `GetNextTransactionId`;
- `AddReceived`: the three writes of `UpdateDatabase`;
- `Cancelled`: the cancel.

`WalletReceive` follows `AddReceiverData` line by line. `pc` is where the
call is, `batch` is the open SQLite transaction, and `db` is what is
committed. The steps:

- `StartReceive`;
- `VerifySlateStatus` (lines 81-97), which opens the batch;
- `CreateOutput` (lines 35-43), which takes the two counters in the batch;
- `BuildSignature`, which throws when the signature does not verify;
- `UpdatePaymentProof`, which throws without a TOR address or for a proof
  naming another receiver;
- `UpdateDatabase`;
- `Commit` (line 76).

`Fail` is any exception or crash after the batch is opened (lines 32-76):
the batch is dropped and nothing it holds is kept. That a dropped batch is
rolled back is an assumption: `WalletSqlite::Rollback` and the
`SqliteTransaction` it uses are declared in `WalletSqlite.h` but their code
is not under `src/`. `CancelTx` cancels a receive in
progress.

The write lock (line 22) serialises a whole receive against a cancel. So
`CancelTx` runs only between receives, and what interleaves with a receive
is failure, not another receive.

Two parts of the model are not translations of code in this repository:

- `GetTxBySlateId` is not in the repository. When a slate has several
  transactions, the one it returns is a nondeterministic choice.
- The cancel is not in the repository either. It is modelled from the
  `RECEIVED_CANCELED` type the check of line 88 reads, and the map marks it
  `spec_modelled`.

`WalletReceiveAbstract` is what a receive promises the database. It has two
actions:

- `Receive`: in one step, a fresh output, a fresh `RECEIVING_IN_PROGRESS`
  transaction and the saved slate, for a slate with no transaction or with
  a cancelled one;
- `Cancel`.

`WalletReceive` implements it with `db` as the refinement mapping: `Commit`
is the abstract `Receive`, `CancelTx` is `Cancel`, and every other step
leaves `db` unchanged.

## 3. Runs

| Run | Config | Result | What it shows |
|-----|--------|--------|---------------|
| handshake_self_and_termination | `MCHandshakeLive.cfg` (2 slots, 1 remote address, versions {1,3} vs ours 2, wire bound 1, fairness) | pass, 14,251 states | `NoSelfConnection`: a self-dial never becomes shaken or active on either end; `HandshakeTerminates`: every handshake ends active or closed |
| handshake_duplicate_ip | `MCHandshakeDup.cfg` (3 slots) | violation | `AtMostOneConnectionPerIP` fails: two handshakes with one address both pass `!IsConnected` before either is inserted |
| handshake_version | `MCHandshakeVersion.cfg` (1 slot) | violation | `NegotiatedVersion` fails: an outbound connection takes the peer's Shake version 3 above our 2 |
| processor_txhashset | `MCMessageProcessor.cfg` (2 slots, cooldown 2, clock 2..4, 2 chunks, difficulty 0) | pass, about 1.2 M states in under 2 min | `ProcTypeOK` and `TxHashSetServedApart`: a connection never starts two snapshots within the cooldown, with shutdown, sync changes and failures interleaved |
| processor_ban_policy | `MCMessageProcessorBan.cfg` | violation | `BanOnlyForMisbehaviour` fails: a `BlockChainException` on a valid header bans the sender (line 84) |
| processor_invalid_compact | `MCMessageProcessorInvalid.cfg` | violation | `InvalidDataBanned` fails: an INVALID compact block returns UNKNOWN_ERROR and keeps the connection |
| processor_txhashset_per_ip | `MCMessageProcessorRate.cfg` | violation | `TxHashSetRateLimit` fails: two connections from one address both pass the cooldown test before either updates it |
| cuckarooz | `MCCuckarooz.cfg` (PROOFSIZE 3, edges 0..3, nodes 0..3) | pass, 56,357 states | `VerifierMatchesReference`: `Validate` accepts exactly the valid proofs, for every proof and every hash outcome; `VerifierTerminates`: the cycle walk always returns |
| slate_binary_roundtrip | `MCSlateCodec.cfg` (1 slate, 2 signatures, 2 commitments, each optional field present or absent, real prefix widths) | pass, 594,048 states in about 40 s | `BinaryRoundTrip`: `Deserialize(Serialize(s)) = s` for every slate the builders reach, after any number of binary and JSON hops |
| slate_json_roundtrip | `MCSlateCodecJson.cfg` | violation | `JsonRoundTrip` fails: a kernel's feature args are lost through JSON |
| wallet_receive | `MCWalletReceive.cfg` (2 slates, 4 transaction ids, TOR address, symmetry on slates) | pass, 3,680 states | `ReceiveAtomic`, `UniqueKeys`, `CreditedTwiceOnlyAfterCancel` (two live credits of one slate need a cancel between them) and `AbstractSpec`: failures at every step, cancels and re-receives leave only whole receives with distinct key paths and ids, and the receive refines the atomic one |
| wallet_receive_replay | `MCWalletReceiveReplay.cfg` (1 slate, 3 ids) | violation | `OneLiveReceivePerSlate` fails: receive, cancel, receive, receive credits one slate twice |

Why the bounds are enough:

- Handshake runs:
  - Two slots let a self-dial run, or two connections with one remote
    address. The duplicate run uses three, so that a third slot can sit
    beside the racing pair.
  - One remote address is all the duplicate-address race needs.
  - Two peer versions on either side of ours make `MinVersion` choose both
    ways, and let a Shake carry a version above ours.
  - A wire bound of 1 still lets a remote peer answer every read with any
    message.
- Processor run:
  - A cooldown of 2 with a clock from 2 to 4 makes both sides of the test
    happen: a request at the first instant it is allowed, and one inside the
    window.
  - Two chunks give a stream that can be cut in its middle.
  - The snapshot run takes blocks of difficulty 0 only. No step of
    `SendTxHashSet` reads or writes `chainTD`, and a second difficulty
    doubled the state space without adding a snapshot interleaving. The
    violation runs about bans keep difficulties 0 and 1, where a block that
    raises the chain matters.
- Cuckarooz run:
  - With PROOFSIZE 3 and four node values, the run sees 3-cycles, a
    self-loop plus a 2-cycle (a short cycle), branches, dead ends, XOR
    failures, repeated and descending edges, and an index past `EDGEMASK`.
  - The run enumerates all of them.
- Slate runs:
  - Each optional field takes a value that is present and one that is
    absent: offset, amount, fee, ttl, participants other than 2, each kernel
    feature, a payment proof.
  - Two signatures and two commitments give both an input and an output,
    an input turned into an output, and an empty and a non-empty list.
  - So every flag bit and every position shift of `Deserialize` is
    exercised.
  - The length prefixes keep their real widths (256 and 65536), so the wrap
    of the uint8 signature count is not reached with two signatures.
    Setting `SIGS_LEN_MOD = 2` in the cfg scales that byte to one bit, and
    TLC then finds `BinaryRoundTrip` violated by a slate with two
    signatures (see the hazard of `Slate.h:261`).
- Wallet runs:
  - Two slates and four ids allow a receive of each slate, failed receives
    that take ids and roll them back, a cancel, and a re-receive.
  - The replay needs three receives of one slate, hence three ids.

Fairness:

- `HsFairness` is weak fairness on each slot's handshake step and on
  insertion. It holds because `RetrieveMessage` returns within 8 s or at
  shutdown, and the connection manager inserts every successful handshake.
  No fairness is assumed for the remote peer or for dialling.
- The Cuckarooz verifier is a sequential function call, so `WF_vars(Next)`
  is its scheduling. Its final state has no successor, and its cfg says
  `CHECK_DEADLOCK FALSE` for that reason only.
- The slate and wallet runs check safety only and assume no fairness. They
  keep deadlock checking on: some step is always possible.

Every property of a passing run has a mutant in `PROJECT.json`: a plausible
bug in the definition it names, which TLC must catch under the run's own cfg.
The mutants are:

- the nonce test dropped from `ReceiveHand`;
- non-Shake messages skipped in `ReceiveShake`, so the wait never ends;
- an extra chunk in the stream loop;
- a missing update of the last request time;
- the ascending test dropped from `HashEdge`;
- the exit test `i != 0` dropped from `FollowStep`;
- the amount and fee bits swapped in `FieldStatusFromByte`;
- `SaveSlate` left out of `AddReceived`;
- the next child not stored by `TakeIds`;
- the counters taken in the database instead of the batch, in
  `CreateOutput`;
- the status check of `VerifySlateStatus` passing any transaction of the
  slate, cancelled or not.

## 4. Findings

1. **HandShake.cpp:113.** A check-then-act race lets two connections with
   one address be active at once. The outbound direction has no test at all.
2. **MessageProcessor.cpp:84 and :470.** Peers are banned for our own
   failures: a chain-server exception, a failed send, or our shutdown during
   a snapshot.
3. **MessageProcessor.cpp:323.** An INVALID compact block is not banned. The
   spec asks that it be (sections 4.6 and 9).
4. **MessageProcessor.cpp:414/421.** The per-peer TxHashSet limit is a
   separate read and write on the shared `Peer` object. Two connections of
   one address (see finding 1) both get a snapshot inside the 2 h window.
5. **HandShake.cpp:72.** The outbound side adopts the version of the peer's
   Shake without taking the minimum with ours. Spec 4.5 says the negotiated
   version is `min(ours, theirs)`, and the inbound side does take it
   (line 119).
6. **Slate.h:439.** `FromJSON` does not read `feat_args`, which `ToJSON`
   writes. A height-locked slate received as JSON loses its lock height, so
   the receiver signs a different kernel message. Sending that slate on as
   JSON hits the assert of line 383.
7. **ReceiveSlateBuilder.cpp:88.** A cancelled receive makes the slate
   acceptable again. After a re-receive, the slate has a cancelled and a
   live transaction. If `GetTxBySlateId` returns the cancelled one, a third
   receive passes the check, and the slate is credited twice, with two live
   outputs. Which transaction the lookup returns is not in the repository.

## 5. Proofs

`HandshakeProofs.tla` holds two results, checked with `tlapm` for every set
of slots, addresses and versions. They use only the assumptions in
`HandshakeAssumptions`: the sentinel values are distinct, and the versions
and the wire bound are naturals.

- **`TypeCorrect`**: `Init /\ [][HsNext]_hsVars => []TypeOK`. It rests on
  the lemma `TypeInductive`, with one step per action, and on lemmas
  `DeliverShape`, `SentAreMsgs`, `MsgVersions` and `MinVersionType` about
  the helpers.
- **`SelfConnectionRefused`**:
  `Init /\ [][HsNext]_hsVars => []NoSelfConnection`. `NoSelfConnection` is
  not inductive on its own, because a self-dial slot's wire could in
  principle hold a Shake. The inductive invariant `IInv` adds three facts:
  - `FreeClean`: a free slot has no link and an empty wire;
  - `LinkedIsSelf`: only self-dial slots are linked;
  - `SelfWire`: a self-dial slot's wire holds only our own Hand.

  The argument runs as follows. A self-dial slot only ever reads our own
  Hand, since its only sender is its twin and a remote peer never writes to
  it. The outbound side rejects that Hand as not a Shake, and the inbound
  side rejects it for its nonce, so neither side sends a Shake. TLC checked
  `IInv` as an invariant on a three-slot instance before it was proved.
  `IInvInductive` has one step per action, with a sub-step per conjunct.
`MessageProcessorProofs.tla` (EXTENDS `MessageProcessor` and
`HandshakeProofs`) holds three results for every number of slots, addresses
and difficulties, every cooldown, every clock bound and every chunk count.
They use only `HandshakeAssumptions` and `ProcessorAssumptions`.

- **`ProcTypeCorrect`**: `Spec => []ProcTypeOK`.
- **`TxHashSetCooldownKept`**: `Spec => TxHashSetServedApart`, an action
  property: a connection starts a stream only if its own last snapshot
  started at least the cooldown earlier.

Neither holds inductively as stated. The streaming loop decrements `chunks`,
so it needs `StreamHasChunks`. The cooldown test reads the Peer shared by
all connections of an address (lines 413-418), and other connections may
record requests on that Peer before this one records its own (line 421).
The inductive invariant `ProcIInv` adds the following:

- `OpenHasAddress`: a slot in use has a peer address;
- `FreeUnserved`: a free slot has `servedAt = 0`;
- `ClockAhead`: the clock is at least the cooldown and never behind a
  recorded request;
- `ServedBeforeRequest`: a slot's last snapshot started no later than its
  address's last request;
- `CheckedCooldown`: a thread between the test and the record has its own
  last snapshot at least the cooldown old;
- `StreamHasChunks`: a thread in the loop has a chunk left.

`CheckedCooldown` is what the action property needs. It holds across the
interleaving because another connection only moves the shared request time
forward, and the thread's own `servedAt` does not change. The proof is laid
out as follows:

- `QuietStep` and `QuietStepIInv`: any message handler other than
  `SendTxHashSet` is such a step (`ReceiveIsQuiet`).
- One lemma for each of `SendTxHashSet`'s steps: `CheckIInv`, `UpdateIInv`
  and `StreamChunkIInv`.
- `EnvironmentIInv` covers the clock, shutdown and the sync controller.
  `HsStepIInv` covers the handshake steps, and reuses `TypeInductive` and
  `HandshakeKeepsSlots`.
- `StreamEntry`: only the record step moves a thread into the loop.

TLC checked `ProcIInv` as an invariant of the `processor_txhashset` instance,
with difficulties 0 and 1 (2.4 M states), before it was proved.

The processor composes with the handshake. `ProcStepIsHsStep` shows that,
under `ProcIInv`, every step of the processor is a `[HsNext]_hsVars` step:
a message handler leaves the handshake state alone, except when the
connection loop closes the slot on `BAN_PEER` or `SOCKET_FAILURE`, and that
is exactly the handshake's `Disconnect` (`ClosingIsDisconnect`). So
`ProcRefinesHandshake` gives `Spec => Init /\ [][HsNext]_hsVars`, and the
handshake's central theorem carries over by temporal reasoning alone:

- **`ProcSelfConnectionRefused`**: `Spec => []NoSelfConnection`. The
  processor's bans and socket failures never let a connection to our own
  address into the table.

`WalletReceiveProofs.tla` holds five results for every set of slates and
every bound on the transaction ids. They use only `MaxTxs \in Nat` and
`NoValue \notin Databases`.

- **`TypeCorrect`**: `Spec => []TypeOK`.
- **`ReceiveIsAtomic`**: `Spec => []ReceiveAtomic`.
- **`KeysUnique`**: `Spec => []UniqueKeys`.
- **`Refinement`**: `Spec => AbstractSpec`.
- **`CreditedTwiceOnlyAfterCancelHolds`**:
  `Spec => []CreditedTwiceOnlyAfterCancel`. Two live transactions of one
  slate exist only if a cancelled one exists too. This bounds the replay
  of finding 7: a double credit needs a cancel first.

`ReceiveAtomic` and `UniqueKeys` are not inductive on their own. A commit
writes the batch, so the batch must be known to hold exactly one whole
receive on fresh counters. The inductive invariant `IInv` is:

- `TypeOK`;
- `Complete`, `Fresh` and `Distinct` of the committed database (`Fresh`:
  every key path and id in use is below its counter);
- `PhaseInv`, what the batch is at each point of the call:
  - none before the check;
  - a copy of the database after it;
  - the database with its counters taken, after `CreateOutput`;
  - exactly `AddReceived(TakeIds(db), ...)` before `Commit`;
  - and the slate passed the check against the unchanged database.

TLC checked `IInv` as an invariant of the `wallet_receive` instance before it
was proved. The proof is laid out as follows:

- `InitIInv` and `NextIInv` have one step per action.
- The database facts rest on two lemmas: `ReceiveKeepsDb` (a whole receive
  keeps `Complete`, `Fresh` and `Distinct`) and `CancelKeepsDb` (a cancel
  changes no id, key path or slate).
- Three type lemmas cover `TakeIds`, `AddReceived` and `Cancelled`.
- The refinement proof: `Init` maps to the abstract `Init`. By
  `StepRefines`, under `IInv` every step is an abstract `Receive`
  (`Commit`, whose batch `PhaseInv` pins down), a `Cancel`, or a stutter of
  `db`.
- `CreditedTwiceOnlyAfterCancelHolds` is proved on the abstract steps. The
  invariant `ReplayBound` (with `ReceiveKeepsReplayBound` and
  `CancelKeepsReplayBound`) is stated on `db` only, and `ReplayBoundStep`
  carries it through every concrete step by `StepRefines`: an abstract
  `Receive` adds one live transaction to a slate that passed the check, so
  the slate had no live one or already had a cancelled one.

`SlateCodecProofs.tla` holds two results, for every set of ids, amounts,
heights, signatures, commitments and proofs, and every width of the two
length prefixes. They use `SlateAssumptions` and the hypothesis
`LengthsFit`: `MaxSigs < SIGS_LEN_MOD` and `MaxComs < COMS_LEN_MOD`. So the
signatures and commitments that a slate may hold fit their `uint8_t` and
`uint16_t` counts. `SlateAssumptions` includes `NoValue \notin Heights \cup
{0}`: `std::nullopt` is no lock height. Without `LengthsFit` the theorem is
false, and that is the hazard of `Slate.h:261`.

- **`BinaryRoundTripHolds`**: `Spec => []BinaryRoundTrip`. A slate that is
  received in binary form equals the slate that was sent, whenever that
  slate's feature args fit its kernel.
- **`JsonDropsOnlyFeatureArgsHolds`**: `Spec => []JsonDropsOnlyFeatureArgs`.
  A slate that is received as JSON is the slate sent with `featArgs` set to
  none. So the loss that the `slate_json_roundtrip` run finds is the only
  difference.

The core is the lemma `DecodeEncoded`: `Deserialize(Serialize(s))` is `s`
with its feature args rebuilt from the kernel features and the trailing lock
height (`Canon`). Its proof follows `Serialize` as twelve layers `L0`..`L11`,
one per field or list.

- `LayerLengths` gives each layer's length, and `LayerValues` what each layer
  writes where.
- `DecodePositions` shows that each position `Deserialize` computes
  (`DpAmt`..`DpEnd`, one operator per definition of its `LET`) is the end of
  the matching layer. That needs the counts to be read back unchanged, and
  so the lengths below the widths (`ModSmall`).
- `SubSeqAt` then gives back the signature and commitment lists.
- `JsonDecodeEncoded` is the same for JSON, with `featArgs` dropped.

`BinaryRoundTrip` is not inductive, because it says nothing about the slate
in transit. The inductive invariant `SlateIInv` adds the following:

- the slate in hand is `Holdable`: of its type, within the bounds, with
  feature args that fit its kernel;
- while something is on the wire, it is the encoding of `sent`, and `sent`
  is the slate in hand;
- a received slate is what decoding the encoding of `sent` gives, in either
  format.

TLC checked `SlateIInv` on the `slate_binary_roundtrip` instance (594,048
states) before it was proved. The proof has one lemma per action.
`ReceiveIInv` uses `DecodeEncoded` or `JsonDecodeEncoded`, then
`CanonHoldable` or `DropArgsHoldable`. The theorem needs `CanonKeepsArgs`:
for a slate whose args fit its kernel, `Canon(s) = s.featArgs`.

The rest is only model-checked:

- the liveness properties (`HandshakeTerminates`, `VerifierTerminates`),
  because TLAPS does not handle fairness and ENABLED;
- the Cuckarooz reference check, which is induction over data, and whose
  module uses `Bitwise` and `Relation`;
- the per-address rate limit and the ban policy of the processor, which
  the code violates (runs `processor_txhashset_per_ip`,
  `processor_ban_policy` and `processor_invalid_compact`).

## 6. Not modelled, and why

- `Connection.cpp`, `ConnectionManager`, the pipelines, the sync controller
  and the chain server are not under `src/`. Only their interfaces are
  modelled, from the spec, and the map marks them `spec_modelled`.
- The send queue, pings, the per-type message rate limit, peer totals and the
  peer DB contents are not modelled. No property here depends on them.
- Kernel signature validation and crypto utilities are not modelled: they
  are cryptographic computation. `BuildSignature`'s outcome is an input of
  the receive (`sigOk`).
- In the slate, the bytes of the nested structs and `operator==` are not
  modelled. `operator==` compares `blockVersion && rhs.blockVersion`
  instead of testing them for equality; the model compares records.
- `GetWalletSummary` (`Wallet.cpp`) is not modelled. It is written against
  an older database API and is a sum over output statuses, with no state
  or concurrency of its own. `WalletRefresher` and the byte format of
  `UserMetadata` are not modelled either.
- The JSON factory, owner API declarations, DTOs and test fixture are not
  modelled: they are formatting and declarations. `OutputDTO::ToJSON`
  always writes `spent = false`.
- One hazard of `MessageProcessor.cpp` has no property yet: the ignored
  result of the archive header send at line 456.
