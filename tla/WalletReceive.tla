---------------------------- MODULE WalletReceive ----------------------------
(***************************************************************************)
(* The receiver's side of a transaction: ReceiveSlateBuilder::             *)
(* AddReceiverData (src/src/Wallet/SlateBuilder/ReceiveSlateBuilder.cpp)   *)
(* on the wallet database (WalletSqlite, a SQLite transaction per batch).  *)
(*                                                                         *)
(* The whole call holds the wallet's write lock (line 22), so it does not  *)
(* interleave with another receive or a cancel; what can happen between    *)
(* its steps is a failure: an exception (a bad signature, a payment proof  *)
(* for another wallet, a SQLite or crypto error) or a crash of the         *)
(* process.  Either way the batch is never committed and SQLite discards   *)
(* it.  The database is a record of the tables the call touches: the      *)
(* wallet transactions, the outputs, the saved slates and the two          *)
(* counters (next child key path, next transaction id in UserMetadata).    *)
(***************************************************************************)
EXTENDS WalletDB, FiniteSets

CONSTANTS
    HasTorAddress,  \* whether the wallet has a TOR address (payment proofs)
    NoValue

ASSUME WalletAssumptions ==
    /\ HasTorAddress \in BOOLEAN
    /\ NoValue \notin Databases

(* What a slate brings that decides the outcome: whether the sender's     *)
(* signature data lets ours verify, and whether it asks for a payment     *)
(* proof and, if so, names our address as the receiver.                   *)
Requests == [slate : SlateIds, sigOk : BOOLEAN, proof : BOOLEAN, proofOurs : BOOLEAN]

Phases == {"idle", "verify", "output", "sign", "proof", "db", "commit"}

VARIABLES
    db,       \* the committed database
    batch,    \* the open write batch (the SQLite transaction), or NoValue
    pc,       \* where AddReceiverData is
    req,      \* the slate being received
    path,     \* the key path of the new output
    txId      \* its wallet transaction id

vars == <<db, batch, pc, req, path, txId>>

TypeOK ==
    /\ db \in Databases
    /\ batch \in Databases \cup {NoValue}
    /\ pc \in Phases
    /\ req \in Requests \cup {NoValue}
    /\ path \in Nat
    /\ txId \in Nat

Init ==
    /\ db = EmptyDb
    /\ batch = NoValue
    /\ pc = "idle"
    /\ req = NoValue
    /\ path = 0
    /\ txId = 0

Goto(p) == pc' = p

(* Lines 10-24: a slate arrives and the wallet's write lock is taken.      *)
StartReceive ==
    /\ pc = "idle"
    /\ \E r \in Requests : req' = r
    /\ Goto("verify")
    /\ UNCHANGED <<db, batch, path, txId>>

(* An exception: the call ends, the lock is released, and an open batch   *)
(* is rolled back when its writer goes out of scope (WalletSqlite::       *)
(* Rollback).                                                              *)
Throw ==
    /\ Goto("idle")
    /\ batch' = NoValue
    /\ req' = NoValue

(* Mutant of VerifySlateStatus: any transaction the lookup finds lets the *)
(* slate through, whatever its type.                                       *)
VerifySlateStatusAnyType ==
    /\ pc = "verify"
    /\ \/ TxsOfSlate(db, req.slate) = {}
       \/ \E t \in TxsOfSlate(db, req.slate) : TRUE
    /\ batch' = db
    /\ Goto("output")
    /\ UNCHANGED <<db, req, path, txId>>

(* VerifySlateStatus, lines 81-97 and 27-32: refused if the transaction   *)
(* GetTxBySlateId finds for the slate is not a cancelled receive;          *)
(* otherwise the batch is opened.  Which of several transactions of the    *)
(* slate the lookup returns is not decided here, so it may be any.         *)
VerifySlateStatus ==
    /\ pc = "verify"
    /\ \/ /\ TxsOfSlate(db, req.slate) = {}
          /\ batch' = db
          /\ Goto("output")
          /\ UNCHANGED req
       \/ \E t \in TxsOfSlate(db, req.slate) :
             IF t.type # "RECEIVED_CANCELED"
             THEN Throw
             ELSE /\ batch' = db
                  /\ Goto("output")
                  /\ UNCHANGED req
    /\ UNCHANGED <<db, path, txId>>

(* Mutant of CreateOutput: the counters are advanced in the database       *)
(* itself instead of the batch.                                            *)
CreateOutputUnbatched ==
    /\ pc = "output"
    /\ batch.nextTxId < MaxTxs
    /\ path' = batch.nextChild
    /\ txId' = batch.nextTxId
    /\ db' = TakeIds(db)
    /\ batch' = TakeIds(batch)
    /\ Goto("sign")
    /\ UNCHANGED req

(* Lines 35-43: GetNextChildPath and GetNextTransactionId take the next   *)
(* counters inside the batch; CreateBlindedOutput makes the output.        *)
CreateOutput ==
    /\ pc = "output"
    /\ batch.nextTxId < MaxTxs
    /\ path' = batch.nextChild
    /\ txId' = batch.nextTxId
    /\ batch' = TakeIds(batch)
    /\ Goto("sign")
    /\ UNCHANGED <<db, req>>

(* BuildSignature, lines 99-138: the partial signature must be generated  *)
(* and all partial signatures must verify.                                 *)
BuildSignature ==
    /\ pc = "sign"
    /\ IF req.sigOk THEN Goto("proof") /\ UNCHANGED <<batch, req>> ELSE Throw
    /\ UNCHANGED <<db, path, txId>>

(* UpdatePaymentProof, lines 140-183: a payment proof needs our TOR        *)
(* address and must name it as the receiver.                               *)
UpdatePaymentProof ==
    /\ pc = "proof"
    /\ IF req.proof /\ ~(HasTorAddress /\ req.proofOurs)
       THEN Throw
       ELSE Goto("db") /\ UNCHANGED <<batch, req>>
    /\ UNCHANGED <<db, path, txId>>

(* UpdateDatabase, lines 185-220: the output, the wallet transaction       *)
(* (RECEIVING_IN_PROGRESS) and the slate, all in the batch.                *)
UpdateDatabase ==
    /\ pc = "db"
    /\ batch' = AddReceived(batch, req.slate, path, txId)
    /\ Goto("commit")
    /\ UNCHANGED <<db, req, path, txId>>

(* Line 76: the batch is committed and the lock released.                  *)
Commit ==
    /\ pc = "commit"
    /\ db' = batch
    /\ batch' = NoValue
    /\ Goto("idle")
    /\ req' = NoValue
    /\ UNCHANGED <<path, txId>>

(* A SQLite or crypto error, or a crash of the process, at any point after *)
(* the batch is opened: nothing of the batch is kept.                      *)
Fail ==
    /\ pc \in {"output", "sign", "proof", "db", "commit"}
    /\ Throw
    /\ UNCHANGED <<db, path, txId>>

(* The user cancels a receive that is in progress: the transaction becomes *)
(* RECEIVED_CANCELED and its output CANCELED, in one batch under the lock. *)
CancelTx ==
    /\ pc = "idle"
    /\ \E t \in db.txs :
         /\ t.type = "RECEIVING_IN_PROGRESS"
         /\ db' = Cancelled(db, t)
    /\ UNCHANGED <<batch, pc, req, path, txId>>

Next ==
    \/ StartReceive \/ VerifySlateStatus \/ CreateOutput \/ BuildSignature
    \/ UpdatePaymentProof \/ UpdateDatabase \/ Commit \/ Fail \/ CancelTx

Spec == Init /\ [][Next]_vars

-----------------------------------------------------------------------------
(* A receive is all or nothing in the database, whatever step fails or    *)
(* crashes: every wallet transaction has its output and its saved slate,   *)
(* and every output belongs to a saved transaction.                        *)
ReceiveAtomic == Complete(db)

(* No two outputs of the wallet are derived from the same key path, and    *)
(* no two transactions share an id, across failed and repeated receives:   *)
(* the counters taken in a batch that is rolled back are handed out again, *)
(* which is safe only because nothing that used them was kept.             *)
UniqueKeys == Distinct(db)

(* A slate is credited at most once: of the receives of one slate, at most *)
(* one is not cancelled (the check of line 88).                            *)
OneLiveReceivePerSlate ==
    \A s \in SlateIds :
        Cardinality({t \in TxsOfSlate(db, s) : t.type # "RECEIVED_CANCELED"}) <= 1

(* What the replay of ReceiveSlateBuilder.cpp:88 can and cannot do: a      *)
(* slate is credited by two live receives only if one of its receives was   *)
(* cancelled before, since the check lets a slate with transactions through *)
(* only on a cancelled one.  Without a cancel, OneLiveReceivePerSlate       *)
(* holds.                                                                  *)
CreditedTwiceOnlyAfterCancel ==
    \A s \in SlateIds : \A t1, t2 \in TxsOfSlate(db, s) :
        (t1 # t2 /\ t1.type # "RECEIVED_CANCELED" /\ t2.type # "RECEIVED_CANCELED")
            => \E t \in TxsOfSlate(db, s) : t.type = "RECEIVED_CANCELED"

Abstract == INSTANCE WalletReceiveAbstract

(* AddReceiverData implements the atomic receive: with the batch and the   *)
(* steps of the call hidden, the database changes only by a whole receive  *)
(* of an acceptable slate with fresh counters, or by a cancel.             *)
AbstractSpec == Abstract!Spec

=============================================================================
