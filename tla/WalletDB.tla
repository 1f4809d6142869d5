------------------------------- MODULE WalletDB -------------------------------
(***************************************************************************)
(* The part of the wallet database (IWalletDB, WalletSqlite) a receive     *)
(* touches, and the writes made to it.  A database is a record of the      *)
(* wallet transactions, the outputs, the saved slates and the two          *)
(* counters: the next child of the user's key path and the next            *)
(* transaction id kept in UserMetadata.                                    *)
(***************************************************************************)
EXTENDS Naturals

CONSTANTS
    SlateIds,       \* slate uuids the wallet may be sent
    MaxTxs          \* bound on the transaction ids handed out

ASSUME WalletDBAssumptions == MaxTxs \in Nat

(* EWalletTxType and EOutputStatus values of received transactions. *)
TxTypes == {"RECEIVING_IN_PROGRESS", "RECEIVED_CANCELED"}
OutputStatuses == {"NO_CONFIRMATIONS", "CANCELED"}

WalletTxs == [id : Nat, slate : SlateIds, type : TxTypes]
Outputs == [path : Nat, txId : Nat, status : OutputStatuses]
Databases == [txs : SUBSET WalletTxs, outputs : SUBSET Outputs, slates : SUBSET SlateIds,
              nextChild : Nat, nextTxId : Nat]

EmptyDb == [txs |-> {}, outputs |-> {}, slates |-> {}, nextChild |-> 0, nextTxId |-> 0]

(* The transactions saved with a slate id. *)
TxsOfSlate(d, s) == {t \in d.txs : t.slate = s}

(* Mutant of TakeIds: GetNextChildPath hands out the child without        *)
(* storing the next one.                                                   *)
TakeIdsNoChild(d) ==
    [txs |-> d.txs, outputs |-> d.outputs, slates |-> d.slates,
     nextChild |-> d.nextChild, nextTxId |-> d.nextTxId + 1]

(* GetNextChildPath and GetNextTransactionId: each hands out its counter  *)
(* and stores the next one (UserMetadata's nextTxId).                      *)
TakeIds(d) ==
    [txs |-> d.txs, outputs |-> d.outputs, slates |-> d.slates,
     nextChild |-> d.nextChild + 1, nextTxId |-> d.nextTxId + 1]

(* Mutant of AddReceived: UpdateDatabase leaves out SaveSlate.             *)
AddReceivedNoSlate(d, s, p, i) ==
    [txs |-> d.txs \cup {[id |-> i, slate |-> s, type |-> "RECEIVING_IN_PROGRESS"]},
     outputs |-> d.outputs \cup {[path |-> p, txId |-> i, status |-> "NO_CONFIRMATIONS"]},
     slates |-> d.slates,
     nextChild |-> d.nextChild, nextTxId |-> d.nextTxId]

(* UpdateDatabase: AddOutputs, AddTransaction (RECEIVING_IN_PROGRESS) and  *)
(* SaveSlate for slate s, with key path p and transaction id i.            *)
AddReceived(d, s, p, i) ==
    [txs |-> d.txs \cup {[id |-> i, slate |-> s, type |-> "RECEIVING_IN_PROGRESS"]},
     outputs |-> d.outputs \cup {[path |-> p, txId |-> i, status |-> "NO_CONFIRMATIONS"]},
     slates |-> d.slates \cup {s},
     nextChild |-> d.nextChild, nextTxId |-> d.nextTxId]

(* Cancelling transaction t: it becomes RECEIVED_CANCELED and its outputs  *)
(* CANCELED.                                                               *)
CancelledTx(t) == [id |-> t.id, slate |-> t.slate, type |-> "RECEIVED_CANCELED"]
CancelledOutput(o) == [path |-> o.path, txId |-> o.txId, status |-> "CANCELED"]

Cancelled(d, t) ==
    [txs |-> (d.txs \ {t}) \cup {CancelledTx(t)},
     outputs |-> {IF o.txId = t.id THEN CancelledOutput(o) ELSE o : o \in d.outputs},
     slates |-> d.slates, nextChild |-> d.nextChild, nextTxId |-> d.nextTxId]

(* The check of VerifySlateStatus as it can come out: no transaction of  *)
(* the slate exists, or the lookup found one that was cancelled.           *)
Acceptable(d, s) ==
    \/ TxsOfSlate(d, s) = {}
    \/ \E t \in TxsOfSlate(d, s) : t.type = "RECEIVED_CANCELED"

(* Every wallet transaction has its output and its saved slate, and every  *)
(* output belongs to a saved transaction.                                  *)
Complete(d) ==
    /\ \A t \in d.txs : (\E o \in d.outputs : o.txId = t.id) /\ t.slate \in d.slates
    /\ \A o \in d.outputs : \E t \in d.txs : t.id = o.txId

(* Key paths and transaction ids in use are below the counters, so the     *)
(* counters hand out fresh ones.                                           *)
Fresh(d) ==
    /\ \A o \in d.outputs : o.path < d.nextChild /\ o.txId < d.nextTxId
    /\ \A t \in d.txs : t.id < d.nextTxId

(* No two outputs share a key path and no two transactions an id.         *)
Distinct(d) ==
    /\ \A o1, o2 \in d.outputs : o1.path = o2.path => o1 = o2
    /\ \A t1, t2 \in d.txs : t1.id = t2.id => t1 = t2

=============================================================================
