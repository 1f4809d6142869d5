------------------------ MODULE WalletReceiveAbstract ------------------------
(***************************************************************************)
(* What receiving a slate promises the wallet database: a receive of a     *)
(* slate that has no transaction yet, or has a cancelled one, adds in one  *)
(* step a fresh output, a fresh RECEIVING_IN_PROGRESS transaction and the  *)
(* saved slate, or it changes nothing; a receive in progress can be        *)
(* cancelled.  WalletReceive is shown to implement this specification.     *)
(***************************************************************************)
EXTENDS WalletDB

VARIABLE db

Init == db = EmptyDb

(* A slate is taken when no transaction of it exists or one was           *)
(* cancelled.                                                              *)
Receive ==
    \E s \in SlateIds :
        /\ db.nextTxId < MaxTxs
        /\ Acceptable(db, s)
        /\ db' = AddReceived(TakeIds(db), s, db.nextChild, db.nextTxId)

Cancel ==
    \E t \in db.txs :
        /\ t.type = "RECEIVING_IN_PROGRESS"
        /\ db' = Cancelled(db, t)

Next == Receive \/ Cancel

Spec == Init /\ [][Next]_db

=============================================================================
