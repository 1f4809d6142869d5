------------------------- MODULE WalletReceiveProofs -------------------------
(***************************************************************************)
(* Proofs about the receive of ReceiveSlateBuilder::AddReceiverData        *)
(* (WalletReceive.tla) for every set of slates and every bound on the      *)
(* transaction ids: type correctness, that the database only ever holds    *)
(* whole receives with distinct key paths and ids, and that the stepwise   *)
(* receive with its batch implements the atomic one of                     *)
(* WalletReceiveAbstract.                                                  *)
(***************************************************************************)
EXTENDS WalletReceive, TLAPS

-----------------------------------------------------------------------------
(* Where AddReceiverData is, and what it has done to its batch so far: the *)
(* batch is open from VerifySlateStatus on, is a copy of the database      *)
(* until CreateOutput takes the counters in it, and holds the whole        *)
(* receive before Commit.  The slate passed the check of line 88 against   *)
(* the database, which nothing else changes while the lock is held.        *)
PhaseInv ==
    /\ pc \in {"idle", "verify"} => batch = NoValue
    /\ pc # "idle" => req \in Requests
    /\ pc = "output" => batch = db /\ Acceptable(db, req.slate)
    /\ pc \in {"sign", "proof", "db"} =>
          /\ batch = TakeIds(db)
          /\ path = db.nextChild
          /\ txId = db.nextTxId
          /\ db.nextTxId < MaxTxs
          /\ Acceptable(db, req.slate)
    /\ pc = "commit" =>
          /\ batch = AddReceived(TakeIds(db), req.slate, db.nextChild, db.nextTxId)
          /\ db.nextTxId < MaxTxs
          /\ Acceptable(db, req.slate)

(* The inductive invariant: ReceiveAtomic and UniqueKeys alone are not     *)
(* inductive, since a commit keeps them only if the counters are fresh and *)
(* the batch holds exactly one whole receive.                              *)
IInv == TypeOK /\ Complete(db) /\ Fresh(db) /\ Distinct(db) /\ PhaseInv

-----------------------------------------------------------------------------
(* The writes of a receive and of a cancel keep a database a database.    *)
LEMMA TakeIdsType ==
    ASSUME NEW d \in Databases
    PROVE  TakeIds(d) \in Databases
BY DEF TakeIds, Databases

LEMMA AddReceivedType ==
    ASSUME NEW d \in Databases, NEW s \in SlateIds, NEW p \in Nat, NEW i \in Nat
    PROVE  AddReceived(d, s, p, i) \in Databases
BY DEF AddReceived, Databases, Outputs, WalletTxs, OutputStatuses, TxTypes

LEMMA CancelledType ==
    ASSUME NEW d \in Databases, NEW t \in d.txs
    PROVE  Cancelled(d, t) \in Databases
<1>1. CancelledTx(t) \in WalletTxs
  BY DEF Databases, WalletTxs, TxTypes, CancelledTx
<1>2. \A o \in d.outputs : CancelledOutput(o) \in Outputs
  BY DEF Databases, Outputs, OutputStatuses, CancelledOutput
<1>3. QED
  BY <1>1, <1>2 DEF Cancelled, Databases

(* A whole receive keeps the database complete, its counters ahead of    *)
(* every key path and id in use, and those distinct: the new output and   *)
(* transaction take the counters, which nothing uses yet.                  *)
LEMMA ReceiveKeepsDb ==
    ASSUME NEW d \in Databases, Complete(d), Fresh(d), Distinct(d), NEW s \in SlateIds
    PROVE  LET d2 == AddReceived(TakeIds(d), s, d.nextChild, d.nextTxId)
           IN  Complete(d2) /\ Fresh(d2) /\ Distinct(d2)
<1> DEFINE no == [path |-> d.nextChild, txId |-> d.nextTxId, status |-> "NO_CONFIRMATIONS"]
           nt == [id |-> d.nextTxId, slate |-> s, type |-> "RECEIVING_IN_PROGRESS"]
           d2 == AddReceived(TakeIds(d), s, d.nextChild, d.nextTxId)
<1>1. /\ d2.txs = d.txs \cup {nt}
      /\ d2.outputs = d.outputs \cup {no}
      /\ d2.slates = d.slates \cup {s}
      /\ d2.nextChild = d.nextChild + 1
      /\ d2.nextTxId = d.nextTxId + 1
  BY DEF AddReceived, TakeIds
<1>2. /\ d.nextChild \in Nat /\ d.nextTxId \in Nat
      /\ \A o \in d.outputs : o.path \in Nat /\ o.txId \in Nat
      /\ \A t \in d.txs : t.id \in Nat
  BY DEF Databases, Outputs, WalletTxs
<1>3. Complete(d2)
  <2>1. ASSUME NEW t \in d2.txs
        PROVE  (\E o \in d2.outputs : o.txId = t.id) /\ t.slate \in d2.slates
    <3>1. CASE t = nt
      <4>1. no \in d2.outputs /\ no.txId = t.id
        BY <1>1, <3>1 DEF no, nt
      <4>2. t.slate \in d2.slates
        BY <1>1, <3>1 DEF nt
      <4>3. QED
        BY <4>1, <4>2
    <3>2. CASE t \in d.txs
      BY <1>1, <3>2 DEF Complete
    <3>3. QED
      BY <1>1, <3>1, <3>2
  <2>2. ASSUME NEW o \in d2.outputs
        PROVE  \E t \in d2.txs : t.id = o.txId
    <3>1. CASE o = no
      <4>1. nt \in d2.txs /\ nt.id = o.txId
        BY <1>1, <3>1 DEF no, nt
      <4>2. QED
        BY <4>1
    <3>2. CASE o \in d.outputs
      BY <1>1, <3>2 DEF Complete
    <3>3. QED
      BY <1>1, <3>1, <3>2
  <2>3. QED
    BY <2>1, <2>2 DEF Complete
<1>4. Fresh(d2)
  <2>1. ASSUME NEW o \in d2.outputs
        PROVE  o.path < d2.nextChild /\ o.txId < d2.nextTxId
    <3>1. CASE o = no
      BY <1>1, <1>2, <3>1 DEF no
    <3>2. CASE o \in d.outputs
      BY <1>1, <1>2, <3>2 DEF Fresh
    <3>3. QED
      BY <1>1, <3>1, <3>2
  <2>2. ASSUME NEW t \in d2.txs
        PROVE  t.id < d2.nextTxId
    <3>1. CASE t = nt
      BY <1>1, <1>2, <3>1 DEF nt
    <3>2. CASE t \in d.txs
      BY <1>1, <1>2, <3>2 DEF Fresh
    <3>3. QED
      BY <1>1, <3>1, <3>2
  <2>3. QED
    BY <2>1, <2>2 DEF Fresh
<1>5. Distinct(d2)
  <2>1. \A o \in d.outputs : o # no /\ o.path # no.path
    BY <1>2 DEF Fresh, no
  <2>2. \A t \in d.txs : t # nt /\ t.id # nt.id
    BY <1>2 DEF Fresh, nt
  <2>3. QED
    BY <1>1, <2>1, <2>2 DEF Distinct
<1>6. QED
  BY <1>3, <1>4, <1>5

(* A cancel changes a type and some statuses, never an id, a key path or a *)
(* slate, so it keeps all three.                                           *)
LEMMA CancelKeepsDb ==
    ASSUME NEW d \in Databases, Complete(d), Fresh(d), Distinct(d), NEW t \in d.txs
    PROVE  LET d2 == Cancelled(d, t)
           IN  Complete(d2) /\ Fresh(d2) /\ Distinct(d2)
<1> DEFINE d2 == Cancelled(d, t)
           Img(o) == IF o.txId = t.id THEN CancelledOutput(o) ELSE o
<1>1. /\ d2.txs = (d.txs \ {t}) \cup {CancelledTx(t)}
      /\ d2.outputs = {Img(o) : o \in d.outputs}
      /\ d2.slates = d.slates
      /\ d2.nextChild = d.nextChild
      /\ d2.nextTxId = d.nextTxId
  BY DEF Cancelled
<1>2. /\ \A o \in d.outputs : Img(o).path = o.path /\ Img(o).txId = o.txId
      /\ CancelledTx(t).id = t.id /\ CancelledTx(t).slate = t.slate
  BY DEF CancelledOutput, CancelledTx, Img
<1>3. Complete(d2)
  <2>1. ASSUME NEW u \in d2.txs
        PROVE  (\E o \in d2.outputs : o.txId = u.id) /\ u.slate \in d2.slates
    <3>1. PICK v \in d.txs : v.id = u.id /\ v.slate = u.slate
      BY <1>1, <1>2
    <3>2. PICK o \in d.outputs : o.txId = v.id
      BY DEF Complete
    <3>3. QED
      BY <3>1, <3>2, <1>1, <1>2 DEF Complete
  <2>2. ASSUME NEW o2 \in d2.outputs
        PROVE  \E u \in d2.txs : u.id = o2.txId
    <3>1. PICK o \in d.outputs : o2 = Img(o)
      BY <1>1
    <3>2. PICK v \in d.txs : v.id = o.txId
      BY DEF Complete
    <3>3. CASE v = t
      BY <3>1, <3>2, <3>3, <1>1, <1>2
    <3>4. CASE v # t
      BY <3>1, <3>2, <3>4, <1>1, <1>2
    <3>5. QED
      BY <3>3, <3>4
  <2>3. QED
    BY <2>1, <2>2 DEF Complete
<1>4. Fresh(d2)
  <2>1. \A o2 \in d2.outputs : o2.path < d2.nextChild /\ o2.txId < d2.nextTxId
    BY <1>1, <1>2 DEF Fresh
  <2>2. \A u \in d2.txs : u.id < d2.nextTxId
    BY <1>1, <1>2 DEF Fresh
  <2>3. QED
    BY <2>1, <2>2 DEF Fresh
<1>5. Distinct(d2)
  <2>1. ASSUME NEW o1 \in d2.outputs, NEW o2 \in d2.outputs, o1.path = o2.path
        PROVE  o1 = o2
    <3>1. PICK a \in d.outputs : o1 = Img(a)
      BY <1>1
    <3>2. PICK b \in d.outputs : o2 = Img(b)
      BY <1>1
    <3>3. a = b
      BY <3>1, <3>2, <1>2, <2>1 DEF Distinct
    <3>4. QED
      BY <3>1, <3>2, <3>3
  <2>2. ASSUME NEW u1 \in d2.txs, NEW u2 \in d2.txs, u1.id = u2.id
        PROVE  u1 = u2
    <3>1. \A v \in d.txs \ {t} : v.id # t.id
      BY DEF Distinct
    <3>2. QED
      BY <3>1, <1>1, <1>2, <2>2 DEF Distinct
  <2>3. QED
    BY <2>1, <2>2 DEF Distinct
<1>6. QED
  BY <1>3, <1>4, <1>5

-----------------------------------------------------------------------------
(* The wallet starts with an empty database and no receive under way.     *)
LEMMA InitIInv == Init => IInv
<1> SUFFICES ASSUME Init PROVE IInv
  OBVIOUS
<1>1. TypeOK
  BY DEF Init, TypeOK, EmptyDb, Databases, Phases
<1>2. Complete(db) /\ Fresh(db) /\ Distinct(db)
  BY DEF Init, EmptyDb, Complete, Fresh, Distinct
<1>3. PhaseInv
  BY DEF Init, PhaseInv
<1>4. QED
  BY <1>1, <1>2, <1>3 DEF IInv

(* Every step of AddReceiverData, a failure and a cancel keep IInv.        *)
LEMMA NextIInv == IInv /\ [Next]_vars => IInv'
<1> SUFFICES ASSUME IInv, [Next]_vars PROVE IInv'
  OBVIOUS
<1> USE DEF IInv
<1>1. CASE StartReceive
  BY <1>1 DEF StartReceive, Goto, TypeOK, Phases, PhaseInv, Complete, Fresh, Distinct
<1>2. CASE VerifySlateStatus
  <2>1. CASE TxsOfSlate(db, req.slate) = {} /\ batch' = db /\ Goto("output") /\ UNCHANGED req
    BY <1>2, <2>1 DEF VerifySlateStatus, Goto, TypeOK, Phases, PhaseInv, Acceptable,
                      Complete, Fresh, Distinct
  <2>2. CASE \E t \in TxsOfSlate(db, req.slate) :
                IF t.type # "RECEIVED_CANCELED"
                THEN Throw
                ELSE /\ batch' = db /\ Goto("output") /\ UNCHANGED req
    <3>1. PICK t \in TxsOfSlate(db, req.slate) :
                IF t.type # "RECEIVED_CANCELED"
                THEN Throw
                ELSE /\ batch' = db /\ Goto("output") /\ UNCHANGED req
      BY <2>2
    <3>2. CASE t.type # "RECEIVED_CANCELED"
      BY <1>2, <3>1, <3>2 DEF VerifySlateStatus, Throw, Goto, TypeOK, Phases, PhaseInv,
                              Complete, Fresh, Distinct
    <3>3. CASE t.type = "RECEIVED_CANCELED"
      BY <1>2, <3>1, <3>3 DEF VerifySlateStatus, Goto, TypeOK, Phases, PhaseInv, Acceptable,
                              Complete, Fresh, Distinct
    <3>4. QED
      BY <3>2, <3>3
  <2>3. QED
    BY <1>2, <2>1, <2>2 DEF VerifySlateStatus
<1>3. CASE CreateOutput
  <2>1. batch = db /\ req \in Requests /\ Acceptable(db, req.slate)
    BY <1>3 DEF CreateOutput, PhaseInv
  <2>2. TakeIds(db) \in Databases
    BY TakeIdsType DEF TypeOK
  <2>3. TypeOK'
    BY <1>3, <2>1, <2>2 DEF CreateOutput, Goto, TypeOK, Phases, Databases
  <2>4. PhaseInv'
    BY <1>3, <2>1 DEF CreateOutput, Goto, PhaseInv
  <2>5. QED
    BY <1>3, <2>3, <2>4 DEF CreateOutput
<1>4. CASE BuildSignature
  BY <1>4 DEF BuildSignature, Throw, Goto, TypeOK, Phases, PhaseInv
<1>5. CASE UpdatePaymentProof
  BY <1>5 DEF UpdatePaymentProof, Throw, Goto, TypeOK, Phases, PhaseInv
<1>6. CASE UpdateDatabase
  <2>1. /\ batch = TakeIds(db) /\ path = db.nextChild /\ txId = db.nextTxId
        /\ db.nextTxId < MaxTxs /\ Acceptable(db, req.slate) /\ req \in Requests
    BY <1>6 DEF UpdateDatabase, PhaseInv
  <2>2. AddReceived(TakeIds(db), req.slate, db.nextChild, db.nextTxId) \in Databases
    BY <2>1, TakeIdsType, AddReceivedType DEF TypeOK, Databases, Requests
  <2>3. TypeOK'
    BY <1>6, <2>1, <2>2 DEF UpdateDatabase, Goto, TypeOK, Phases
  <2>4. PhaseInv'
    BY <1>6, <2>1 DEF UpdateDatabase, Goto, PhaseInv
  <2>5. QED
    BY <1>6, <2>3, <2>4 DEF UpdateDatabase
<1>7. CASE Commit
  <2>1. /\ batch = AddReceived(TakeIds(db), req.slate, db.nextChild, db.nextTxId)
        /\ req \in Requests
    BY <1>7 DEF Commit, PhaseInv
  <2>2. req.slate \in SlateIds
    BY <2>1 DEF Requests
  <2>3. batch \in Databases
    BY <2>1, <2>2, TakeIdsType, AddReceivedType DEF TypeOK, Databases
  <2>4. Complete(batch) /\ Fresh(batch) /\ Distinct(batch)
    BY <2>1, <2>2, ReceiveKeepsDb DEF TypeOK
  <2>5. TypeOK'
    BY <1>7, <2>3 DEF Commit, Goto, TypeOK, Phases
  <2>6. PhaseInv'
    BY <1>7 DEF Commit, Goto, PhaseInv
  <2>7. QED
    BY <1>7, <2>4, <2>5, <2>6 DEF Commit
<1>8. CASE Fail
  BY <1>8 DEF Fail, Throw, Goto, TypeOK, Phases, PhaseInv
<1>9. CASE CancelTx
  <2>1. PICK t \in db.txs : t.type = "RECEIVING_IN_PROGRESS" /\ db' = Cancelled(db, t)
    BY <1>9 DEF CancelTx
  <2>2. Cancelled(db, t) \in Databases
    BY CancelledType DEF TypeOK
  <2>3. Complete(db') /\ Fresh(db') /\ Distinct(db')
    BY <2>1, CancelKeepsDb DEF TypeOK
  <2>4. TypeOK'
    BY <1>9, <2>1, <2>2 DEF CancelTx, TypeOK
  <2>5. PhaseInv'
    BY <1>9 DEF CancelTx, PhaseInv
  <2>6. QED
    BY <2>3, <2>4, <2>5
<1>10. CASE UNCHANGED vars
  BY <1>10 DEF vars, TypeOK, PhaseInv, Complete, Fresh, Distinct
<1>11. QED
  BY <1>1, <1>2, <1>3, <1>4, <1>5, <1>6, <1>7, <1>8, <1>9, <1>10 DEF Next

(* IInv holds in every state of the wallet.                               *)
LEMMA AlwaysIInv == Spec => []IInv
BY InitIInv, NextIInv, PTL DEF Spec

(* The variables of the model keep their types: the database and the batch *)
(* are databases, the phase one of AddReceiverData's.                      *)
THEOREM TypeCorrect == Spec => []TypeOK
BY AlwaysIInv, PTL DEF IInv

(* A receive is all or nothing in the committed database (ReceiveAtomic),  *)
(* whichever step of AddReceiverData throws and whether the process        *)
(* crashes: for any slates and any bound on the transaction ids.           *)
THEOREM ReceiveIsAtomic == Spec => []ReceiveAtomic
BY AlwaysIInv, PTL DEF IInv, ReceiveAtomic

(* No key path and no transaction id is used twice (UniqueKeys), though    *)
(* the counters a rolled-back batch took are handed out again.             *)
THEOREM KeysUnique == Spec => []UniqueKeys
BY AlwaysIInv, PTL DEF IInv, UniqueKeys

-----------------------------------------------------------------------------
(* Every step of the model changes the database as a whole receive of an   *)
(* acceptable slate (Commit), as a cancel (CancelTx), or not at all.       *)
LEMMA StepRefines == IInv /\ [Next]_vars => [Abstract!Next]_db
<1> SUFFICES ASSUME IInv, [Next]_vars PROVE [Abstract!Next]_db
  OBVIOUS
<1>1. CASE Commit
  <2>1. /\ batch = AddReceived(TakeIds(db), req.slate, db.nextChild, db.nextTxId)
        /\ db.nextTxId < MaxTxs
        /\ Acceptable(db, req.slate)
        /\ req \in Requests
    BY <1>1 DEF Commit, IInv, PhaseInv
  <2>2. req.slate \in SlateIds
    BY <2>1 DEF Requests
  <2>3. /\ Abstract!Acceptable(db, req.slate) = Acceptable(db, req.slate)
        /\ Abstract!AddReceived(Abstract!TakeIds(db), req.slate, db.nextChild, db.nextTxId)
           = AddReceived(TakeIds(db), req.slate, db.nextChild, db.nextTxId)
    BY DEF Abstract!Acceptable, Acceptable, Abstract!TxsOfSlate, TxsOfSlate,
           Abstract!AddReceived, AddReceived, Abstract!TakeIds, TakeIds
  <2>4. Abstract!Receive
    BY <1>1, <2>1, <2>2, <2>3 DEF Commit, Abstract!Receive
  <2>5. QED
    BY <2>4 DEF Abstract!Next
<1>2. CASE CancelTx
  <2>1. PICK t \in db.txs : t.type = "RECEIVING_IN_PROGRESS" /\ db' = Cancelled(db, t)
    BY <1>2 DEF CancelTx
  <2>2. Abstract!Cancelled(db, t) = Cancelled(db, t)
    BY DEF Abstract!Cancelled, Cancelled, Abstract!CancelledTx, CancelledTx,
           Abstract!CancelledOutput, CancelledOutput
  <2>3. Abstract!Cancel
    BY <2>1, <2>2 DEF Abstract!Cancel
  <2>4. QED
    BY <2>3 DEF Abstract!Next
<1>3. CASE StartReceive \/ VerifySlateStatus \/ CreateOutput \/ BuildSignature
             \/ UpdatePaymentProof \/ UpdateDatabase \/ Fail \/ UNCHANGED vars
  BY <1>3 DEF StartReceive, VerifySlateStatus, CreateOutput, BuildSignature,
              UpdatePaymentProof, UpdateDatabase, Fail, vars
<1>4. QED
  BY <1>1, <1>2, <1>3 DEF Next

(* AddReceiverData, with its batch, its phases and its failures hidden,    *)
(* implements the atomic receive of WalletReceiveAbstract (AbstractSpec).  *)
THEOREM Refinement == Spec => AbstractSpec
<1>1. Init => Abstract!Init
  BY DEF Init, Abstract!Init, EmptyDb, Abstract!EmptyDb
<1>2. QED
  BY <1>1, AlwaysIInv, StepRefines, PTL DEF Spec, AbstractSpec, Abstract!Spec


-----------------------------------------------------------------------------
(* CreditedTwiceOnlyAfterCancel for a database d.                          *)
ReplayBound(d) ==
    \A s \in SlateIds : \A t1, t2 \in TxsOfSlate(d, s) :
        (t1 # t2 /\ t1.type # "RECEIVED_CANCELED" /\ t2.type # "RECEIVED_CANCELED")
            => \E t \in TxsOfSlate(d, s) : t.type = "RECEIVED_CANCELED"

(* A whole receive of an acceptable slate keeps the bound: the new live    *)
(* transaction has a twin only if the slate had a transaction already,     *)
(* and then the check found a cancelled one.                               *)
LEMMA ReceiveKeepsReplayBound ==
    ASSUME NEW d, NEW s0 \in SlateIds, NEW p, NEW i, Acceptable(d, s0), ReplayBound(d)
    PROVE  ReplayBound(AddReceived(TakeIds(d), s0, p, i))
<1> DEFINE nt == [id |-> i, slate |-> s0, type |-> "RECEIVING_IN_PROGRESS"]
           d2 == AddReceived(TakeIds(d), s0, p, i)
<1>1. d2.txs = d.txs \cup {nt}
  BY DEF AddReceived, TakeIds
<1>2. SUFFICES ASSUME NEW s \in SlateIds, NEW t1 \in TxsOfSlate(d2, s),
                      NEW t2 \in TxsOfSlate(d2, s), t1 # t2,
                      t1.type # "RECEIVED_CANCELED", t2.type # "RECEIVED_CANCELED"
               PROVE  \E t \in TxsOfSlate(d2, s) : t.type = "RECEIVED_CANCELED"
  BY DEF ReplayBound
<1>3. TxsOfSlate(d, s) \subseteq TxsOfSlate(d2, s)
  BY <1>1 DEF TxsOfSlate
<1>4. CASE t1 \in d.txs /\ t2 \in d.txs
  <2>1. t1 \in TxsOfSlate(d, s) /\ t2 \in TxsOfSlate(d, s)
    BY <1>1, <1>2, <1>4 DEF TxsOfSlate
  <2>. QED
    BY <1>2, <1>3, <2>1 DEF ReplayBound
<1>5. CASE t1 = nt \/ t2 = nt
  <2>1. s = s0 /\ TxsOfSlate(d, s0) # {}
    BY <1>1, <1>2, <1>5 DEF TxsOfSlate
  <2>2. \E t \in TxsOfSlate(d, s0) : t.type = "RECEIVED_CANCELED"
    BY <2>1 DEF Acceptable
  <2>. QED
    BY <1>3, <2>1, <2>2
<1>. QED
  BY <1>1, <1>2, <1>4, <1>5 DEF TxsOfSlate

(* A cancel keeps the bound: it turns a live transaction into a cancelled *)
(* one and never the other way.                                            *)
LEMMA CancelKeepsReplayBound ==
    ASSUME NEW d, NEW t0 \in d.txs, t0.type = "RECEIVING_IN_PROGRESS", ReplayBound(d)
    PROVE  ReplayBound(Cancelled(d, t0))
<1> DEFINE d2 == Cancelled(d, t0)
<1>1. d2.txs = (d.txs \ {t0}) \cup {CancelledTx(t0)}
      /\ CancelledTx(t0).type = "RECEIVED_CANCELED"
      /\ CancelledTx(t0).slate = t0.slate
  BY DEF Cancelled, CancelledTx
<1>2. SUFFICES ASSUME NEW s \in SlateIds, NEW t1 \in TxsOfSlate(d2, s),
                      NEW t2 \in TxsOfSlate(d2, s), t1 # t2,
                      t1.type # "RECEIVED_CANCELED", t2.type # "RECEIVED_CANCELED"
               PROVE  \E t \in TxsOfSlate(d2, s) : t.type = "RECEIVED_CANCELED"
  BY DEF ReplayBound
<1>3. t1 \in TxsOfSlate(d, s) /\ t2 \in TxsOfSlate(d, s)
  BY <1>1, <1>2 DEF TxsOfSlate
<1>4. PICK c \in TxsOfSlate(d, s) : c.type = "RECEIVED_CANCELED"
  BY <1>2, <1>3 DEF ReplayBound
<1>5. c # t0 /\ c \in TxsOfSlate(d2, s)
  BY <1>1, <1>4 DEF TxsOfSlate
<1>. QED
  BY <1>4, <1>5

(* Every step keeps the bound: as a step of the abstract receive it is a  *)
(* whole receive, a cancel, or leaves the database alone.                  *)
LEMMA ReplayBoundStep == IInv /\ ReplayBound(db) /\ [Next]_vars => ReplayBound(db')
<1> SUFFICES ASSUME IInv, ReplayBound(db), [Next]_vars PROVE ReplayBound(db')
  OBVIOUS
<1>1. [Abstract!Next]_db
  BY StepRefines
<1>2. CASE Abstract!Receive
  <2>1. PICK s \in SlateIds :
           /\ Abstract!Acceptable(db, s)
           /\ db' = Abstract!AddReceived(Abstract!TakeIds(db), s, db.nextChild, db.nextTxId)
    BY <1>2 DEF Abstract!Receive
  <2>2. /\ Abstract!Acceptable(db, s) = Acceptable(db, s)
        /\ Abstract!AddReceived(Abstract!TakeIds(db), s, db.nextChild, db.nextTxId)
           = AddReceived(TakeIds(db), s, db.nextChild, db.nextTxId)
    BY DEF Abstract!Acceptable, Acceptable, Abstract!TxsOfSlate, TxsOfSlate,
           Abstract!AddReceived, AddReceived, Abstract!TakeIds, TakeIds
  <2>. QED
    BY <2>1, <2>2, ReceiveKeepsReplayBound
<1>3. CASE Abstract!Cancel
  <2>1. PICK t \in db.txs : t.type = "RECEIVING_IN_PROGRESS" /\ db' = Abstract!Cancelled(db, t)
    BY <1>3 DEF Abstract!Cancel
  <2>2. Abstract!Cancelled(db, t) = Cancelled(db, t)
    BY DEF Abstract!Cancelled, Cancelled, Abstract!CancelledTx, CancelledTx,
           Abstract!CancelledOutput, CancelledOutput
  <2>. QED
    BY <2>1, <2>2, CancelKeepsReplayBound
<1>4. CASE UNCHANGED db
  BY <1>4
<1>. QED
  BY <1>1, <1>2, <1>3, <1>4 DEF Abstract!Next

(* What the replay of ReceiveSlateBuilder.cpp:88 is limited to, for every  *)
(* set of slates and every bound on the transaction ids: a slate is        *)
(* credited by two live receives only after one of its receives was       *)
(* cancelled.  The wallet_receive_replay run shows that it can then be     *)
(* credited twice.                                                         *)
THEOREM CreditedTwiceOnlyAfterCancelHolds == Spec => []CreditedTwiceOnlyAfterCancel
<1>1. Init => IInv /\ ReplayBound(db)
  BY InitIInv DEF Init, EmptyDb, ReplayBound, TxsOfSlate
<1>2. IInv /\ ReplayBound(db) /\ [Next]_vars => IInv' /\ ReplayBound(db)'
  BY NextIInv, ReplayBoundStep
<1>3. ReplayBound(db) => CreditedTwiceOnlyAfterCancel
  BY DEF ReplayBound, CreditedTwiceOnlyAfterCancel
<1>. QED
  BY <1>1, <1>2, <1>3, PTL DEF Spec

=============================================================================
