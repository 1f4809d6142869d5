\* Two slates, four transaction ids: enough for a receive, a failed one, a
\* cancel and a second receive of the same slate.
CONSTANTS
    SlateIds = {s1, s2}
    HasTorAddress = TRUE
    MaxTxs = 4
    NoValue = NoValue
SYMMETRY Symmetry
SPECIFICATION Spec
INVARIANTS
    ReceiveAtomic
    UniqueKeys
    CreditedTwiceOnlyAfterCancel
PROPERTY
    AbstractSpec
