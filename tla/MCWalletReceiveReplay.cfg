\* One slate sent again after a receive of it was cancelled: the lookup of
\* line 87 may find either transaction of the slate.
CONSTANTS
    SlateIds = {s1}
    HasTorAddress = TRUE
    MaxTxs = 3
    NoValue = NoValue
SPECIFICATION Spec
INVARIANT OneLiveReceivePerSlate
