\* JSON round trip: FromJSON against ToJSON.
CONSTANTS
    SlateIds <- MCSlateIds
    Offsets <- MCOffsets
    ZERO_OFFSET = 0
    Amounts <- MCAmounts
    Participants <- MCParticipants
    Heights <- MCHeights
    SigValues <- MCSigValues
    Commits <- MCCommits
    RangeProofs <- MCRangeProofs
    PaymentProofs <- MCPaymentProofs
    NoValue = NoValue
    SIGS_LEN_MOD = 256
    COMS_LEN_MOD = 65536
    MaxSigs = 2
    MaxComs = 2
SPECIFICATION Spec
INVARIANT JsonRoundTrip
