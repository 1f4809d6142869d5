\* Binary round trip with the real widths of the length prefixes; JSON
\* transfers are part of the run, so a slate may reach the binary encoding
\* after a JSON hop.
CONSTANTS
    SlateIds <- MCSlateIds
    Offsets <- MCOffsets
    ZERO_OFFSET = 0
    Amounts <- MCAmounts
    Participants <- MCParticipants
    Heights <- MCHeights
    SigValues <- MCSigValues
    Commits <- MCCommits
    RangeProofs <- MCRangeProofs
    PaymentProofs <- MCPaymentProofs
    NoValue = NoValue
    SIGS_LEN_MOD = 256
    COMS_LEN_MOD = 65536
    MaxSigs = 2
    MaxComs = 2
SPECIFICATION Spec
INVARIANT BinaryRoundTrip
