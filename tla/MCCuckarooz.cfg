CONSTANTS
    PROOFSIZE = 3
    EDGEMASK = 3
    NODEMASK = 3
SPECIFICATION Spec
\* verify_cuckarooz returns: its final state has no successor.
CHECK_DEADLOCK FALSE
INVARIANT
    VerifierMatchesReference
PROPERTY
    VerifierTerminates
