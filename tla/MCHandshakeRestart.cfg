SPECIFICATION Spec
CONSTANTS
    Checked <- OnlyResponder
    MaxFresh = 9
    MaxSeq = 6
    MaxRestarts = 1
    MaxPoolFails = 1
INVARIANT TypeOK
INVARIANT KeyAgreement
INVARIANT SecretsWiped
CHECK_DEADLOCK FALSE
