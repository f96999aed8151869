\* Two sessions: the one of this run and one of an earlier run.
CONSTANTS
    Sessions = {s1, s2}
    NoSession = NoSession
    ApproveTokens = TRUE
    Grants <- MakerGrants
    Before <- NoAllowance
    MaxRefused = 1

SPECIFICATION FairSpec

INVARIANTS
    SessionTypeOK
    ApprovalsTypeOK
    StreamsOfThisRun
    ServesWithAllowances

PROPERTIES
    ImplementsSession
    KeepsComingBack
