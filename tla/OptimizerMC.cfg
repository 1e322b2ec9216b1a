CONSTANTS
    Evidence <- MCEvidence
    Rewrites <- MCRewrites
    Template <- MCTemplate
    StepIndent = 30
    MaxProposals = 4
SPECIFICATION Spec
\* A job ends, with its last proposal or with a failure.
CHECK_DEADLOCK FALSE
INVARIANTS
    TypeOK
    RoomIsUsed
    ModelFailuresAreContained
    RunnableAgents
    GuidanceIsAddedOnce
