\* One blocking entry, two tool calls in flight.
CONSTANTS
    Roles <- MCRoles
    Dev <- MCDev
    Evaluators <- MCEvaluators
    CanWaive <- MCEvaluators
    Posters <- MCPosters
    Callers = {c1, c2}
    MaxPosts = 1
SPECIFICATION FairSpec
INVARIANTS TypeOK SweepSpeaksOnce PassedMeansSettled
PROPERTIES OverdueIsRaised AttemptEnds
CHECK_DEADLOCK FALSE
