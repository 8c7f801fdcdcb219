SPECIFICATION FlowSpec
CONSTANTS
    c1 = c1
    s1 = s1
    a1 = a1
    NoAuthority = NoAuthority
    Authority <- MCAuthority
    Grounds <- MCGrounds
    Client <- OneClient
    Subject <- OneSubject
    Question <- MCQuestion
    MaxTrace = 13
    MaxUnreported = 1
INVARIANTS
    TypeOK
    HistoryIsPath
    PriorWasReached
    ActivationIsGuarded
    AdviceIsExecutable
    AnswersLeadOn
    AdvisedPassedAllGates
CHECK_DEADLOCK FALSE
