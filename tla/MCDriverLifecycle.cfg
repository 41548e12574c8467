SPECIFICATION FairSpec
CONSTANTS
    Pipes = {p1, p2}
    None = None
INVARIANTS AtMostTwice StopIsHeard
PROPERTIES AnswerMeansExecuted CleanupReturns ClientAnswered
