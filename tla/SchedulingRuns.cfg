SPECIFICATION Spec
CONSTANTS
    Attendees = {a1, a2}
    Automatic = {a2}
    Remote = {a1}
    None = None
    MaxTemporaryFailures = 1
    StandingAt = {1}
    RestoreGap = 1000
    MaxPuts = 2
    MaxAnswers = 1
    MaxDuplicates = 1
INVARIANTS TypeOK EveryoneUpToDate AnswersAgree AnswerIsForThisTime NoStrayCopies FailureShown
PROPERTY QueueDrains
CHECK_DEADLOCK FALSE
