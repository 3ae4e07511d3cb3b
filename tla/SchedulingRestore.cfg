SPECIFICATION Spec
CONSTANTS
    Attendees = {a1, a2}
    Automatic = {a2}
    Remote = {a1}
    None = None
    MaxTemporaryFailures = 1
    StandingAt = {0}
    RestoreGap = 1000
    MaxPuts = 2
    MaxAnswers = 1
    MaxDuplicates = 1
INVARIANT RestoredEventArrives
CHECK_DEADLOCK FALSE
