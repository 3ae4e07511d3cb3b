SPECIFICATION MonitorSpec
CONSTANTS
    Names = {p1, p2}
    MaxExits = 3
INVARIANTS OneProcessPerName StoppedMeansGone
PROPERTIES KeptRunning QuietStopEnds
CHECK_DEADLOCK FALSE
