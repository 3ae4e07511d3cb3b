SPECIFICATION Spec
CONSTANTS
    Workers = {w1, w2}
    MaxRequests = 2
    WorkerMax = 1
    MaxSockets = 3
    MaxDeaths = 2
INVARIANTS TypeOK AcknowledgedTracksWork EveryAckHasASocket LoadBounded ReadyWhenActive
PROPERTIES AcceptsAgain SocketsTaken
CHECK_DEADLOCK FALSE
