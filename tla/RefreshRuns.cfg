SPECIFICATION Spec
CONSTANTS
    Attendees = {a1, a2, a3}
    Replies = {r1, r2}
    Runners = {j1, j2}
    WorkIds = {i1, i2, i3}
    Nobody = Nobody
    AttendeeRefreshBatch = 1
    MaxVersion = 2
    MaxFailures = 1
INVARIANTS NoLostRefresh PendingHasWork
PROPERTY RefreshArrives
CHECK_DEADLOCK FALSE
