SPECIFICATION Spec
CONSTANTS
    Users <- MCUsers
    Homes <- MCHomes
    Children <- MCChildren
    OwnerHome <- MCOwnerHome
    BoundIn <- MCBoundIn
    Requests <- MCRequests
    Readers = {r1}
    Timeout = 2
    MaxChanges = 2
INVARIANTS TypeOK StaleOnlyByOverlap
PROPERTY Settles
