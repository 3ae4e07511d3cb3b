CONSTANTS
    u1 = u1
    g1 = g1
    g2 = g2
    Users <- MCUsers
    Groups <- MCGroups
    Grants <- MCGrants
    MaxChanges = 3

SPECIFICATION FairSpec

INVARIANTS
    NeverWritesUngranted
    ModeTells

PROPERTY FollowsDirectory
