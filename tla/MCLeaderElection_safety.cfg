\* Two nodes, two calls at one and one at the other; each may be dropped.
\* A node whose election lost its call may stop, so deadlock is allowed.
CONSTANTS
    n1 = n1 n2 = n2 k1 = k1 k2 = k2 k3 = k3
    Nodes = {n1, n2}
    Calls = {k1, k2, k3}
    Home <- MCHome
    NoLeader = NoLeader
    Drops = TRUE
    MaxTerm = 2
SPECIFICATION FairSpec
INVARIANTS TypeOK ElectionOwned ClusterFollows
PROPERTIES LeadershipSpec ElectionEnds
CHECK_DEADLOCK FALSE
