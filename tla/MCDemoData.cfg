CONSTANTS
    p1 = p1  p2 = p2  p3 = p3  p4 = p4
    u1 = u1  u2 = u2  u3 = u3  u4 = u4
    h1 = h1  h2 = h2  h3 = h3  h4 = h4
    Count = 4
    InstanceTypes <- MCInstanceTypes
    NodeIds <- MCNodeIds
    ImageIds <- MCImageIds
    PrivPool <- MCPrivPool
    PubPool <- MCPubPool
    HostPool <- MCHostPool
SPECIFICATION Spec
INVARIANT UniqueAddresses
INVARIANT NoCrash
INVARIANT ObjectIdsValid
