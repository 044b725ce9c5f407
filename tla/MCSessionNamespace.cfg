CONSTANTS
    m1 = m1
    m2 = m2
    m3 = m3
    c1 = c1
    c2 = c2
    NoPid = NoPid
    Managers <- MCManagers
    Clients <- MCClients
    Pids <- MCPids
SYMMETRY MCSymmetry
SPECIFICATION Spec
INVARIANTS
    MakeNameRoundTrip
    CreateNeverCollides
PROPERTIES
    OpenJoinsLiveManager
