SPECIFICATION Spec
CONSTANTS
    m1 = m1
    m2 = m2
    m3 = m3
    m4 = m4
    m5 = m5
    NoClient = NoClient
    Clients = {m1, m2, m3, m4, m5}
    MaxTries = 2
    MaxWakes = 2
INVARIANT OffMeansOffline
