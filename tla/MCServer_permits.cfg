\* Four clients, two permits, a backlog of two; every transport, with the last
\* ports of the range, of which the first is like any other, and port 0.
CONSTANTS
    Clients = {c1, c2, c3, c4}
    Nobody = Nobody
    MaxClients = 2
    Backlog = 2
    Ports = {0, 65533, 65534, 65535}
    MaxPort = 65535
    Ephemeral = {40001}
    NoPort = NoPort
SPECIFICATION FairServerSpec
INVARIANTS ServerTypeOK PermitsConserved FirstComeFirstServed AnnouncedPorts NoHalfServer
PROPERTIES EventuallyServed
