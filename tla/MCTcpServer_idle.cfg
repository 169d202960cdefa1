\* Clients that connect and stay.
CONSTANTS
    Clients = {c1, c2, c3, c4}
    Nobody = Nobody
    MaxClients = 2
    Backlog = 2
SPECIFICATION IdleSpec
PROPERTIES IdleClientDropped
