SPECIFICATION Spec
CONSTANTS
    Client = {c1, c2, c3}
    MaxOpens = 2
SYMMETRY Clients
INVARIANTS
    HeldNotEvicted
    OneOpen
    DiskIsAsTheRouterHasIt
