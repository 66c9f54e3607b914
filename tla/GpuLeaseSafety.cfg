SPECIFICATION Spec
CONSTANTS
    trainer = trainer
    encoder = encoder
    extract1 = extract1
    extract2 = extract2
    server1 = server1
    server2 = server2
    Request <- All
    Server = {server1, server2}
    Home <- TwoHomes
    Workload <- Kinds
    Profile <- Kinds
    Need <- One
    Peak <- OneGrows
    Capacity = 1
    Total = 3
    Reserve = 1
    MinBudget = 1
    KillOnClose = TRUE
    MaxFaults = 2
INVARIANTS
    TypeOK
    WorkIsLeased
PROPERTIES
    OnlyTheDeadAreReclaimed
    ImplementsDeviceLock
    GrantLeavesReserve
CHECK_DEADLOCK FALSE
