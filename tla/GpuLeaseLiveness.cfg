SPECIFICATION FairSpec
CONSTANTS
    trainer = trainer
    encoder = encoder
    extract1 = extract1
    extract2 = extract2
    server1 = server1
    server2 = server2
    Request <- All
    Server = {server1}
    Home <- OneHome
    Workload <- Kinds
    Profile <- Kinds
    Need <- One
    Peak <- Zero
    Capacity = 2
    Total = 3
    Reserve = 1
    MinBudget = 1
    KillOnClose = TRUE
    MaxFaults = 1
PROPERTIES
    RequestsAreServed
CHECK_DEADLOCK FALSE
