SPECIFICATION Spec
CONSTANTS
    Gguf = {"gguf"}
    Tp = {"tp"}
    Nobody = "nobody"
    Shards <- TwoShards
    SizeOf <- Sizes
    MaxRev = 1
    ShardsOf <- Resharded
    MaxImage = 1
INVARIANTS
    TypeOK
    SyncedMatchesHead
    VouchedIsComplete
CHECK_DEADLOCK FALSE
