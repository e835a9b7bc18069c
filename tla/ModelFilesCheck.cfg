SPECIFICATION Spec
CONSTANTS
    Gguf = {"gguf"}
    Tp = {"tp"}
    Nobody = "nobody"
    Shards <- TwoShards
    SizeOf <- Sizes
    MaxRev = 1
    ShardsOf <- Resharded
    MaxImage = 1
INVARIANT CheckFollowsSync
CHECK_DEADLOCK FALSE
