---------------------------- MODULE MCModelFiles ----------------------------
(***************************************************************************)
(* An instance of ModelFiles: a family of two shards, and a two-node model *)
(* whose second revision has its weights in a file of another name.        *)
(***************************************************************************)
EXTENDS ModelFiles, TLC

TwoShards == {"shard1", "shard2"}
Sizes     == ("shard1" :> 1) @@ ("shard2" :> 2)
Resharded == (0 :> {"shard1"}) @@ (1 :> {"shard2"})
=============================================================================
