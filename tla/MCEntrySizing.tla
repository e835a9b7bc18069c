--------------------------- MODULE MCEntrySizing ---------------------------
(***************************************************************************)
(* A dense and a hybrid model, repositories of every kind that add-model   *)
(* tells apart, and the edits that come out differently in validation or   *)
(* in the sizing.  Amounts are hundredths of a GiB: a 128 GiB node with    *)
(* the default ceiling, overhead and buffer, and one just below the        *)
(* ceiling.  Shares are thousandths: rounding to hundredths widens one     *)
(* range at both ends and narrows another.                                 *)
(***************************************************************************)
EXTENDS EntrySizing

Dense  == [stack |-> [i \in 1..8 |-> TRUE], heads |-> 8, kvHeads |-> 8, headDim |-> 128]
Hybrid == [stack |-> [i \in 1..12 |-> i % 4 = 0], heads |-> 24, kvHeads |-> 4, headDim |-> 256]
MCShapes == {Dense, Hybrid}

Repo(path, quants, config, length, mxfp4, weights) ==
    [path |-> path, quants |-> quants, config |-> config, length |-> length,
     mxfp4 |-> mxfp4, weights |-> weights]

MCRepos ==
    { Repo(<<"org", "qwen">>, 0, TRUE, 0, FALSE, w) : w \in {2183, 11007} }
      \cup { Repo(<<"org", "qwen">>, 0, TRUE, 256, TRUE, w) : w \in {2183, 11007} }
      \cup { Repo(path, 0, TRUE, 256, FALSE, 2183) :
                path \in {<<"org", "1.5">>, <<"org", "llama">>, <<"qwen">>} }
      \cup { Repo(<<"org", "qwen">>, q, config, 0, FALSE, 2183) :
                q \in 0..1, config \in BOOLEAN }

MCTaken == {"llama"}

ExampleDefaults ==  \* models.example.yaml
    [image |-> "default", gmem_min |-> 120, gmem_max |-> 850, safety_gib |-> 600]
MCDefaults == {<<>>, ExampleDefaults}

MCEdits ==
    { [gmem |-> [min |-> 304, max |-> 706]],
      [gmem |-> [min |-> 900]],
      [gmem |-> [min |-> 557, max |-> 914], nodes |-> 2],
      [gmem |-> <<>>, kv_dtype_bytes |-> 2,
       vllm_flags |-> {"--kv-cache-dtype_auto", "--quantization_mxfp4"}],
      [nodes |-> 2, vllm_flags |-> {"--headless"}],
      [gmem |-> [min |-> 700, max |-> 300]],
      [gmem |-> [min |-> 0, max |-> 700], nodes |-> 2],
      [gmem |-> [override |-> 500], nodes |-> 2] }
=============================================================================
