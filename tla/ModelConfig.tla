---------------------------- MODULE ModelConfig ----------------------------
(***************************************************************************)
(* What launch.py reads out of a model's config.json to size its KV cache. *)
(* A configuration has two parts, each a function from keys to numbers or  *)
(* sequences: `text`, the text_config block of a multimodal model (empty   *)
(* if there is none), and `top`, the entries outside it.  A string of      *)
(* layer letters is a sequence of them.                                    *)
(***************************************************************************)
EXTENDS Integers, Sequences, FiniteSetsExt

\* slip: the entries outside text_config, which may be the vision tower's, win
LookupTopFirst(cfg, key, none) ==
    IF key \in DOMAIN cfg.top THEN cfg.top[key]
    ELSE IF key \in DOMAIN cfg.text THEN cfg.text[key] ELSE none

Lookup(cfg, key, none) ==
    IF key \in DOMAIN cfg.text THEN cfg.text[key]
    ELSE IF key \in DOMAIN cfg.top THEN cfg.top[key] ELSE none

Extract(cfg, key)    == Lookup(cfg, key, 0)
ExtractRaw(cfg, key) == Lookup(cfg, key, <<>>)

Count(layers, kind) == Cardinality({i \in DOMAIN layers : layers[i] = kind})

(* The layers with a KV cache by each of the ways to write a hybrid stack  *)
(* down, in the order they are looked at; 0 where it says nothing.         *)
Spelled(cfg, layers) ==
    LET interval == Extract(cfg, "full_attention_interval")
    IN  << Count(ExtractRaw(cfg, "layer_types"), "full_attention"),
           IF interval > 1 THEN layers \div interval ELSE 0,
           Count(ExtractRaw(cfg, "hybrid_override_pattern"), "*"),
           Count(ExtractRaw(cfg, "layers_block_type"), "attention") >>

AttentionLayers(cfg, layers) ==
    LET spelled == Spelled(cfg, layers)
        said    == {i \in 1..4 : spelled[i] > 0}
    IN  IF said = {} THEN layers ELSE spelled[Min(said)]

NoFacts == [layers |-> 0, kvHeads |-> 0, headDim |-> 0, kvLayers |-> 0]

(* parse_config; NoFacts where it is fatal.                                *)
ParseConfig(cfg) ==
    LET listed  == Extract(cfg, "num_hidden_layers")
        layers  == IF listed # 0 THEN listed
                   ELSE Len(ExtractRaw(cfg, "layers_block_type"))
        heads   == Extract(cfg, "num_attention_heads")
        kvs     == Extract(cfg, "num_key_value_heads")
        kvHeads == IF kvs # 0 THEN kvs ELSE heads
        dim     == Extract(cfg, "head_dim")
        headDim == IF dim # 0 \/ heads = 0 THEN dim
                   ELSE Extract(cfg, "hidden_size") \div heads
    IN  IF 0 \in {layers, kvHeads, headDim} THEN NoFacts
        ELSE [layers |-> layers, kvHeads |-> kvHeads, headDim |-> headDim,
              kvLayers |-> AttentionLayers(cfg, layers)]

(* The KV cache of one sequence in MiB: keys and values of every token of  *)
(* a context of 1024 * ctx tokens.                                         *)
KvCache(facts, ctx, bytes) ==
    (2 * facts.kvLayers * facts.kvHeads * facts.headDim * ctx * bytes) \div 1024
=============================================================================
