----------------------------- MODULE ModelEntry -----------------------------
(***************************************************************************)
(* An entry of models.yaml: how add-model proposes it from a Hugging Face  *)
(* repository, what validate() asks of it, and what the rendered `cmd`     *)
(* tells the launcher.  Entries, and the `defaults:` of an engine, are     *)
(* functions from keys to values of the right type; memory is in           *)
(* hundredths, shares are in parts of a hundredth (nothing rounds them on  *)
(* their way to the launcher), context lengths in 1024 tokens, and a flag  *)
(* with its value is one name.                                             *)
(***************************************************************************)
EXTENDS ModelConfig, GmemSizing

-----------------------------------------------------------------------------
(* introspect.py and addmodel.py.  A repository is known by its path, the  *)
(* number of quants it has (families of .gguf files), whether it has a     *)
(* config.json, the context length found there (0 if none) and whether it  *)
(* looks like an mxfp4 model.                                              *)

RepoName(repo) == repo.path[Len(repo.path)]

InferCtxSize(repo) == IF repo.config /\ repo.length # 0 THEN repo.length ELSE 8

DeriveGgufEntry(repo) ==
    [name |-> RepoName(repo), engine |-> "llamacpp", container |-> RepoName(repo),
     hf_repo |-> repo.path, mount |-> "gguf", gguf |-> repo.path,
     ctx_size |-> InferCtxSize(repo)]

\* slip: the range is left to the defaults
NoProposedGmem == <<>>

ProposedGmem == [min |-> 40 * Parts, max |-> 85 * Parts]

DeriveEntry(repo) ==
    [name |-> RepoName(repo), engine |-> "vllm", container |-> RepoName(repo),
     path |-> repo.path, hf_repo |-> repo.path,
     image |-> IF repo.mxfp4 THEN "vllm-node-mxfp4" ELSE "vllm-node",
     max_model_len |-> IF repo.length # 0 THEN repo.length ELSE 128,
     max_num_seqs |-> 10, kv_dtype_bytes |-> 1,
     gmem |-> ProposedGmem, safety_gib |-> 600,
     vllm_flags |-> {"--kv-cache-dtype_fp8", "--load-format_fastsafetensors"}]

(* run: nothing comes of a repository with neither weights nor a           *)
(* configuration; that no quant is picked is left out.                     *)
Proposals(repo) ==
    IF repo.quants > 0 THEN {DeriveGgufEntry(repo)}
    ELSE IF repo.config THEN {DeriveEntry(repo)} ELSE {}

-----------------------------------------------------------------------------
(* model.py: a model is its entry, `raw`, and the defaults of its engine.  *)

\* what f says, and what g says where f says nothing
Overlay(f, g) ==
    [k \in DOMAIN f \cup DOMAIN g |-> IF k \in DOMAIN f THEN f[k] ELSE g[k]]

Unset == -1  \* where the code has None for a number

Has(m, key) == key \in DOMAIN m.raw
Raw(m, key, fallback) == IF Has(m, key) THEN m.raw[key] ELSE fallback
Get(m, key, fallback) ==
    IF Has(m, key) THEN m.raw[key]
    ELSE IF key \in DOMAIN m.defaults THEN m.defaults[key] ELSE fallback

Block(m) == Raw(m, "gmem", <<>>)

GmemMin(m) ==
    IF "min" \in DOMAIN Block(m) THEN Block(m)["min"]
    ELSE IF "gmem_min" \in DOMAIN m.defaults THEN m.defaults["gmem_min"] ELSE Unset
GmemMax(m) ==
    IF "max" \in DOMAIN Block(m) THEN Block(m)["max"]
    ELSE IF "gmem_max" \in DOMAIN m.defaults THEN m.defaults["gmem_max"] ELSE Unset

Overridden(m) == "override" \in DOMAIN Block(m)

(* The types of what the sizing reads, in an entry or in the defaults of   *)
(* an engine: only `nodes` is checked, the others are taken for granted.   *)
(* An end of the range may have any number of decimals, see Parts.         *)
FieldsTyped(f) ==
    /\ "gmem" \in DOMAIN f =>
         \A key \in {"min", "max"} \cap DOMAIN f["gmem"] : f["gmem"][key] \in Nat
    /\ \A key \in {"gmem_min", "gmem_max", "max_model_len", "max_num_seqs", "safety_gib"}
                   \cap DOMAIN f : f[key] \in Nat
    /\ "nodes" \in DOMAIN f => f["nodes"] \in 1..2

Nodes(m) == Raw(m, "nodes", 1)
Flags(m) == Raw(m, "vllm_flags", {})
HasImage(m) == Has(m, "image") \/ "image" \in DOMAIN m.defaults
ServedNames(m) == {m.raw["name"]} \cup Raw(m, "aliases", {})

-----------------------------------------------------------------------------
(* validate.py, for one model; `taken` are the served names of the others. *)

Required(engine) ==
    IF engine = "vllm"
      THEN {"path", "container", "max_model_len", "max_num_seqs", "kv_dtype_bytes"}
      ELSE {"gguf", "mount", "container", "ctx_size"}

\* _is_yaml_special: what a YAML parser takes for something else than a string
YamlSpecial == {"1.5", "true"}

NamesAccepted(m, taken) == ServedNames(m) \cap (taken \cup YamlSpecial) = {}

\* the order of the bounds is looked at only when the entry has both
GmemAccepted(m) ==
    /\ {"min", "max"} \subseteq DOMAIN Block(m) => Block(m)["min"] <= Block(m)["max"]
    /\ Overridden(m) => Block(m)["override"] \in 1..(Whole - 1)

RepoAccepted(m) == Has(m, "hf_repo") => Len(m.raw["hf_repo"]) = 2

ClusterFlags == {"--tensor-parallel-size_2", "--headless"}  \* some of the reserved ones

NodesAccepted(m, cluster) ==
    Nodes(m) = 2 => /\ m.raw["engine"] = "vllm" /\ cluster
                    /\ Flags(m) \cap ClusterFlags = {}
                    /\ ~Overridden(m)

VllmAccepted(m) ==
    /\ Unset \notin {GmemMin(m), GmemMax(m)}
    /\ m.raw["kv_dtype_bytes"] \in {1, 2}
    /\ "--quantization_mxfp4" \in Flags(m) => Get(m, "image", "none") = "vllm-node-mxfp4"
    /\ "--kv-cache-dtype_fp8" \in Flags(m) => m.raw["kv_dtype_bytes"] = 1
    /\ "--kv-cache-dtype_auto" \in Flags(m) => m.raw["kv_dtype_bytes"] = 2

Accepted(m, taken, cluster) ==
    /\ Required(m.raw["engine"]) \subseteq DOMAIN m.raw
    /\ NamesAccepted(m, taken) /\ GmemAccepted(m) /\ RepoAccepted(m)
    /\ NodesAccepted(m, cluster)
    /\ m.raw["engine"] = "vllm" => VllmAccepted(m)
    /\ HasImage(m)

-----------------------------------------------------------------------------
(* The environment in the rendered `cmd`, as the launcher's _params and    *)
(* _launch_env read it; what the template does not write has the           *)
(* launcher's own default.                                                 *)

LaunchParams(m, facts, weights) ==
    [weights |-> weights,
     kv |-> KvCache(facts, m.raw["max_model_len"], m.raw["kv_dtype_bytes"]),
     seqs |-> m.raw["max_num_seqs"], batch |-> 4,
     safety |-> Get(m, "safety_gib", 600), overhead |-> 630, ceiling |-> 11781,
     gmin |-> GmemMin(m), gmax |-> GmemMax(m), buffer |-> 500, tp |-> Nodes(m)]
=============================================================================
