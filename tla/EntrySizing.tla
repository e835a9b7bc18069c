----------------------------- MODULE EntrySizing -----------------------------
(***************************************************************************)
(* From a Hugging Face repository to a share of the memory: add-model      *)
(* proposes an entry, the operator edits it, validate accepts it, and the  *)
(* launcher sizes the model on readings that improve as memory comes back  *)
(* on either node; every plan on the way is looked at.                     *)
(***************************************************************************)
EXTENDS ModelEntry

CONSTANTS
    Shapes,       \* models: which layers have a KV cache, and their heads
    Repos,        \* repositories on Hugging Face
    Taken,        \* served names of the other entries of models.yaml
    Defaults,     \* what `defaults:` may say for the engine
    Edits,        \* what an operator may write over a proposal
    HeadTotals,   \* MemTotal of the head node
    WorkerTotals, \* MemTotal of the worker
    HeadStep, WorkerStep  \* bounds: memory that comes back at once

ASSUME EntryAssumption ==
    /\ \A m \in Shapes :
         /\ m.stack \in Seq(BOOLEAN) /\ \E i \in DOMAIN m.stack : m.stack[i]
         /\ {m.heads, m.kvHeads, m.headDim} \subseteq Nat \ {0}
    /\ \A r \in Repos :
         /\ r.path # <<>> /\ r.quants \in Nat
         /\ {r.length, r.weights} \subseteq Nat
    /\ \A f \in Defaults \cup Edits : FieldsTyped(f)
    /\ HeadTotals \cup WorkerTotals \cup {HeadStep, WorkerStep} \subseteq Nat

VARIABLES model,    \* the model, and how its config.json writes it down
          repo,     \* the repository it is in
          entry,    \* its entry in models.yaml, with the defaults
          edited,   \* whether the operator changed what add-model wrote
          params,   \* its parameters for the sizing, once it is launched
          headMem, workMem  \* what /proc/meminfo says on each node

entryVars == <<model, repo, entry, edited, params, headMem, workMem>>

-----------------------------------------------------------------------------
(* The ways to write a model's layers down.                                *)

\* the distances at which a layer has a KV cache, if they are regular
Intervals(m) ==
    {k \in 2..Len(m.stack) : \A i \in DOMAIN m.stack : m.stack[i] <=> i % k = 0}

Styles(m) ==
    {"types", "pattern", "blocks"}
      \cup (IF \A i \in DOMAIN m.stack : m.stack[i] THEN {"plain"} ELSE {})
      \cup (IF Intervals(m) # {} THEN {"interval"} ELSE {})

Models == UNION {[of : {m}, style : Styles(m), nested : BOOLEAN] : m \in Shapes}

KindOf(m, yes, no) == [i \in DOMAIN m.stack |-> IF m.stack[i] THEN yes ELSE no]

Spelling(m, style) ==
    CASE style = "plain"    -> [num_hidden_layers |-> Len(m.stack)]
      [] style = "types"    ->
           [num_hidden_layers |-> Len(m.stack),
            layer_types |-> KindOf(m, "full_attention", "linear_attention")]
      [] style = "interval" ->
           [num_hidden_layers |-> Len(m.stack),
            full_attention_interval |-> CHOOSE k \in Intervals(m) : TRUE]
      [] style = "pattern"  ->
           [num_hidden_layers |-> Len(m.stack),
            hybrid_override_pattern |-> KindOf(m, "*", "M")]
      [] style = "blocks"   -> [layers_block_type |-> KindOf(m, "attention", "mamba")]

\* the least that must be there: equal heads and the usual width are left out
Heads(m) ==
    IF m.heads = m.kvHeads
      THEN [num_attention_heads |-> m.heads, hidden_size |-> m.heads * m.headDim]
      ELSE [num_attention_heads |-> m.heads, num_key_value_heads |-> m.kvHeads,
            head_dim |-> m.headDim]

\* entries outside text_config that it has its own of
Vision == [num_attention_heads |-> 2, hidden_size |-> 64]

Config ==
    LET entries == Overlay(Heads(model.of), Spelling(model.of, model.style))
    IN  IF model.nested THEN [text |-> entries, top |-> Vision]
        ELSE [text |-> <<>>, top |-> entries]

-----------------------------------------------------------------------------
NoEntry == [raw |-> <<>>, defaults |-> <<>>]
NoParams == [tp |-> 0]

EntryInit ==
    /\ model \in Models /\ repo \in Repos
    /\ entry = NoEntry /\ edited = FALSE /\ params = NoParams
    /\ headMem \in [total : HeadTotals, avail : {0}]
    /\ workMem \in [total : WorkerTotals, avail : {0}]

AddModel ==
    /\ entry = NoEntry
    /\ \E raw \in Proposals(repo), defaults \in Defaults :
         entry' = [raw |-> raw, defaults |-> defaults]
    /\ UNCHANGED <<model, repo, edited, params, headMem, workMem>>

Edit ==
    /\ entry # NoEntry /\ ~edited /\ params = NoParams
    /\ \E edit \in Edits : entry' = [entry EXCEPT !.raw = Overlay(edit, @)]
    /\ edited' = TRUE
    /\ UNCHANGED <<model, repo, params, headMem, workMem>>

IsAccepted == Accepted(entry, Taken, TRUE)

Launch ==
    /\ entry # NoEntry /\ params = NoParams
    /\ IsAccepted /\ entry.raw["engine"] = "vllm" /\ ~Overridden(entry)
    /\ params' = LaunchParams(entry, ParseConfig(Config), repo.weights)
    /\ UNCHANGED <<model, repo, entry, edited, headMem, workMem>>

-----------------------------------------------------------------------------
(* Memory comes back on a node.                                            *)

Freed(mi, step) == [mi EXCEPT !.avail = MinOf(mi.total, @ + step)]

HeadFrees ==
    /\ params # NoParams /\ headMem.avail < headMem.total
    /\ headMem' = Freed(headMem, HeadStep)
    /\ UNCHANGED <<model, repo, entry, edited, params, workMem>>

WorkerFrees ==
    /\ params # NoParams /\ workMem.avail < workMem.total
    /\ workMem' = Freed(workMem, WorkerStep)
    /\ UNCHANGED <<model, repo, entry, edited, params, headMem>>

EntryNext == AddModel \/ Edit \/ Launch \/ HeadFrees \/ WorkerFrees

EntrySpec == EntryInit /\ [][EntryNext]_entryVars

-----------------------------------------------------------------------------
(* What the sizing may rely on, and what it promises.                      *)

Launched == params # NoParams
Readings == {headMem, workMem}

(* What add-model writes passes validation as it stands, whatever it found *)
(* in the repository, unless its name cannot be served or the engine has   *)
(* no image: proposals never need an edit (DeriveEntry, DeriveGgufEntry,   *)
(* Accepted).                                                              *)
NameIsUsable ==
    /\ Len(repo.path) = 2
    /\ RepoName(repo) \notin YamlSpecial \cup Taken

ProposalIsValid ==
    entry # NoEntry /\ ~edited /\ NameIsUsable /\ HasImage(entry) => IsAccepted

(* The KV cache is sized for the layers that have one and no others,       *)
(* whichever way the configuration writes the model down: counting all of  *)
(* them takes memory the node does not have, and none sizes it to nothing  *)
(* (ParseConfig).                                                          *)
ConfigIsUnderstood ==
    ParseConfig(Config) =
      [layers |-> Len(model.of.stack), kvHeads |-> model.of.kvHeads,
       headDim |-> model.of.headDim, kvLayers |-> Count(model.of.stack, TRUE)]

(* No accepted entry makes a plan whose share, with the CUDA overhead, on  *)
(* top of what is used already goes past the memory ceiling: neither what  *)
(* a node computes for itself nor the one share two nodes agree on, which  *)
(* has to suit both (Plan, ClusterPlan).  Only a share of nothing, which   *)
(* gmem.min: 0 allows, says nothing of what is used.                       *)
PlansUnderCeiling ==
    Launched => \A mi \in Readings :
      \A share \in {Plan(params, mi).gmem, ClusterPlan(params, headMem, workMem).gmem} :
        share > 0 => WithinCeiling(params, mi, share)

(* A plan's share keeps to the range of the model, however short or        *)
(* plentiful the memory is, but for what the last rounding does: an end of *)
(* the range with more than two decimals is missed by half a hundredth at  *)
(* most, any other by nothing.  The range is the accepted entry's over the *)
(* defaults of its engine; one whose ends are crossed between the two,     *)
(* which validation does not see, binds nothing.                           *)
SharesInRange ==
    Launched /\ GmemMin(entry) <= GmemMax(entry) =>
      \A mi \in Readings :
        LET sized == Plan(params, mi)
        IN  sized.mode # "ERR" =>
              sized.gmem \in RoundDiv(GmemMin(entry), Parts)..RoundDiv(GmemMax(entry), Parts)

(* Memory coming back on either node never takes a plan away or shrinks    *)
(* its share: the launcher may size on its best reading.                   *)
FreeingNeverHurts ==
    [][Launched => \A pair \in {<<headMem, headMem'>>, <<workMem, workMem'>>} :
          LET before == Plan(params, pair[1])
              after  == Plan(params, pair[2])
          IN  before.mode # "ERR" => after.mode # "ERR" /\ before.gmem <= after.gmem]_entryVars
=============================================================================
