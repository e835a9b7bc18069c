# Formal model of sparkyard

sparkyard turns `models.yaml` and `settings.local.yaml` into the configuration of
an LLM stack on one or two DGX Sparks: llama-swap loads and unloads models on
demand, `launch.py` sizes a model against the node's unified memory and starts
its container (two of them for a `nodes: 2` model), LiteLLM routes to it, and a
set of `sparkyard` commands renders, restarts, downloads, syncs and updates.

This directory holds TLA+ modules of that system, the TLC configurations that
check them on small instances, and proofs for TLAPS. Paths below are relative to
`src/`; `T` stands for `tools/sparkyard`. `PROJECT.json` maps every definition to
the lines it models and lists runs, mutants, hazards, findings and theorems.

Run `tlc -workers 2 -config X.cfg M` for a configuration, `tlapm M.tla` for a
module whose name ends in `Proofs`.

## The system

| Part | State | Operations | Interacts with |
|---|---|---|---|
| Two-node launch, `llama-swap/scripts/launch.py` `main_cluster`, `run_cluster`, `stop_cluster` | the launcher's recorded signal and head process, the two containers, the miss counter | preflight, removal of stale containers, sizing, start of worker and head, worker polling, clean-up; cmdStop | llama-swap (starts it, runs cmdStop, may SIGKILL it), the worker's docker over ssh |
| Sizing, `launch.py` `compute_gmem`, `size_cluster`, `_size_local`, `reclaim_and_recompute` | readings of `/proc/meminfo`, the plan, co-tenant containers | size, reclaim by restart, size again, fail or start | docker (`inspect`, `stats`, `restart`), other launches through the shared memory |
| Launch arguments, `launch.py` `_launch_env`, `_params`, `build_argv` | none | read the environment, build a command line | sizing takes its parameters from them |
| Groups validation, `T/validate.py` | none; constrains llama-swap's groups | accept or refuse a `groups` block | llama-swap's group router |
| Rendering, `T/render.py`, `T/model.py`, `T/settings.py` | three generated files | load, validate, write one by one | the containers that bind-mount the files, compose through `.env` |
| Stack operations, `T/ops.py` | containers, images | `build`, `start`, `reload`, `stop`, `init`, `secrets`, `bench` | docker and docker compose |
| Adding a model, `T/addmodel.py`, `T/introspect.py` | `models.yaml` | propose an entry, append it, render, perhaps download | Hugging Face, rendering, downloads |
| Downloads, `T/download.py` | model directories on the head | skip or fetch each selected model | Hugging Face |
| Cluster, `T/cluster.py` | images and model directories on the worker | `setup-key`, `suggest`, `sync`, `check` | rsync, `docker save`/`load` over ssh; the launch's preflight reads the result |
| Updates, `T/update.py`, `T/vllm_pin.py` | pins in compose file, Dockerfile, settings, provenance | plan, build, write pins, pull, report | registries, GitHub, docker, `T/vllm_node.py` |
| vLLM build, `T/vllm_node.py` | the local image, artifacts in a clone | clone, check out, build | git, docker |
| Secrets, `scripts/gen-secrets.sh` | `secrets.env` and three derived files | reconcile, generate, derive | compose env files, the database volume |
| Diagnosis and listings: `T/doctor.py`, `T/cli.py`, `T/models_cmd.py`, `T/explain.py`, `T/notes.py` | none | print | read the above |
| Benchmarks and install scripts, `scripts/` | result files, a symlink | measure, compare, link | the served models |

What is hard in this code is seldom inside one function. A signal arrives between
two lines of the launcher, an ssh fails after the remote side acted, a process is
killed before its `finally`. Memory is read, acted upon, and read again while
others use it. An update writes four records of one fact and can stop between any
two. A restart makes a container read its files again but not its image or its
mounts. `PROJECT.json` lists these places as hazards, each with the property that
would notice, or a note why none does.

## Modules

| Module | Models | Builds on |
|---|---|---|
| `ClusterSession` | what a two-node session promises: stages, no commitment after a stop | |
| `ClusterLaunch` | the launcher, cmdStop, ssh, crashes, SIGKILL | implements `ClusterSession` |
| `GmemSizing` | `compute_gmem`, `size_cluster`, `short_of_memory` as operators | |
| `ModelConfig` | what `launch.py` reads out of a model's `config.json` | |
| `ModelEntry` | an entry of `models.yaml`: proposed, merged with defaults, validated, turned into parameters | `ModelConfig`, `GmemSizing` |
| `EntrySizing` | from a repository through `add-model`, an edit and validation to every plan of the launch | `ModelEntry` |
| `LaunchSizing` | launches and co-tenants sharing one node's memory, unloads | `GmemSizing` |
| `ResidentGroups` | every `groups` block, what `validate` accepts, what the router then does | |
| `UpdatePins` | one `sparkyard update` at a time beside upstream and the operator | |
| `ModelFiles` | `download`, `cluster sync`, `cluster check`, the preflight's view | |
| `StackConfig` | `render`, `reload`, `add-model`, `start`, `stop` by several operators | |
| `StackEnv` | `init` and `secrets`, `.env`, what `start` creates the containers with | |
| `MCEntrySizing`, `MCLaunchSizing`, `MCUpdatePins`, `MCModelFiles`, `MCStackConfig` | constants of the instances | |
| `*Proofs` | theorems, one module per component | the component, TLAPS |

In the modules some operators are marked `slip`. They are the code with a
plausible mistake in it, stand directly before the definition they vary, and are
used by no specification; `PROJECT.json` pairs each with a property that fails
when it takes the definition's place.

### ClusterLaunch

`pc` is the line the launcher is about to run, from "boot" (before
`install_abort`) to the `finally` of `run_cluster`. `sig` and `proc` are the two
entries of its `state` dictionary, which the signal handler reads. Every look at
`state["sig"]`, the `popen`, the assignment of its result and the look after it
are separate actions, so `SignalLauncher` falls between any two of them. `worker`
and `head` are containers by model, since container names are. A head that was
signalled ("term") ends or does not: it runs without `--init`, and until a
process that handles SIGTERM is the container's first one (bash before it
`exec`s, Python before it has imported) the signal does nothing there. Only
cmdStop's `docker stop` makes sure of it. ssh calls succeed or fail, and a failing
`docker run -d` may have started the container. `KillLauncher` skips the
`finally`, and a request already handed to the worker's docker is carried out
later (`OrphanRunCompletes`). `orphanReq` is that request; `lostWorker`,
`lostHead` and `streak` are history for the properties.

The preflight's tests are one step that passes or is fatal; its removals of stale
containers are steps of their own. The poll is split into the call and the
judgement of its answer. Lost answers count as misses; the one that makes it
`PollMisses`, which the code counts before it acts, is not counted. The log
stream of the worker is left out: nothing reads it.

### GmemSizing and LaunchSizing

Amounts are hundredths of a GiB and a plan's share is in hundredths of the total,
both integers; `RoundDiv` is `g2`'s rounding to two places. `gmem.min` and
`gmem.max` are not rounded on their way from `models.yaml` to `compute_gmem`,
which rounds only what it has held to them. They are therefore in `Parts` of a
hundredth, a constant: with 10 they are thousandths, and the proofs, which hold
for every `Parts`, cover every float. Of the tunables the safety margin, the
CUDA overhead and the ceiling enter sums that `g2` rounds; the free buffer, which
it does not, is taken in hundredths too. An exact tie rounds up here and to even
or wherever the float falls in Python, and the bounds the proofs use hold for
either. `Plan` returns the mode ("sized", "fallback" or an error) and the
share. The advisory floor warning, the message of a failure, reading a model's
weights from disk and `gmem.override`, which skips the sizing, are left out.

In `LaunchSizing` a launch runs `_size_local`: a sizing, a reclaim of the listed
co-tenants if memory is short, a second sizing that is repeated while it fails
and something was restarted, then the container. A two-node launch first reads
the worker, once, and gives up if that is short; after `_size_local` it reads the
head again and takes the smaller of both nodes' shares (`SizePair`). Co-tenants
start jobs that are light or heavy on CPU, stop, and give their memory back some
time after a restart. llama-swap unloads a model whenever it likes and kills what
its cmdStop did not end: `docker stop` of a single-node model finds nothing
before the container is there, while `launch.py --stop` leaves a signal that
`run_cluster` looks at (`stopped`, `Abort`). `overtaken` is history: launches
that settled on a share before somebody else took memory. What the launch
guarantees is stated for the others. `StepsLeft` counts what a launch may still
do: `StepsAreCounted` says that every step uses some of it up, so that the waits
for busy containers and for memory never start over.

### ModelConfig, ModelEntry and EntrySizing

A `config.json` is two functions from keys to values, `text_config` and what is
outside it. `ParseConfig` follows `parse_config`, with the five ways a hybrid
model's attention layers are written down. The KV cache of a sequence is in whole
MiB, so the conversion from bytes loses less than one.

An entry, and the `defaults` of an engine, are functions from keys to values.
`Proposals` is what `add-model` would append for a repository, given its files
and configuration; the choice among quants and the prompts are left out.
A range is kept as it is written, in parts of a hundredth. `Accepted` is
`validate` for one entry beside the others' names. The types of
single fields, the character set of names, quotes in shell fragments, extra
paths and the addresses of the `cluster` block are not in it. `LaunchParams` is
the environment of the rendered `cmd` as `_params` reads it.

`EntrySizing` strings these together: `AddModel`, `Edit`, `Launch`, then memory
coming back on either node step by step. So the sizing is looked at on parameters
that pass validation, with defaults or without, and on models whose layers are
known, against which `ConfigIsUnderstood` compares what was parsed. Models,
repositories, defaults, edits and the nodes' memory are constants;
`EntryAssumption` asks of them what the code takes for granted: a model has a
layer with a KV cache, and the numbers the sizing reads are not negative
(`FieldsTyped`; of these `validate` looks at `nodes` only). Entries are records,
and an edit is laid over one with `Overlay`, which is `@@` written out: the proof
system has no definition of the `TLC` module's.

### ResidentGroups

The initial states are all `groups` blocks over three models, two groups and a
name that is no model, with every combination of `swap`, `exclusive` and
`persistent` and of models with one or two nodes. `Accepted` is the part of
`validate` that deals with them. The router (`Evicts`, `Request`, `Expire`) is
llama-swap's and external: it is modelled from how the template and the
validator's comments use it.

### UpdatePins

A version stands for a digest, a release or a commit. `pc` walks through `run`:
resolve, the llama.cpp and vLLM handlers that build and then record, the decision
what is newer, the writes of compose file and Dockerfile, the llama-swap build,
the pull, the report. Lookups, builds, pulls and writes fail; a failing lookup is
a component left out, as in the code. Between any two steps upstream moves, a
release is withdrawn, the update is killed, or the operator runs `start`,
`reload` or `stop`. `build` runs only while no update does: the two build the
same tags. Two updates at once and edits to tracked files during one are not
modelled. `Artifacts` says what a vLLM build leaves behind: whether
`.vllm-commit` can be read and whether the wheel's name has a date.

### ModelFiles

A file is the revision it came from; a `nodes: 2` model is a directory with
`config.json` and shards, a GGUF model is a family of shards. A snapshot fetches
its files in any order and may break off after any of them or before the first.
`sync` compares images by their layers, streams one if needed, and rsyncs each
model file by file from a list made at its start. `check` and the preflight are
state predicates, `CheckPasses` and `PreflightPasses`: `check` adds up the bytes
of the weights on each side. Extra paths of a model are handled as the weights
are. `vouched`, `broken`, `steady` and `synced` are history.

### StackConfig

Each operator's command has its own `pc`. Rendering loads and validates
`models.yaml`, then replaces the generated files one at a time; `.env` is a step
without content here. A container has the configuration its process read when it
last started. `docker compose up -d` may or may not make it anew. Commands can be
killed before any step, services crash and are restarted by Docker, and the models
are edited at any time. `add-model` appends whatever the other entries are, so the
file can become invalid; its reading of the file and the append are one step, and
no property depends on that. `clean` and `settled` are history: whether a reload
was left alone by other commands, and what the last such reload made live.

### StackEnv

`secrets.env` is a value, a blank or nothing for each key. `gen-secrets.sh` is
modelled write by write: the appends of missing keys, then for each blank key in
its order a copy, the truncation and the rewriting in place, then the projections,
each opened and filled line by line. It can be killed before any of these. The
operator edits or blanks keys and changes `llm_root`; `render` replaces `.env`;
`start` reads the files at once and creates the containers in the order of
`depends_on`, any of them anew whose settings changed; the database volume keeps
the first password it was given. `LITELLM_UI_PASSWORD` and `WEBUI_SECRET_KEY`,
which nothing is derived from, are left out, and so are two runs of the script at
a time, an edit saved while the file is empty or between a copy's reading of its
source and of the file (`gen-secrets.sh:57` and `:37`, one step here), and a
`secrets.env` without a final newline. `kept`, `loose`, `torn`, `complete` and
`applied` are history; they name what the code does not promise: a key changed by
hand without its derived key, and what was in the file when a run was killed
between truncation and rewriting.

## Runs

| Run | Shows | States |
|---|---|---|
| `ClusterLaunch` | safety, liveness and the refinement of `ClusterSession` | 119,780 |
| `EntrySizing` | proposals validate; configurations are understood; plans of accepted entries: ceiling on one node and on two, range after the rounding, monotonicity | 772,192 |
| `LaunchSizing` | the plan fits its readings on both nodes; the node stays under the ceiling for a launch nobody overtook; restarts only for a shortage; nothing is held once it is over; launches end, in a counted number of steps | 242,317 |
| `ResidentGroups` | accepted groups never hold two `nodes: 2` models, and what is refused could | 26,484 |
| `UpdatePins` | refs recorded were built; a success goes live with `up -d`; records agree after it; no downgrade | 1.6 million |
| `ModelFiles` | a completed sync is faithful; a download vouches for complete models only | 939,884 |
| `StackConfig` | two operators: an undisturbed reload is live and ready; an invalid file goes nowhere; commands end | 251,964 |
| `StackEnv` | set values survive; LiteLLM opens its database; a `start` applies what the files say, with keys that agree | 6.4 million |
| `ClusterLaunchUnload`, `UpdatePinsReload`, `UpdatePinsRetry`, `ModelFilesCheck` | findings, below | |

Bounds, and why they suffice for what is asked:

- `ClusterLaunch`: three launches of two models. Two of one model are needed for a
  launch that meets what an earlier one left, the third and the other model for
  leftovers that are not its own. `PollMisses` is the code's 3.
- `EntrySizing`: memory returns in steps of 2.51 GiB on the head and 11.31 GiB on
  the worker, so that readings fall on no round figure. Ranges are in
  thousandths, and rounding widens one of them at both ends and narrows another.
  A dense and a hybrid
  model in every spelling, a small and a large one, on nodes above and below the
  ceiling; the proposal as it is and six edits that pass validation under some
  defaults (a lower range, a floor above the default maximum, a floor of nothing,
  two nodes, another cache type), and others that do not. Names that are taken,
  retyped by YAML or without an organisation occur.
- `LaunchSizing`: a two-node and a single-node launch, two co-tenants, one busy
  poll and one wait. The code's longer waits repeat the same step. Memory is such
  that the larger model does not fit before a reclaim, and of the worker's two
  readings one is too short. One co-tenant takes on jobs during the launches; the
  other has any state at the start.
- `UpdatePins`: two versions of every component, calls that name nothing,
  everything, one source-built component, or llama.cpp with llama-swap. Two
  versions tell old from new and let a withdrawn release reappear. The properties
  compare one pin with another record of it, and versions of different
  components never meet.
- `ModelFiles`: one model of each kind, two revisions that have their weights in
  shards of different names, two image versions. A partly fetched family, a
  leftover of an earlier revision and a stale image all occur.
- `StackConfig`: one model name and at most two entries of it (the second makes
  the file invalid), two operators with three commands each. Models are only
  compared, so one name shows every mix of files.
- `StackEnv`: two troubles in all, of edits, kills, failed starts and stops.
  Every exception the properties make takes one of them, and what follows one is
  crossed with another.

Fairness. In `ClusterLaunch` the launcher and cmdStop are processes that keep
running. cmdStop's `docker stop` of the head returns once the head is gone, since
docker kills it after a grace time. Of a head that has only been signalled, by
the poller or by the launcher's handler, nothing is assumed: the launcher waits
for it with no limit and no second signal (`launch.py:730`). What is checked of a
dead worker is therefore that its head is told to end, and that the launch is
over only under the hypothesis that heads heed SIGTERM (`HeadsHeed`). The
liveness part of `SessionContract` has the same hypothesis. `StopEndsSession`
needs none, but leaves out, by name, a head that starts after cmdStop has looked
for it. Fairness of the launcher includes that an ssh call returns, with an
answer or a failure: for a connection that is not made `ConnectTimeout` and for
the poll `_run_poll` see to it, but a peer that falls silent in the middle of
another call would be waited for without end, which the model leaves out. Nothing
is assumed of the answers, the containers, kills or llama-swap's requests. In
`LaunchSizing` a launch is one process whose waits have limits; co-tenants owe
nothing, so `LaunchEnds` does not rest on a job ending or memory coming back. In
`StackConfig` a command runs on (its docker calls return); a service that is not
healthy need never become so, and the last of reload's attempts is what ends the
wait. `UpdatePins`, `ModelFiles` and `StackEnv` state no liveness.

Deadlock is not checked where the system stops by design: launches are bounded,
readings have been freed to the end, upstream has come to its last version.
`StackConfig` and `StackEnv` check it.

## Proofs

TLAPS checks the following for every value of the constants, from the named
assumptions on them.

- `ClusterLaunchProofs`: `TypeCorrect`, `SignalSafe`, `LeftoverSafe`,
  `HeadLeftoverSafe`, `VerdictSafe` and `ImplementsSession` (the safety part
  of the refinement: every step of the launcher is a step of `ClusterSession`
  or leaves it unchanged). The safety properties speak of the end of a story,
  so the inductive invariant `Inv` adds what each program point knows on the
  way: that the handler can reach the head as soon as the launcher waits for
  it (`ProcKnown`), that a request nobody waits for is counted as a possible
  leftover (`OrphanCounted`), that misses are consecutive while no signal cut
  the polling short (`MissesConsecutive`).
- `GmemSizingProofs`, the arithmetic: `RangeRespected`, `ShareIsAFraction`,
  `PlanUnderCeiling`, `ClusterUnderCeiling` and `MoreMemoryNeverHurts`, from
  lemmas on the rounding. All of them hold for every `Parts`, so for ranges of
  any precision. `RangeRespected` says what the last rounding leaves of the
  range: a share is never past what an end itself rounds to, so an end is missed
  by half a hundredth at most, and one in whole hundredths not at all. None of
  them but the upper end of the range needs `gmem.min <= gmem.max`, which
  validation does not ensure. The ceiling needs
  `BufferCovers`: the free buffer is at least the half hundredth of the total
  that rounding may add. The default buffer of 5 GiB covers any total up to 1000
  GiB; a buffer set to zero does not.
- `GmemSizingProofs`, the way of an entry: `EveryPlanUnderCeiling`,
  `EveryShareInRange`, `EveryConfigUnderstood`, `EveryProposalValid` and
  `EveryFreeingHelps` are the properties of the run `EntrySizing`, for all
  models, repositories, defaults, edits, amounts of memory and precisions of
  the range. `ParsedRight`
  computes what `parse_config` makes of each spelling (that every k-th of n
  layers is n div k layers is shown by a bijection), `ProposalAccepted` goes
  through `validate` for both kinds of proposal, and `ParamsFit` shows that an
  accepted entry meets the hypotheses of the arithmetic. The invariant
  `EntryInv` keeps entries typed and says that what was launched is what was
  accepted.
- `LaunchSizingProofs`: `TypeCorrect`, `PlanMatches`, `RestartsAreNeeded`,
  `NothingLeft`, `CeilingHolds` and `LaunchIsBounded`. The invariant says at
  each program point that the plan is the one computed from the reading that was
  kept, and for a two-node launch that it suits the worker's reading too; that a
  reclaim is under way only after a short first sizing; and that only a launch
  whose model is up holds memory. `CeilingHolds` is about a sum over all
  launches and co-tenants, which are any finite sets. That the sum changes by
  what one member changes (`SumChange`) is shown by a minimal counterexample:
  strict inclusion is well founded, so among the sets for which an equation on
  folds fails there is a smallest. `Room` then says that until somebody else
  takes memory no more is used than the launch has read, and once its model is
  up no more than the ceiling. `LaunchIsBounded` needs of the state only that a
  wait is within its limit (`Waits`) and a container is there to be looked at.
  Assumed of the launches' parameters are their types, `BufferCovers` and a
  floor that does not round to zero (`FloorReserves`).
- `ResidentGroupsProofs`: `OneAtATime`, by way of a lemma that in an accepted
  configuration a request for a `nodes: 2` model evicts any other one, and
  `RefusalsAreNeeded`, which goes the other way.
- `UpdatePinsProofs`: `TypeCorrect`, `RefsWereBuilt`, `NeverDowngraded`,
  `UpMakesLive`, `RecordsAgreeAfterSuccess`. `RefsWereBuilt` and the last
  assume that `.vllm-commit` can be read after a build: without it
  `update.py:379` records HEAD for a build from wheels, which need not be what
  was built. `AgreeInv` follows the records through the order in which an
  update writes them. `NeverDowngraded` rests on `TargetIsNewer`: the release
  found newer stays newer than the pin until it is written.
- `ModelFilesProofs`: `TypeCorrect`, `SyncIsFaithful`, `DownloadIsComplete`.
  `SyncInv` says what the sync has copied so far of a target whose side of the
  head has not changed; `DownloadInv` what of a snapshot is in place, and that a
  directory neither being fetched nor known to be half full is complete.
- `StackConfigProofs`: `TypeCorrect`, `ReloadIsLive`, `ReloadHasWaited`,
  `InvalidStaysOut`. `ReloadInv` says of an undisturbed reload, at each of its
  steps, which files it has written, which services it has restarted on them
  and which it has seen ready.
- `StackEnvProofs`: `TypeCorrect`, `ValuesSurvive`, `DatabaseStaysOpen`,
  `StartIsComplete` and `KeysStayEqual`, for any number of troubles.
  `SurviveInv` follows a value through the copy that a run makes and the
  truncation; `UrlInv` says of every place a URL can be, the file, the copy,
  the projection, what compose read and the container, that it was made with
  the password that is or will be the volume's; `RunInv` and `ApplyInv` say
  how far a complete run and the start after it have brought the files'
  values.

Every safety property and every action property that a run checks is a theorem.
Only model-checked: the liveness properties `LaunchEnds`, `CommandsEnd`,
`StopEndsSession` and `WorkerDeathEndsSession`, and the liveness part of
`SessionContract`. Of `LaunchEnds` the bound is proved (`LaunchIsBounded`); that
a launch can always go on until its model is up or it is over is left to TLC.
Liveness under fairness is out of the prover's reach, as is what the library's
induction theorems take an operator for; where a fact about finite sets needs
induction its proof goes by a minimal counterexample or a bijection instead.

## Findings

Each has a run whose counterexample shows it.

- `ClusterLaunchUnload`: `docker stop` of the worker by cmdStop can come while the
  launcher's `docker run -d` is still being carried out there. If the launcher is
  then killed its `finally` does not run, and the worker container stays until the
  next launch of the same model (`launch.py:756`; README.md:270 says an unload
  stops the worker too).
- `UpdatePinsRetry`: pins are written before the build and the pull. When one of
  those fails, the next update finds nothing newer and says that everything is up
  to date (`update.py:485`).
- `UpdatePinsReload`: the success message names `sparkyard reload` as a way to
  recreate the containers, but it restarts them on their old images
  (`ops.py:35`, `update.py:508`).
- `ModelFilesCheck`: `sync` never deletes, so shards of an earlier revision stay
  on the worker, and `check`, which compares byte totals, fails for good
  (`cluster.py:305`).

Met while modelling, without a run of their own:

- When the worker has died the launcher signals the `docker run` client of the
  head once and waits, without a limit, a `docker stop` or a second signal
  (`launch.py:730`). A head whose first process does not handle SIGTERM yet,
  because bash has not `exec`ed or Python is still importing, goes on to the
  torch.distributed timeout, which README.md:281 says is not waited out.
  `WorkerDeathEndsSession` has the hypothesis that it does not happen.
- Two launches that overlap size from the same memory and together pass the
  ceiling (README.md:344 says the launcher never plans past it). This is why
  `NodeUnderCeiling` excepts launches that were overtaken.
- A co-tenant counts as idle after one low CPU reading or none, so a job that is
  light on CPU or begins meanwhile is killed by the restart (`launch.py:347`;
  the header at line 27 says a job in flight never is).
- `add-model` prints, as the way to fetch the weights, a second `add-model`
  with `--download`. That appends the entry again, and every command then refuses
  `models.yaml` for its duplicate name (`addmodel.py:95`, `validate.py:152`).
- `add-model` and README.md:166 suggest `docker compose up -d` after a render,
  which `ops.py:22` and `cli.py:283` explain does not make it live.
- `reload` renders `.env` but restarts only, so a changed `llm_root` is mounted by
  the next `start` and not by the reload.
- `gen-secrets.sh` empties `secrets.env` and writes it again in place. A kill in
  between loses every secret, and the next run makes new ones
  (`gen-secrets.sh:44`; its header at line 3 says a value that is set is never
  overwritten). `torn` stands for this in the properties.
- A rotated master key leaves `OPENAI_API_KEY` at the old one unless that is
  blanked too (`gen-secrets.sh:57`; README.md:161 has the operator rotate tokens).
- A stop that comes before a single-node model's container exists does nothing;
  the launcher goes on to start it (`llama-swap.config.yaml.j2:62`). `OverIsOver`
  excepts this; README.md:272 promises the abort for two nodes only.
- `gmem.min` and `gmem.max` are compared only when the entry has both
  (`validate.py:161`). An entry with a floor above the default maximum passes, and
  its plans exceed that maximum; `SharesInRange` excepts it.
- `gmem.min: 0` passes too, and any floor that rounds to nothing. With 0 a plan
  succeeds where no memory is left, with a share of nothing (`launch.py:294`),
  which `PlansUnderCeiling` leaves out.
- The share is held to the range as written and rounded after that
  (`launch.py:309`), so an end with more than two decimals is not quite one: a
  floor of 0.844 gives 0.84, and a maximum of 0.706 gives 0.71 (CHANGELOG.md:324
  says that `gmem.max` caps what vLLM may reserve). `SharesInRange` says by how
  much either end can be missed.
- cmdStop stops the head by name (`launch.py:801`), which finds nothing while the
  launcher is between its last look at the signal and the container's start. That
  head gets the forwarded SIGTERM only, and if it does not heed it yet nothing
  but llama-swap's SIGKILL ends the launch, and that leaves the head to the next
  launch of the model. README.md:272 has the stop end worker and head.
  `StopEndsSession` excepts it.
- A proposal never fails validation, says `introspect.py:3`; it does for a
  repository without an organisation, for a name YAML retypes and for a GGUF
  model when `defaults` name no image, after it was appended. `ProposalIsValid`
  excepts these.
- `add-model` proposes `--load-format fastsafetensors` (`introspect.py:137`),
  which `models.example.yaml:35` advises against.
- A vLLM build whose wheel has no date writes a provenance heading that the next
  update cannot rewrite; that update then stops with the ref recorded in some
  places only (`update.py:387`).
- An interrupted download of a `path:` model leaves its directory, which every
  later download skips (`download.py:93`). `VouchedIsComplete` excepts exactly
  those directories.

## Not modelled

`build_argv`, the types and character sets of single fields, `doctor`, listings,
release notes, benchmarks and install scripts: they read, compute or print, and
keep no state that another step depends on. Of the Dockerfiles and templates only
pins, groups, env files, start order, mounts and cmdStop matter here. An operator
who runs `sparkyard build` or edits tracked files during an update, and two
updates at once, are assumed away; the hazards list says where that would bite.

## Plan

Done: the two-node launch, sizing, groups, updates, files, configuration, secrets
and the way of an entry from a repository to a launch.

What is left, in order:

1. A composition of `ResidentGroups` and `ClusterLaunch` in which the router
   starts and stops the launchers, so that the assumption of one two-node
   launcher at a time is discharged.
2. Updates beside `build` and beside edits of the tracked files.
