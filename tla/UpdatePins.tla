----------------------------- MODULE UpdatePins -----------------------------
(***************************************************************************)
(* `sparkyard update`: the pins in the tracked files, the images they      *)
(* name, the containers that run them, and what one update does step by    *)
(* step, while upstream moves, builds and writes fail, and the operator    *)
(* runs build, start, reload and stop beside it.                           *)
(*                                                                         *)
(* A version stands for a digest, a release number or a commit; upstream's *)
(* order matters for llama-swap's release numbers alone.                   *)
(***************************************************************************)
EXTENDS Integers

CONSTANTS
    Images,      \* the digest-pinned compose services
    MaxVersion,  \* bound: versions upstream goes through
    Moving,      \* bound: components upstream changes
    Calls,       \* bound: the components an update names, {} for none
    Interrupts,  \* whether an update may be killed or a write may fail
    Artifacts    \* what a vLLM build may leave in the clone's wheels/

LlamaSwap == "llama-swap"
LlamaCpp  == "llama-cpp"
Vllm      == "vllm-node"

Tagged     == {LlamaSwap, LlamaCpp, Vllm}  \* built here, known by a tag
FromSource == {LlamaCpp, Vllm}
Services   == Images \cup {LlamaSwap, LlamaCpp}  \* what compose runs
Components == Images \cup Tagged
Versions   == 0..MaxVersion
NoRef      == -1                           \* an empty ref
Down       == -1                           \* no container

(* commit: .vllm-commit could be read; dated: the wheel's name has a date. *)
ArtifactKinds == [commit : BOOLEAN, dated : BOOLEAN]

ASSUME UpdateAssumption ==
    /\ Images \cap Tagged = {}
    /\ MaxVersion \in Nat
    /\ Moving \subseteq Components /\ Calls \subseteq SUBSET Components
    /\ Interrupts \in BOOLEAN
    /\ Artifacts # {} /\ Artifacts \subseteq ArtifactKinds

VARIABLES
    upstream,   \* what the registry, GitHub's releases and HEADs offer
    pin,        \* what the tracked files say; vLLM: settings.local.yaml
    defaultRef, \* DEFAULT_VLLM_REF in settings.py
    provenance, \* VLLM_NODE_PROVENANCE.md: the ref, and a heading with a date
    image,      \* the version the local tag of a built component holds
    pulled,     \* the digests of an image that are on disk
    running,    \* the version a service's container runs
    followed,   \* how the last update's advice to recreate was followed
    \* the update under way
    pc, scope, wheels,
    newer,      \* compose images and llama-swap with a newer version
    tried,      \* source-built components whose build was run
    target,     \* the version resolved for a component
    found,      \* read_built_refs
    failed,     \* docker_rc
    \* what it ended with
    outcome,
    advised,    \* components its success message says to recreate
    \* history, read by the properties only
    built       \* versions of a source-built component that were built here

world  == <<upstream, running, followed>>
files  == <<pin, defaultRef, provenance>>
store  == <<image, pulled, built>>
update == <<pc, scope, wheels, newer, tried, target, found, failed, outcome, advised>>
vars   == <<world, files, store, update>>

PCs == {"idle", "plan", "llamacpp", "lcpp_build", "lcpp_write", "vllm",
        "vllm_build", "local", "default", "provenance", "decide", "compose",
        "dockerfile", "build", "pull", "report"}

WorldOK ==
    /\ upstream \in [Components -> Versions]
    /\ running \in [Services -> Versions \cup {Down}]
    /\ followed \in {"none", "up", "reload"}

FilesOK ==
    /\ pin \in [Components -> Versions]
    /\ defaultRef \in Versions
    /\ provenance \in [ref : Versions \cup {NoRef}, dated : BOOLEAN]

StoreOK ==
    /\ image \in [Tagged -> Versions]
    /\ pulled \in [Images -> SUBSET Versions]
    /\ built \in [FromSource -> SUBSET Versions]

UpdateOK ==
    /\ pc \in PCs
    /\ scope \in Calls \cup {{}}
    /\ wheels \in BOOLEAN
    /\ newer \subseteq Images \cup {LlamaSwap}
    /\ tried \subseteq FromSource \cap scope  \* the explicit-naming gate
    /\ pc \in {"idle", "plan", "llamacpp", "lcpp_build"} => tried = {}
    /\ pc = "lcpp_build" => LlamaCpp \in scope
    /\ pc = "vllm_build" => Vllm \in scope
    /\ target \in [Components -> Versions]
    /\ found \in [ref : Versions \cup {NoRef}, dated : BOOLEAN]
    /\ failed \in BOOLEAN
    /\ outcome \in {"none", "ok", "failed", "up-to-date"}
    /\ advised \subseteq Components

TypeOK == WorldOK /\ FilesOK /\ StoreOK /\ UpdateOK

\* what a process that has not started, or has ended, knows
NoTarget == [c \in Components |-> 0]
NotFound == [ref |-> NoRef, dated |-> FALSE]

(* A stack that was installed from the committed pins.                     *)
Init ==
    /\ upstream = [c \in Components |-> 0]
    /\ pin = [c \in Components |-> 0]
    /\ defaultRef = 0
    /\ provenance = [ref |-> 0, dated |-> TRUE]
    /\ image = [c \in Tagged |-> 0]
    /\ pulled = [c \in Images |-> {0}]
    /\ running = [c \in Services |-> 0]
    /\ followed = "none"
    /\ pc = "idle"
    /\ scope = {} /\ wheels = FALSE
    /\ newer = {} /\ tried = {}
    /\ target = NoTarget /\ found = NotFound
    /\ failed = FALSE
    /\ outcome = "none"
    /\ advised = {}
    /\ built = [c \in FromSource |-> {0}]

-----------------------------------------------------------------------------
(* One update.                                                             *)

\* slip: a bare update builds from source as well
BuildsUnasked(c) == scope = {} \/ c \in scope

Want(c)     == scope = {} \/ c \in scope
Explicit(c) == c \in scope

\* the update returns, or dies
End(how) ==
    /\ pc' = "idle"
    /\ outcome' = how
    /\ wheels' = FALSE
    /\ newer' = {} /\ tried' = {}
    /\ target' = NoTarget /\ found' = NotFound
    /\ failed' = FALSE
    /\ UNCHANGED scope

Goto(where) ==
    /\ pc' = where
    /\ UNCHANGED <<scope, wheels, outcome, advised>>

Begin(names, w) ==
    /\ pc = "idle"
    /\ w => Vllm \in names
    /\ pc' = "plan"
    /\ scope' = names
    /\ wheels' = w
    /\ outcome' = "none"
    /\ advised' = {}
    /\ UNCHANGED <<newer, tried, target, found, failed, world, files, store>>

\* slip: any other release counts as newer
AnyOtherRelease(c) == upstream[c] # pin[c]

(* A digest that differs is newer; a llama-swap release that is older than *)
(* the pinned one is not.                                                  *)
Newer(c) == IF c = LlamaSwap THEN upstream[c] > pin[c] ELSE upstream[c] # pin[c]

\* every lookup is fail-soft: a component it fails for is not updated
Plan ==
    /\ pc = "plan"
    /\ newer' \in SUBSET {c \in Images \cup {LlamaSwap} : Want(c) /\ Newer(c)}
    /\ target' = [c \in Components |-> IF c \in newer' THEN upstream[c] ELSE target[c]]
    /\ Goto("llamacpp")
    /\ UNCHANGED <<tried, found, failed, world, files, store>>

(* Resolve HEAD of a source-built component: built only if it was named    *)
(* and HEAD is not the pinned ref.                                         *)
ResolveHead(c, from, to, otherwise) ==
    /\ pc = from
    /\ \/ /\ Explicit(c)
          /\ upstream[c] # pin[c]
          /\ target' = [target EXCEPT ![c] = upstream[c]]
          /\ Goto(to)
       \/ /\ UNCHANGED target
          /\ Goto(otherwise)
    /\ UNCHANGED <<newer, tried, found, failed, world, files, store>>

\* the local tag now holds v
Built(c, v) ==
    /\ image' = [image EXCEPT ![c] = v]
    /\ built' = [built EXCEPT ![c] = @ \cup {v}]
    /\ UNCHANGED pulled

\* slip: the ref is recorded whatever the build returned
PinsAnyway ==
    /\ pc = "lcpp_build"
    /\ tried' = tried \cup {LlamaCpp}
    /\ \/ Built(LlamaCpp, target[LlamaCpp]) /\ UNCHANGED failed
       \/ failed' = TRUE /\ UNCHANGED store
    /\ Goto("lcpp_write")
    /\ UNCHANGED <<newer, target, found, world, files>>

BuildLlamaCpp ==
    /\ pc = "lcpp_build"
    /\ tried' = tried \cup {LlamaCpp}
    /\ \/ /\ Built(LlamaCpp, target[LlamaCpp])
          /\ Goto("lcpp_write")
          /\ UNCHANGED failed
       \/ /\ failed' = TRUE
          /\ Goto("vllm")
          /\ UNCHANGED store
    /\ UNCHANGED <<newer, target, found, world, files>>

PinLlamaCpp ==
    /\ pc = "lcpp_write"
    /\ pin' = [pin EXCEPT ![LlamaCpp] = target[LlamaCpp]]
    /\ Goto("vllm")
    /\ UNCHANGED <<newer, tried, target, found, failed, world, defaultRef,
                   provenance, store>>

(* build_vllm and read_built_refs.  A source build honours the ref; wheels *)
(* bring whatever version was published.                                   *)
BuildVllm ==
    /\ pc = "vllm_build"
    /\ tried' = tried \cup {Vllm}
    /\ \/ \E v \in (IF wheels THEN 0..upstream[Vllm] ELSE {target[Vllm]}), a \in Artifacts :
            /\ Built(Vllm, v)
            /\ found' = [ref |-> IF a.commit THEN v ELSE NoRef, dated |-> a.dated]
            /\ Goto("local")
            /\ UNCHANGED failed
       \/ /\ failed' = TRUE
          /\ Goto("decide")
          /\ UNCHANGED <<found, store>>
    /\ UNCHANGED <<newer, target, world, files>>

\* slip: HEAD is recorded for a build from wheels too
AlwaysHead == target[Vllm]

\* the ref to record
LandedRef ==
    IF wheels /\ found.ref # NoRef THEN found.ref ELSE target[Vllm]

WriteLocalRef ==
    /\ pc = "local"
    /\ pin' = [pin EXCEPT ![Vllm] = LandedRef]
    /\ Goto("default")
    /\ UNCHANGED <<newer, tried, target, found, failed, world, defaultRef,
                   provenance, store>>

WriteDefaultRef ==
    /\ pc = "default"
    /\ defaultRef' = LandedRef
    /\ Goto("provenance")
    /\ UNCHANGED <<newer, tried, target, found, failed, world, pin, provenance,
                   store>>

(* rewrite_provenance raises, out of the update, when the heading has no   *)
(* date to replace; what it writes has one only if the wheel's name does.  *)
WriteProvenance ==
    /\ pc = "provenance"
    /\ IF provenance.dated
         THEN provenance' = found /\ Goto("decide")
              /\ UNCHANGED <<newer, tried, target, found, failed>>
         ELSE End("failed") /\ UNCHANGED <<provenance, advised>>
    /\ UNCHANGED <<world, pin, defaultRef, store>>

\* nothing newer, nothing built: "Everything up to date."
Decide ==
    /\ pc = "decide"
    /\ IF newer = {} /\ tried = {}
         THEN End("up-to-date") /\ UNCHANGED advised
         ELSE Goto("compose") /\ UNCHANGED <<newer, tried, target, found, failed>>
    /\ UNCHANGED <<world, files, store>>

\* the digests in docker-compose.yml, in one write
WriteCompose ==
    /\ pc = "compose"
    /\ pin' = [c \in Components |-> IF c \in newer \cap Images THEN target[c] ELSE pin[c]]
    /\ Goto(IF LlamaSwap \in newer THEN "dockerfile"
            ELSE IF newer # {} THEN "pull" ELSE "report")
    /\ UNCHANGED <<newer, tried, target, found, failed, world, defaultRef,
                   provenance, store>>

WriteDockerfile ==
    /\ pc = "dockerfile"
    /\ pin' = [pin EXCEPT ![LlamaSwap] = target[LlamaSwap]]
    /\ Goto("build")
    /\ UNCHANGED <<newer, tried, target, found, failed, world, defaultRef,
                   provenance, store>>

BuildLlamaSwap ==
    /\ pc = "build"
    /\ \/ image' = [image EXCEPT ![LlamaSwap] = pin[LlamaSwap]] /\ UNCHANGED failed
       \/ failed' = TRUE /\ UNCHANGED image
    /\ Goto(IF newer \cap Images # {} THEN "pull" ELSE "report")
    /\ UNCHANGED <<newer, tried, target, found, world, files, pulled, built>>

\* slip: docker_rc is the pull's alone
PullForgetsBuild ==
    /\ pc = "pull"
    /\ \E got \in SUBSET (newer \cap Images) :
         /\ pulled' = [c \in Images |-> IF c \in got THEN pulled[c] \cup {pin[c]}
                                                     ELSE pulled[c]]
         /\ failed' = (got # newer \cap Images)
    /\ Goto("report")
    /\ UNCHANGED <<newer, tried, target, found, world, files, image, built>>

\* docker compose pull of the changed services; some may fail
PullImages ==
    /\ pc = "pull"
    /\ \E got \in SUBSET (newer \cap Images) :
         /\ pulled' = [c \in Images |-> IF c \in got THEN pulled[c] \cup {pin[c]}
                                                     ELSE pulled[c]]
         /\ failed' = (failed \/ got # newer \cap Images)
    /\ Goto("report")
    /\ UNCHANGED <<newer, tried, target, found, world, files, image, built>>

Report ==
    /\ pc = "report"
    /\ End(IF failed THEN "failed" ELSE "ok")
    /\ advised' = IF failed THEN {} ELSE newer \cup tried
    /\ followed' = "none"
    /\ UNCHANGED <<upstream, running, files, store>>

(* An update is killed, or a step raises: a file that cannot be written, a *)
(* docker binary that is not there.  Each file is replaced as a whole.     *)
Interrupted ==
    /\ Interrupts
    /\ pc # "idle"
    /\ End("failed")
    /\ UNCHANGED <<advised, world, files, store>>

UpdateStep ==
    \/ Plan
    \/ ResolveHead(LlamaCpp, "llamacpp", "lcpp_build", "vllm")
    \/ BuildLlamaCpp \/ PinLlamaCpp
    \/ ResolveHead(Vllm, "vllm", "vllm_build", "decide")
    \/ BuildVllm \/ WriteLocalRef \/ WriteDefaultRef \/ WriteProvenance
    \/ Decide \/ WriteCompose \/ WriteDockerfile \/ BuildLlamaSwap
    \/ PullImages \/ Report \/ Interrupted

-----------------------------------------------------------------------------
(* Upstream, and the operator's other commands.                            *)

Publish(c) ==
    /\ upstream[c] < MaxVersion
    /\ upstream' = [upstream EXCEPT ![c] = @ + 1]
    /\ UNCHANGED <<running, followed, files, store, update>>

\* a llama-swap release is taken back
Withdraw ==
    /\ LlamaSwap \in Moving
    /\ upstream[LlamaSwap] > 0
    /\ upstream' = [upstream EXCEPT ![LlamaSwap] = @ - 1]
    /\ UNCHANGED <<running, followed, files, store, update>>

(* docker compose build: llama-swap and llama-server from their pins.  It  *)
(* is not run beside an update, which builds the same tags.                *)
Build ==
    /\ pc = "idle"
    /\ \E ok \in SUBSET {LlamaSwap, LlamaCpp} :
         image' = [c \in Tagged |-> IF c \in ok THEN pin[c] ELSE image[c]]
    /\ UNCHANGED <<world, files, pulled, built, update>>

(* docker compose up -d: missing digests are pulled, and containers whose  *)
(* image changed are recreated; a failed pull changes nothing.             *)
Start ==
    /\ pulled' = [c \in Images |-> pulled[c] \cup {pin[c]}]
    /\ running' = [c \in Services |-> IF c \in Images THEN pin[c] ELSE image[c]]
    /\ followed' = "up"
    /\ UNCHANGED <<upstream, files, image, built, update>>

(* docker restart of llama-swap and litellm: the same containers, on the   *)
(* images they were created from.                                          *)
Reload ==
    /\ running[LlamaSwap] # Down
    /\ followed' = "reload"
    /\ UNCHANGED <<upstream, running, files, store, update>>

Stop ==
    /\ running' = [c \in Services |-> Down]
    /\ followed' = "none"
    /\ UNCHANGED <<upstream, files, store, update>>

Next ==
    \/ \E names \in Calls, w \in BOOLEAN : Begin(names, w)
    \/ UpdateStep
    \/ \E c \in Moving : Publish(c)
    \/ Withdraw
    \/ Build \/ Start \/ Reload \/ Stop

Spec == Init /\ [][Next]_vars

-----------------------------------------------------------------------------
(* Properties.                                                             *)

(* Build-then-persist: a ref is recorded, in any of its places, only once  *)
(* this machine has built it, whatever fails or is interrupted on the way. *)
RecordedRefsWereBuilt ==
    /\ pin[LlamaCpp] \in built[LlamaCpp]
    /\ {pin[Vllm], defaultRef, provenance.ref} \subseteq built[Vllm]

(* llama-swap's pin never goes back, though a release may be taken back    *)
(* before, during or after the update that pinned it.                      *)
LlamaSwapNeverDowngraded == [][pin'[LlamaSwap] >= pin[LlamaSwap]]_vars

(* After an update that reported success, `docker compose up -d` makes     *)
(* what it bumped live, in the version that is pinned.                     *)
UpGoesLive ==
    followed = "up" => \A c \in advised \cap Services : running[c] = pin[c]

(* The same of `sparkyard reload`, which the success message names first.  *)
ReloadGoesLive ==
    followed = "reload" => \A c \in advised \cap Services : running[c] = pin[c]

(* An update that succeeds in rebuilding vllm-node leaves the same ref in   *)
(* every place that records it, from source or from wheels, whatever       *)
(* earlier updates left half written.                                      *)
SuccessRecordsAgree ==
    outcome = "ok" /\ Vllm \in advised =>
        pin[Vllm] = defaultRef /\ defaultRef = provenance.ref

(* "Everything up to date.": what the update looked at is pulled or built  *)
(* in the pinned version.                                                  *)
Staged(c) == IF c \in Images THEN pin[c] \in pulled[c] ELSE image[c] = pin[c]

UpToDateIsStaged ==
    outcome = "up-to-date" =>
        \A c \in Images \cup {LlamaSwap} : Want(c) => Staged(c)
=============================================================================
