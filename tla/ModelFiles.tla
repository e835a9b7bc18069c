----------------------------- MODULE ModelFiles -----------------------------
(***************************************************************************)
(* The models' files on the head and on the worker, and the image their    *)
(* containers run: `sparkyard download`, `cluster sync` and `cluster       *)
(* check`, and what a two-node launch's preflight asks of the worker.  A   *)
(* download and a sync may run at the same time, and either may break off  *)
(* at any point.                                                           *)
(*                                                                         *)
(* A file is its revision upstream.  Paths a model refers to besides its   *)
(* own are copied and compared as the weights are and not shown.           *)
(***************************************************************************)
EXTENDS Integers, FiniteSetsExt

CONSTANTS
    Gguf,      \* llamacpp models: one family of .gguf shards
    Tp,        \* nodes: 2 models: a directory with config.json and weights
    Nobody,    \* no model
    Shards,    \* the names weight files have
    SizeOf,    \* a shard's bytes, the same in every revision
    MaxRev,    \* bound: revisions upstream goes through
    ShardsOf,  \* the shards of a Tp model's revision
    MaxImage   \* bound: versions of the models' image

Config == "config.json"
Absent == -1
Files  == Shards \cup {Config}
Models == Gguf \cup Tp
Revs   == 0..MaxRev

ASSUME FilesAssumption ==
    /\ Gguf \cap Tp = {} /\ Nobody \notin Models
    /\ Config \notin Shards
    /\ MaxRev \in Nat /\ MaxImage \in Nat
    /\ ShardsOf \in [Revs -> SUBSET Shards]
    /\ SizeOf \in [Shards -> Nat]

VARIABLES
    upstream,     \* the revision Hugging Face offers
    headDir,      \* models whose directory exists on the head
    head,         \* the files in it
    headImage,    \* the image the head would run
    workerDir, worker, workerImage,  \* the same on the worker
    \* a download
    asked, queue, \* what it is for, and what it has still to look at
    item, rev,    \* the snapshot it fetches
    need,         \* and the files that are still to come
    dfailed,      \* some snapshot failed
    \* a sync
    spc,          \* where it is
    targets, squeue,  \* what it is for, and what it has still to copy
    sitem, list,  \* the model rsync copies, and the files it has still to send
    \* history, read by the properties only
    vouched,      \* what the last download reported to be on disk
    broken,       \* models whose last snapshot broke off
    steady,       \* targets whose side of the head is as when the sync began
    synced        \* those of the last complete sync, and still so

nodes    == <<upstream, headDir, head, headImage, workerDir, worker, workerImage>>
download == <<asked, queue, item, rev, need, dfailed, vouched, broken>>
sync     == <<spc, targets, squeue, sitem, list>>
history  == <<steady, synced>>
vars     == <<nodes, download, sync, history>>

Empty == [f \in Files |-> Absent]
Has(dir) == {f \in Files : dir[f] # Absent}

TypeOK ==
    /\ upstream \in [Models -> Revs]
    /\ headDir \subseteq Models /\ workerDir \subseteq Tp
    /\ head \in [Models -> [Files -> Revs \cup {Absent}]]
    /\ worker \in [Tp -> [Files -> Revs \cup {Absent}]]
    /\ \A m \in Models \ headDir : Has(head[m]) = {}
    /\ {headImage, workerImage} \subseteq 0..MaxImage \cup {Absent}
    /\ queue \subseteq asked /\ asked \subseteq Models /\ vouched \subseteq Models
    /\ broken \subseteq Models
    /\ item \in asked \cup {Nobody} /\ rev \in Revs /\ need \subseteq Files
    /\ item = Nobody => need = {}
    /\ dfailed \in BOOLEAN
    /\ spc \in {"idle", "image", "stream", "models"}
    /\ spc \in {"stream", "models"} => headImage # Absent
    /\ targets \subseteq Tp /\ squeue \subseteq targets
    /\ sitem \in targets \cup {Nobody} /\ list \subseteq Files
    /\ sitem = Nobody => list = {}
    /\ sitem # Nobody => spc = "models"
    /\ steady \subseteq targets /\ synced \subseteq Tp

Init ==
    /\ upstream = [m \in Models |-> 0]
    /\ headDir = {} /\ workerDir = {}
    /\ head = [m \in Models |-> Empty]
    /\ worker = [m \in Tp |-> Empty]
    /\ headImage = Absent /\ workerImage = Absent
    /\ asked = {} /\ queue = {} /\ item = Nobody /\ rev = 0 /\ need = {}
    /\ dfailed = FALSE /\ vouched = {} /\ broken = {}
    /\ spc = "idle" /\ targets = {} /\ squeue = {} /\ sitem = Nobody /\ list = {}
    /\ steady = {} /\ synced = {}

\* history: the head's side of the models ms changes
Changed(ms) ==
    /\ steady' = steady \ ms
    /\ synced' = synced \ ms

-----------------------------------------------------------------------------
(* download.py.                                                            *)

FilesOf(m, r) == IF m \in Tp THEN ShardsOf[r] \cup {Config} ELSE Shards

\* slip: some shards stand for the family
SomeShardOnDisk(m) == m \in headDir

\* what is not downloaded again: a directory, or a whole family of shards
OnDisk(m) == IF m \in Tp THEN m \in headDir ELSE Shards \subseteq Has(head[m])

\* one model, or all
DownloadBegin(ms) ==
    /\ asked = {} /\ ms # {}
    /\ asked' = ms /\ queue' = ms
    /\ vouched' = {}
    /\ UNCHANGED <<item, rev, need, dfailed, broken, nodes, sync, history>>

Skip(m) ==
    /\ item = Nobody
    /\ m \in queue /\ OnDisk(m)
    /\ queue' = queue \ {m}
    /\ UNCHANGED <<asked, item, rev, need, dfailed, vouched, broken, nodes, sync, history>>

StartSnapshot(m) ==
    /\ item = Nobody
    /\ m \in queue /\ ~OnDisk(m)
    /\ queue' = queue \ {m}
    /\ item' = m /\ rev' = upstream[m] /\ need' = FilesOf(m, upstream[m])
    /\ UNCHANGED <<asked, dfailed, vouched, broken, nodes, sync, history>>

\* snapshot_download moves each file into place once it has all of it
FetchFile ==
    /\ \E f \in need :
         /\ head' = [head EXCEPT ![item][f] = rev]
         /\ need' = need \ {f}
    /\ headDir' = headDir \cup {item}
    /\ Changed({item})
    /\ UNCHANGED <<asked, queue, item, rev, dfailed, vouched, broken, upstream, headImage,
                   workerDir, worker, workerImage, sync>>

SnapshotEnd == item' = Nobody /\ rev' = 0 /\ need' = {}

SnapshotDone ==
    /\ item # Nobody /\ need = {}
    /\ SnapshotEnd
    /\ broken' = broken \ {item}
    /\ UNCHANGED <<asked, queue, dfailed, vouched, nodes, sync, history>>

\* what it fetched stays, and the directory may be there with nothing in it
BreaksOff ==
    /\ SnapshotEnd
    /\ headDir' \in {headDir, headDir \cup ({item} \ {Nobody})}
    /\ broken' = broken \cup ({item} \ {Nobody})

\* an error is reported, and the loop goes on
SnapshotFails ==
    /\ item # Nobody
    /\ BreaksOff
    /\ dfailed' = TRUE
    /\ UNCHANGED <<asked, queue, vouched, upstream, head, headImage, workerDir, worker,
                   workerImage, sync, history>>

DownloadOver == asked' = {} /\ queue' = {} /\ dfailed' = FALSE

DownloadEnd ==
    /\ asked # {} /\ queue = {} /\ item = Nobody
    /\ vouched' = IF dfailed THEN {} ELSE asked
    /\ DownloadOver
    /\ UNCHANGED <<item, rev, need, broken, nodes, sync, history>>

DownloadKilled ==
    /\ asked # {}
    /\ BreaksOff
    /\ DownloadOver
    /\ UNCHANGED <<vouched, upstream, head, headImage, workerDir, worker, workerImage,
                   sync, history>>

DownloadStep ==
    \/ \E m \in queue : Skip(m) \/ StartSnapshot(m)
    \/ FetchFile \/ SnapshotDone \/ SnapshotFails
    \/ DownloadEnd \/ DownloadKilled

-----------------------------------------------------------------------------
(* cluster.py's sync.                                                      *)

SyncBegin(ms) ==
    /\ spc = "idle"
    /\ spc' = "image"
    /\ targets' = ms /\ squeue' = ms
    /\ steady' = ms
    /\ UNCHANGED <<sitem, list, synced, nodes, download>>

SyncOver ==
    /\ spc' = "idle"
    /\ targets' = {} /\ squeue' = {} /\ sitem' = Nobody /\ list' = {}
    /\ steady' = {}

\* ssh, docker or rsync fails, or the operator interrupts
SyncFails ==
    /\ spc # "idle"
    /\ SyncOver
    /\ UNCHANGED <<synced, nodes, download>>

\* slip: any image of that name will do
AnyImageOnWorker ==
    /\ spc = "image"
    /\ headImage # Absent
    /\ spc' = IF workerImage # Absent THEN "models" ELSE "stream"
    /\ UNCHANGED <<targets, squeue, sitem, list, nodes, download, history>>

\* slip: two images that are missing are the same
MissingAreTheSame ==
    /\ spc = "image"
    /\ spc' \in {"stream"} \cup (IF headImage = workerImage THEN {"models"} ELSE {})
    /\ UNCHANGED <<targets, squeue, sitem, list, nodes, download, history>>

\* an image is known by its layers; an answer that fails counts as none
CompareImage ==
    /\ spc = "image"
    /\ headImage # Absent
    /\ spc' \in {"stream"} \cup (IF headImage = workerImage THEN {"models"} ELSE {})
    /\ UNCHANGED <<targets, squeue, sitem, list, nodes, download, history>>

\* docker save | docker load
StreamImage ==
    /\ spc = "stream"
    /\ workerImage' = headImage
    /\ spc' = "models"
    /\ UNCHANGED <<targets, squeue, sitem, list, upstream, headDir, head, headImage,
                   workerDir, worker, download, history>>

\* mkdir, and rsync lists what there is to send
StartRsync(m) ==
    /\ spc = "models" /\ sitem = Nobody
    /\ m \in squeue /\ m \in headDir
    /\ squeue' = squeue \ {m}
    /\ sitem' = m /\ list' = Has(head[m])
    /\ workerDir' = workerDir \cup {m}
    /\ UNCHANGED <<spc, targets, upstream, headDir, head, headImage, worker,
                   workerImage, download, history>>

(* rsync -a sends in name order, config.json before the weights.  A file   *)
(* that is gone by then makes the sync fail.  What the worker has besides  *)
(* stays.                                                                  *)
RsyncFile ==
    /\ \E f \in list :
         /\ f = Config \/ Config \notin list
         /\ head[sitem][f] # Absent
         /\ worker' = [worker EXCEPT ![sitem][f] = head[sitem][f]]
         /\ list' = list \ {f}
    /\ UNCHANGED <<spc, targets, squeue, sitem, upstream, headDir, head, headImage,
                   workerDir, workerImage, download, history>>

RsyncDone ==
    /\ sitem # Nobody /\ list = {}
    /\ sitem' = Nobody
    /\ UNCHANGED <<spc, targets, squeue, list, nodes, download, history>>

\* "sync complete"
SyncComplete ==
    /\ spc = "models" /\ sitem = Nobody /\ squeue = {}
    /\ synced' = (synced \ targets) \cup steady
    /\ SyncOver
    /\ UNCHANGED <<nodes, download>>

SyncStep ==
    \/ CompareImage \/ StreamImage
    \/ \E m \in squeue : StartRsync(m)
    \/ RsyncFile \/ RsyncDone
    \/ SyncComplete \/ SyncFails

-----------------------------------------------------------------------------
(* cluster.py's check and launch.py's cluster_preflight: they read only.   *)

\* a directory that is not there has no weights to compare
Weights(dir) == MapThenSumSet(LAMBDA s : IF dir[s] # Absent THEN SizeOf[s] ELSE 0, Shards)

SameImage == headImage # Absent /\ headImage = workerImage

CheckPasses ==
    /\ SameImage
    /\ \A m \in Tp : m \in headDir /\ m \in workerDir
                       /\ Weights(head[m]) = Weights(worker[m])

PreflightPasses(m) == SameImage /\ worker[m][Config] # Absent

-----------------------------------------------------------------------------
(* The operator and upstream.                                              *)

Publish(m) ==
    /\ upstream[m] < MaxRev
    /\ upstream' = [upstream EXCEPT ![m] = @ + 1]
    /\ UNCHANGED <<headDir, head, headImage, workerDir, worker, workerImage, download,
                   sync, history>>

\* rm -r, so that a newer revision is fetched; not under a download's feet
RemoveModel(m) ==
    /\ m \in headDir \ asked
    /\ headDir' = headDir \ {m}
    /\ head' = [head EXCEPT ![m] = Empty]
    /\ vouched' = vouched \ {m} /\ broken' = broken \ {m}
    /\ Changed({m})
    /\ UNCHANGED <<asked, queue, item, rev, need, dfailed, upstream, headImage,
                   workerDir, worker, workerImage, sync>>

\* the models' image is built anew (UpdatePins)
BuildImage ==
    /\ headImage < MaxImage
    /\ headImage' = headImage + 1
    /\ Changed(Tp)
    /\ UNCHANGED <<upstream, headDir, head, workerDir, worker, workerImage, download, sync>>

Next ==
    \/ \E m \in Models : DownloadBegin({m})
    \/ DownloadBegin(Models)
    \/ DownloadStep
    \/ \E m \in Tp : SyncBegin({m})
    \/ SyncBegin(Tp)
    \/ SyncStep
    \/ \E m \in Models : RemoveModel(m)
    \/ \E m \in Tp : Publish(m)
    \/ BuildImage

Spec == Init /\ [][Next]_vars

-----------------------------------------------------------------------------
(* Properties.                                                             *)

(* A sync that reports completion, after any earlier ones that broke off,  *)
(* leaves the worker with the head's image and with every file the head    *)
(* has, in the head's revision, for as long as the head does not change;   *)
(* and the next launch's preflight agrees.                                 *)
SyncedMatchesHead ==
    \A m \in synced :
        /\ SameImage
        /\ \A f \in Has(head[m]) : worker[m][f] = head[m][f]
        /\ Config \in Has(head[m]) => PreflightPasses(m)

\* all the files of one revision, or all shards
Complete(m) ==
    IF m \in Tp THEN \E r \in Revs : \A f \in FilesOf(m, r) : head[m][f] = r
               ELSE Shards \subseteq Has(head[m])

(* What a download reports to be on disk is there to the last file, what   *)
(* it skipped included.  The exception is a directory that an earlier      *)
(* snapshot left half full: it is skipped from then on, while a family of  *)
(* shards is looked at file by file.                                       *)
VouchedIsComplete == \A m \in vouched : Complete(m) \/ m \in Tp \cap broken

(* The README's order of commands: after a sync of every two-node model    *)
(* and with nothing changed since, every line of `cluster check` is PASS.  *)
CheckFollowsSync == synced = Tp => CheckPasses
=============================================================================
