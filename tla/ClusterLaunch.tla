---------------------------- MODULE ClusterLaunch ----------------------------
(***************************************************************************)
(* The two-node launch of launch.py: the launcher process llama-swap runs  *)
(* for a `nodes: 2` model, the worker and head containers it starts, the   *)
(* signals it records and forwards, and cmdStop (`launch.py --stop`),      *)
(* which runs beside it.  llama-swap runs one such launcher at a time      *)
(* (ResidentGroups says why) and may SIGKILL one that outlives cmdStop.    *)
(*                                                                         *)
(* Each model has its own container names, so `worker` and `head` are      *)
(* functions on Models; only the launcher's model is `cur`.                *)
(***************************************************************************)
EXTENDS Naturals

CONSTANTS
    Models,       \* the nodes: 2 models
    MaxLaunches,  \* bound: launches llama-swap makes
    PollMisses,   \* WORKER_POLL_MISSES
    SshFails,     \* whether ssh to the worker may fail
    Kills         \* whether the launcher may be SIGKILLed

ASSUME LaunchAssumption ==
    /\ Models # {}
    /\ MaxLaunches \in Nat
    /\ PollMisses \in Nat \ {0}
    /\ SshFails \in BOOLEAN
    /\ Kills \in BOOLEAN

VARIABLES
    pc,        \* where the launcher process is
    cur,       \* the model it launches
    sig,       \* state["sig"] is set
    proc,      \* state["proc"] is set: the handler can reach the head
    worker,    \* the <name>-w container exists on the worker node
    head,      \* the head container and the docker client that waits for it
    status,    \* the answer of the last worker poll
    misses,    \* polls without an answer since the last "alive"
    died,      \* _wait_head found the worker gone
    stopper,   \* where cmdStop is
    launches,  \* launches made so far
    \* history, read by the properties only
    orphanReq, \* models whose `docker run` on the worker nobody waits for
    lostWorker,\* models whose worker a failed ssh or a SIGKILL left behind
    lostHead,  \* models whose head a SIGKILL left behind
    streak     \* consecutive unanswered polls

local   == <<sig, proc, status, misses, died>>
remote  == <<worker, orphanReq, lostWorker>>
heads   == <<head, lostHead>>
vars == <<pc, cur, local, remote, heads, stopper, launches, streak>>

(* The launcher's steps; "none" is no process.  "boot" precedes            *)
(* install_abort, "await" is inside the worker's `docker run -d`.          *)
Early    == {"preflight", "rm_head", "rm_worker", "sizing", "check_worker"}
Waiting  == {"wait", "poll", "polled", "wait_end"}
HeadRuns == {"assign", "recheck"} \cup Waiting
InFinally== {"check_head", "popen", "cleanup"} \cup HeadRuns
Started  == {"await", "fail_stop"} \cup InFinally
PCs      == {"none", "boot"} \cup Early \cup Started

Statuses == {"alive", "gone", "unknown"}
HeadStates == {"off", "up", "term"}

TypeOK ==
    /\ pc \in PCs
    /\ cur \in Models
    /\ sig \in BOOLEAN /\ proc \in BOOLEAN /\ died \in BOOLEAN
    /\ worker \in [Models -> BOOLEAN]
    /\ head \in [Models -> HeadStates]
    /\ status \in Statuses
    /\ misses \in 0..(PollMisses - 1)
    /\ stopper \in {"none", "term", "worker", "head", "done"}
    /\ launches \in 0..MaxLaunches
    /\ orphanReq \subseteq Models
    /\ lostWorker \subseteq Models
    /\ lostHead \subseteq Models
    /\ streak \in 0..PollMisses

Init ==
    /\ pc = "none"
    /\ cur \in Models
    /\ sig = FALSE /\ proc = FALSE /\ died = FALSE
    /\ worker = [m \in Models |-> FALSE]
    /\ head = [m \in Models |-> "off"]
    /\ status = "alive"
    /\ misses = 0
    /\ stopper = "none"
    /\ launches = 0
    /\ orphanReq = {} /\ lostWorker = {} /\ lostHead = {}
    /\ streak = 0

-----------------------------------------------------------------------------
(* Helpers.                                                                *)

\* send_signal: a head that runs is told to end; one that has ended is unaffected
Signalled(h, m) == [h EXCEPT ![m] = IF @ = "up" THEN "term" ELSE @]

\* run(stop_worker_argv): its result is ignored, so a failed ssh is silent
StopWorkerCall ==
    \/ /\ worker' = [worker EXCEPT ![cur] = FALSE]
       /\ lostWorker' = IF cur \in orphanReq THEN lostWorker
                                             ELSE lostWorker \ {cur}
       /\ UNCHANGED orphanReq
    \/ /\ SshFails
       /\ lostWorker' = lostWorker \cup {cur}
       /\ UNCHANGED <<worker, orphanReq>>

-----------------------------------------------------------------------------
(* llama-swap: run the model's cmd.  It waits for cmdStop and for the      *)
(* previous launcher to end first.                                         *)
Launch(m) ==
    /\ pc = "none"
    /\ stopper \in {"none", "done"}
    /\ launches < MaxLaunches
    /\ pc' = "boot"
    /\ cur' = m
    /\ sig' = FALSE /\ proc' = FALSE /\ died' = FALSE
    /\ status' = "alive"
    /\ misses' = 0
    /\ streak' = 0
    /\ stopper' = "none"
    /\ launches' = launches + 1
    /\ UNCHANGED <<remote, heads>>

\* main_cluster installs the handlers before anything else
InstallAbort ==
    /\ pc = "boot"
    /\ pc' = "preflight"
    /\ UNCHANGED <<cur, local, remote, heads, stopper, launches, streak>>

\* the read-only checks of cluster_preflight: any may be fatal
Preflight ==
    /\ pc = "preflight"
    /\ pc' \in {"none", "rm_head"}
    /\ UNCHANGED <<cur, local, remote, heads, stopper, launches, streak>>

RemoveStaleHead ==
    /\ pc = "rm_head"
    /\ pc' = "rm_worker"
    /\ head' = [head EXCEPT ![cur] = "off"]
    /\ lostHead' = lostHead \ {cur}
    /\ UNCHANGED <<cur, local, remote, stopper, launches, streak>>

RemoveStaleWorker ==
    /\ pc = "rm_worker"
    /\ pc' = "sizing"
    /\ \/ /\ worker' = [worker EXCEPT ![cur] = FALSE]
          /\ lostWorker' = IF cur \in orphanReq THEN lostWorker
                                                ELSE lostWorker \ {cur}
       \/ SshFails /\ UNCHANGED <<worker, lostWorker>>
    /\ UNCHANGED <<cur, local, orphanReq, heads, stopper, launches, streak>>

\* worker meminfo, local sizing with reclaim, both nodes' plan: any is fatal
SizeBoth ==
    /\ pc = "sizing"
    /\ pc' \in {"none", "check_worker"}
    /\ UNCHANGED <<cur, local, remote, heads, stopper, launches, streak>>

\* slip: the signal recorded during preflight and sizing is not looked at
WorkerWithoutCheck ==
    /\ pc = "check_worker"
    /\ pc' = "await"
    /\ UNCHANGED <<cur, local, remote, heads, stopper, launches, streak>>

\* run_cluster: the last look at the signal before the worker is asked for
CheckBeforeWorker ==
    /\ pc = "check_worker"
    /\ pc' = IF sig THEN "none" ELSE "await"
    /\ UNCHANGED <<cur, local, remote, heads, stopper, launches, streak>>

(* run(worker_argv) returns.  The container started, or did not (docker    *)
(* error, name taken), and the answer may be lost on the way back; when    *)
(* ssh breaks the request may still be executing on the worker.            *)
WorkerRunReturns ==
    /\ pc = "await"
    /\ \/ /\ ~worker[cur]
          /\ worker' = [worker EXCEPT ![cur] = TRUE]
          /\ pc' \in {"check_head"} \cup (IF SshFails THEN {"fail_stop"} ELSE {})
          /\ UNCHANGED <<orphanReq, lostWorker>>
       \/ /\ pc' = "fail_stop"
          /\ UNCHANGED remote
       \/ /\ SshFails
          /\ pc' = "fail_stop"
          /\ orphanReq' = orphanReq \cup {cur}
          /\ lostWorker' = lostWorker \cup {cur}
          /\ UNCHANGED worker
    /\ UNCHANGED <<cur, local, heads, stopper, launches, streak>>

\* rc # 0: stop the worker all the same, then _fatal
StopAfterFailedRun ==
    /\ pc = "fail_stop"
    /\ pc' = "none"
    /\ StopWorkerCall
    /\ UNCHANGED <<cur, local, heads, stopper, launches, streak>>

\* slip: the abort returns from outside the try/finally
AbortOutsideTry ==
    /\ pc = "check_head"
    /\ pc' = IF sig THEN "none" ELSE "popen"
    /\ UNCHANGED <<cur, local, remote, heads, stopper, launches, streak>>

CheckBeforeHead ==
    /\ pc = "check_head"
    /\ pc' = IF sig THEN "cleanup" ELSE "popen"
    /\ UNCHANGED <<cur, local, remote, heads, stopper, launches, streak>>

\* popen(head_argv): the child runs, fails at once, or cannot be created
StartHead ==
    /\ pc = "popen"
    /\ \/ /\ pc' = "assign"
          /\ head[cur] = "off"
          /\ head' = [head EXCEPT ![cur] = "up"]
       \/ /\ pc' \in {"assign", "cleanup"}
          /\ UNCHANGED head
    /\ UNCHANGED <<cur, local, remote, lostHead, stopper, launches, streak>>

\* state["proc"] = proc
AssignProc ==
    /\ pc = "assign"
    /\ pc' = "recheck"
    /\ proc' = TRUE
    /\ UNCHANGED <<cur, sig, status, misses, died, remote, heads, stopper,
                   launches, streak>>

\* slip: the signal is not looked at again after the assignment
RecheckForgets ==
    /\ pc = "recheck"
    /\ pc' = "wait"
    /\ UNCHANGED <<cur, local, remote, heads, stopper, launches, streak>>

\* a signal that came before the assignment is forwarded here
Recheck ==
    /\ pc = "recheck"
    /\ pc' = "wait"
    /\ head' = IF sig THEN Signalled(head, cur) ELSE head
    /\ UNCHANGED <<cur, local, remote, lostHead, stopper, launches, streak>>

-----------------------------------------------------------------------------
(* _wait_head.                                                             *)

\* proc.wait returns: the child has ended
HeadEnded ==
    /\ pc \in {"wait", "wait_end"}
    /\ head[cur] = "off"
    /\ pc' = "cleanup"
    /\ UNCHANGED <<cur, local, remote, heads, stopper, launches, streak>>

\* slip: a signalled head is not waited for
LeavesSignalledHead ==
    /\ pc = "wait"
    /\ head[cur] # "off"
    /\ pc' = IF sig THEN "cleanup" ELSE "poll"
    /\ UNCHANGED <<cur, local, remote, heads, stopper, launches, streak>>

\* slip: the worker is never polled
NeverPolls ==
    /\ pc = "wait"
    /\ head[cur] # "off"
    /\ pc' = IF sig THEN "wait_end" ELSE "wait"
    /\ UNCHANGED <<cur, local, remote, heads, stopper, launches, streak>>

\* the interval is over and the head runs
WaitTimesOut ==
    /\ pc = "wait"
    /\ head[cur] # "off"
    /\ pc' = IF sig THEN "wait_end" ELSE "poll"
    /\ UNCHANGED <<cur, local, remote, heads, stopper, launches, streak>>

\* _worker_status over ssh; with --rm a container that ended is "gone"
PollWorker ==
    /\ pc = "poll"
    /\ pc' = "polled"
    /\ \/ status' = IF worker[cur] THEN "alive" ELSE "gone"
       \/ SshFails /\ status' = "unknown"
    /\ streak' = IF status' # "unknown" THEN 0
                 ELSE IF streak < PollMisses THEN streak + 1 ELSE streak
    /\ UNCHANGED <<cur, sig, proc, misses, died, remote, heads, stopper, launches>>

\* slip: one miss too many is allowed
TrustsWorkerLonger ==
    status = "alive" \/ (status = "unknown" /\ misses < PollMisses)

\* the answer is no reason to stop the head (yet)
TrustsWorker ==
    status = "alive" \/ (status = "unknown" /\ misses + 1 < PollMisses)

\* slip: an "alive" does not clear the misses
KeepsMisses == IF status = "alive" THEN misses ELSE misses + 1

\* the misses after such an answer
Missed == IF status = "alive" THEN 0 ELSE misses + 1

JudgeWorker ==
    /\ pc = "polled"
    /\ IF sig
         THEN pc' = "wait" /\ UNCHANGED <<misses, died, head>>
       ELSE IF TrustsWorker
         THEN pc' = "wait" /\ misses' = Missed /\ UNCHANGED <<died, head>>
       ELSE /\ pc' = "wait_end"
            /\ died' = TRUE
            /\ head' = Signalled(head, cur)
            /\ UNCHANGED misses
    /\ UNCHANGED <<cur, sig, proc, status, remote, lostHead, stopper, launches, streak>>

\* the finally of run_cluster, then the process exits
Cleanup ==
    /\ pc = "cleanup"
    /\ pc' = "none"
    /\ StopWorkerCall
    /\ UNCHANGED <<cur, local, heads, stopper, launches, streak>>

LauncherStep ==
    \/ InstallAbort \/ Preflight \/ RemoveStaleHead \/ RemoveStaleWorker
    \/ SizeBoth \/ CheckBeforeWorker \/ WorkerRunReturns \/ StopAfterFailedRun
    \/ CheckBeforeHead \/ StartHead \/ AssignProc \/ Recheck
    \/ HeadEnded \/ WaitTimesOut \/ PollWorker \/ JudgeWorker \/ Cleanup

-----------------------------------------------------------------------------
(* cmdStop: stop_cluster, run by llama-swap to unload the model.           *)

Unload ==
    /\ pc # "none"
    /\ stopper = "none"
    /\ stopper' = "term"
    /\ UNCHANGED <<pc, cur, local, remote, heads, launches, streak>>

(* kill(pid, SIGTERM) and the launcher's handler.  Before install_abort    *)
(* the signal ends the process; an ended process is an OSError.            *)
SignalLauncher ==
    /\ stopper = "term"
    /\ stopper' = "worker"
    /\ pc' = IF pc = "boot" THEN "none" ELSE pc
    /\ sig' = (sig \/ pc \notin {"none", "boot"})
    /\ head' = IF pc # "none" /\ proc THEN Signalled(head, cur) ELSE head
    /\ UNCHANGED <<cur, proc, status, misses, died, remote, lostHead, launches,
                   streak>>

StopperStopsWorker ==
    /\ stopper = "worker"
    /\ stopper' = "head"
    /\ \/ worker' = [worker EXCEPT ![cur] = FALSE]
       \/ SshFails /\ UNCHANGED worker
    /\ UNCHANGED <<pc, cur, local, orphanReq, lostWorker, heads, launches, streak>>

\* docker stop returns once the container is gone
StopperStopsHead ==
    /\ stopper = "head"
    /\ stopper' = "done"
    /\ head' = [head EXCEPT ![cur] = "off"]
    /\ UNCHANGED <<pc, cur, local, remote, lostHead, launches, streak>>

StopperStep == SignalLauncher \/ StopperStopsWorker \/ StopperStopsHead

-----------------------------------------------------------------------------
(* What the launcher cannot control.                                       *)

(* SIGKILL: the escalation once cmdStop has returned, or llama-swap's own  *)
(* container going away.  Nothing of the finally runs, and a `docker run`  *)
(* already handed to the worker goes on.                                   *)
KillLauncher ==
    /\ Kills
    /\ pc # "none"
    /\ pc' = "none"
    /\ orphanReq' = IF pc = "await" THEN orphanReq \cup {cur} ELSE orphanReq
    /\ lostWorker' = IF pc \in Started THEN lostWorker \cup {cur} ELSE lostWorker
    /\ lostHead' = IF pc \in HeadRuns THEN lostHead \cup {cur} ELSE lostHead
    /\ UNCHANGED <<cur, local, worker, head, stopper, launches, streak>>

OrphanRunCompletes(m) ==
    /\ m \in orphanReq
    /\ orphanReq' = orphanReq \ {m}
    /\ worker' = [worker EXCEPT ![m] = TRUE]
    /\ UNCHANGED <<pc, cur, local, lostWorker, heads, stopper, launches, streak>>

WorkerExits(m) ==
    /\ worker[m]
    /\ worker' = [worker EXCEPT ![m] = FALSE]
    /\ UNCHANGED <<pc, cur, local, orphanReq, lostWorker, heads, stopper,
                   launches, streak>>

HeadExits(m) ==
    /\ head[m] = "up"
    /\ head' = [head EXCEPT ![m] = "off"]
    /\ UNCHANGED <<pc, cur, local, remote, lostHead, stopper, launches, streak>>

(* A head that was told to end does.  It need not: until a process with a  *)
(* handler for SIGTERM is the container's first one, the signal is ignored *)
(* there, and the head goes on to the torch.distributed timeout.           *)
HeadTerminates(m) ==
    /\ head[m] = "term"
    /\ head' = [head EXCEPT ![m] = "off"]
    /\ UNCHANGED <<pc, cur, local, remote, lostHead, stopper, launches, streak>>

Environment ==
    \/ KillLauncher
    \/ \E m \in Models :
         \/ OrphanRunCompletes(m) \/ WorkerExits(m)
         \/ HeadExits(m) \/ HeadTerminates(m)

Next ==
    \/ \E m \in Models : Launch(m)
    \/ Unload
    \/ LauncherStep
    \/ StopperStep
    \/ Environment

(* The launcher and cmdStop run, and the `docker stop` of cmdStop kills a  *)
(* head that ignores SIGTERM.  Nothing is assumed of the head, which the   *)
(* launcher itself signals once and then waits for without a limit, nor of *)
(* crashes, kills or llama-swap's decisions.                               *)
Fairness == WF_vars(LauncherStep) /\ WF_vars(StopperStep)

Spec == Init /\ [][Next]_vars
FairSpec == Spec /\ Fairness

-----------------------------------------------------------------------------
(* Properties.                                                             *)

(* A stop is never lost: once the launcher waits for a head and the signal *)
(* has been recorded, the head was told to end, whether the signal came    *)
(* before popen, between popen and the assignment, or later.               *)
SignalReachesHead == pc \in Waiting /\ sig => head[cur] # "up"

(* A worker container outlives its launcher only when a failed ssh or a    *)
(* SIGKILL left it; the next launch of that model that reaches the worker  *)
(* takes it away.                                                          *)
NoLeftoverWorker ==
    \A m \in Models :
        worker[m] => m \in lostWorker \/ (m = cur /\ pc \in Started)

(* The launcher leaves only after its head ended, so a head without a      *)
(* launcher is one a SIGKILL left, until the model's next launch.          *)
NoLeftoverHead ==
    \A m \in Models :
        head[m] # "off" => m \in lostHead \/ (m = cur /\ pc \in HeadRuns)

(* A serving head is taken down by the poller only if the last poll saw    *)
(* the worker gone or the last PollMisses polls all went unanswered.       *)
HeadStoppedForCause == died => status = "gone" \/ streak >= PollMisses

\* a head that was told to end does: a hypothesis, nothing in the code makes it
HeadsHeed == \A m \in Models : WF_vars(HeadTerminates(m))

(* A worker's death is answered, however many polls go unanswered: its     *)
(* head is told to end, unless a SIGKILL takes the launcher or a stale     *)
(* request brings a container of the same name up again first; and if      *)
(* heads heed SIGTERM the launch is over, with its finally, instead of     *)
(* waiting for a peer that will not come.  Without that it may last until  *)
(* torch.distributed times out, for the launcher signals once only.        *)
WorkerDied == pc \in Waiting /\ ~worker[cur]
WorkerDeathEndsSession ==
    /\ WorkerDied ~> (head[cur] # "up" \/ cur \in lostHead \/ worker[cur])
    /\ HeadsHeed => (WorkerDied ~> (pc = "none" \/ worker[cur]))

(* cmdStop ends the launch it was run for, wherever the launch is, and     *)
(* leaves no head and no worker behind, save a worker out of ssh's reach:  *)
(* also if the head ignores SIGTERM, since `docker stop` kills it.  Only   *)
(* a head that starts after that has looked for it has nothing but the     *)
(* signal the launcher forwards, and the launch lasts as long as it does.  *)
StopEndsSession ==
    (stopper = "term") ~>
        \/ /\ pc = "none"
           /\ head[cur] = "off" \/ cur \in lostHead
           /\ ~worker[cur] \/ cur \in lostWorker
        \/ stopper = "done" /\ head[cur] = "term"

(* The launcher keeps the session contract: no container is committed to   *)
(* once a stop was seen coming, and a session asked to stop closes, if     *)
(* heads heed SIGTERM.                                                     *)
Stage ==
    CASE pc = "none" -> "closed"
      [] pc \in {"boot"} \cup Early -> "prepare"
      [] pc \in {"await", "check_head"} -> "worker"
      [] pc \in {"popen"} \cup HeadRuns -> "serve"
      [] pc \in {"fail_stop", "cleanup"} -> "closing"

Session == INSTANCE ClusterSession WITH stage <- Stage, stop <- sig, model <- cur

SessionSafety == Session!Init /\ [][Session!Next]_Session!vars
SessionContract == SessionSafety /\ (HeadsHeed => Session!StopIsHonoured)

(* What the README says of an unload: once cmdStop is done and the         *)
(* launcher has ended, the model's worker container is stopped.            *)
UnloadStopsWorker == stopper = "done" /\ pc = "none" => ~worker[cur]
=============================================================================
