---------------------------- MODULE LaunchSizing ----------------------------
(***************************************************************************)
(* Sizing on the head node as it happens: launches read /proc/meminfo,     *)
(* restart co-tenant containers when memory is short, size again and hand  *)
(* the share to `docker run`, while the co-tenants take jobs and memory    *)
(* and other launches do the same.  The model's container takes its share  *)
(* only later, when vLLM loads.  A two-node launch looks at the worker     *)
(* before any of this and at both nodes once more after it; a single-node  *)
(* one may be unloaded at any time.                                        *)
(***************************************************************************)
EXTENDS GmemSizing, Sequences, FiniteSetsExt

CONSTANTS
    Launches,     \* the launches that may be under way together
    TwoNode,      \* those with NODES=2; their parameters have tp = 2
    WorkerTotal,  \* MemTotal of the worker
    WorkerAvails, \* what its MemAvailable may be
    Unloads,      \* whether llama-swap unloads a model
    Tenants,      \* co-tenant containers
    ParamsOf,     \* a launch's parameters, as GmemSizing takes them
    ReclaimList,  \* a launch's RECLAIM_CONTAINERS
    Margin,       \* RECLAIM_MARGIN_GIB
    BusyPolls,    \* readings RECLAIM_BUSY_WAIT_S allows
    WaitPolls,    \* readings RECLAIM_WAIT_S allows
    NodeTotal,    \* MemTotal
    Baseline,     \* what the host itself uses
    TenantMem,    \* what a co-tenant caches once it has run a job
    Working,      \* the co-tenants that take on jobs, or stop, as launches go on
    StatsFail     \* whether `docker stats` may give no reading

\* a gmem.min that rounds to nothing passes validation, but reserves nothing to load into
ASSUME SizingAssumption ==
    /\ IsFiniteSet(Launches) /\ IsFiniteSet(Tenants)
    /\ \A l \in Launches : ParamsTyped(ParamsOf[l]) /\ RoundDiv(ParamsOf[l].gmin, Parts) > 0
    /\ ReclaimList \in [Launches -> Seq(Tenants)]
    /\ {Margin, BusyPolls, WaitPolls, NodeTotal, Baseline, TenantMem} \subseteq Nat
    /\ {StatsFail, Unloads} \subseteq BOOLEAN
    /\ Working \subseteq Tenants
    /\ \A l \in Launches : BufferCovers(ParamsOf[l], [total |-> NodeTotal])
    /\ TwoNode \subseteq Launches /\ WorkerTotal \in Nat
    /\ WorkerAvails \subseteq 0..WorkerTotal
    /\ \A l \in TwoNode : BufferCovers(ParamsOf[l], [total |-> WorkerTotal])

VARIABLES
    pc,        \* where each launch is
    todo,      \* containers its reclaim has still to look at
    restarted, \* it restarted at least one
    waited,    \* polls made in its current wait
    worker,    \* its reading of the worker, which it takes once
    seen,      \* the reading its plan was made from
    plan,      \* its gmem and mode
    held,      \* memory its model holds
    stopped,   \* its cmdStop ran before it had a container to stop
    running,   \* co-tenants that run
    job,       \* the co-tenant's job: none, one light on CPU, or a heavy one
    cached,    \* memory the co-tenant holds
    freeing,   \* co-tenants restarted or stopped: that memory will come back
    \* history, read by the properties only
    overtaken  \* launches whose plan stood when something else took memory

launch  == <<todo, restarted, waited, worker, seen, plan, held, stopped>>
tenants == <<running, job, cached, freeing>>
vars == <<pc, launch, tenants, overtaken>>

NoPlan == [mode |-> "ERR", gmem |-> 0]
NoReading == [total |-> 0, avail |-> 0]
Jobs   == {"none", "light", "heavy"}

SumOf(f, S) == MapThenSumSet(LAMBDA x : f[x], S)

Used == Baseline + SumOf(cached, Tenants) + SumOf(held, Launches)

\* MemAvailable is never below zero, whatever is over-committed
Reading ==
    LET left == NodeTotal - Used
    IN  [total |-> NodeTotal, avail |-> IF left \in 0..NodeTotal THEN left ELSE 0]

Init ==
    /\ pc = [l \in Launches |-> IF l \in TwoNode THEN "worker" ELSE "start"]
    /\ todo = ReclaimList
    /\ restarted = [l \in Launches |-> FALSE]
    /\ waited = [l \in Launches |-> 0]
    /\ worker = [l \in Launches |-> NoReading]
    /\ seen = [l \in Launches |-> NoReading]
    /\ plan = [l \in Launches |-> NoPlan]
    /\ held = [l \in Launches |-> 0]
    /\ stopped = {}
    /\ running \in SUBSET Tenants
    /\ job \in [Tenants -> Jobs]
    /\ \A t \in Tenants \ running : job[t] = "none"
    /\ cached \in [Tenants -> {0, TenantMem}]
    /\ \A t \in Tenants : cached[t] > 0 <=> t \in running
    /\ freeing = {}
    /\ overtaken = {}

-----------------------------------------------------------------------------
(* One launch: the worker's reading, _size_local, reclaim_and_recompute,   *)
(* both nodes' plan, then the container.                                   *)

Goto(l, where) == pc' = [pc EXCEPT ![l] = where]

\* read_meminfo and compute_gmem
SizeNow(l) ==
    /\ seen' = [seen EXCEPT ![l] = Reading]
    /\ plan' = [plan EXCEPT ![l] = Plan(ParamsOf[l], seen'[l])]
    /\ overtaken' = overtaken \ {l}

\* the launches whose share is settled
Settled == {l \in Launches : pc[l] \in {"run", "up", "left"}}

\* a launch that is over; what it left may still run
Over == {"fatal", "gone", "left"}

\* slip: a sizing that failed is launched anyway
LaunchesAnyway(l, p) == "run"

\* where _size_local leads: a two-node launch sizes both nodes next
Verdict(l, p) ==
    IF p.mode = "ERR" THEN "fatal" ELSE IF l \in TwoNode THEN "pair" ELSE "run"

\* slip: the worker is looked at, but a short one is left for later
WorkerJudgedLater(l) ==
    /\ pc[l] = "worker"
    /\ \E avail \in WorkerAvails :
         worker' = [worker EXCEPT ![l] = [total |-> WorkerTotal, avail |-> avail]]
    /\ Goto(l, "start")
    /\ UNCHANGED <<todo, restarted, waited, seen, plan, held, stopped, tenants, overtaken>>

(* read_worker_meminfo and the worker's own plan: an unreadable or a short *)
(* worker ends the launch before the head is touched.                      *)
ReadWorker(l) ==
    /\ pc[l] = "worker"
    /\ \/ Goto(l, "fatal") /\ UNCHANGED worker
       \/ \E avail \in WorkerAvails :
            LET mi == [total |-> WorkerTotal, avail |-> avail] IN
            /\ worker' = [worker EXCEPT ![l] = mi]
            /\ Goto(l, IF Plan(ParamsOf[l], mi).mode = "ERR" THEN "fatal" ELSE "start")
    /\ UNCHANGED <<todo, restarted, waited, seen, plan, held, stopped, tenants, overtaken>>

FirstSizing(l) ==
    /\ pc[l] = "start"
    /\ SizeNow(l)
    /\ Goto(l, IF ReclaimList[l] # <<>> /\ Short(ParamsOf[l], seen'[l], Margin)
                 THEN "inspect" ELSE Verdict(l, plan'[l]))
    /\ UNCHANGED <<todo, restarted, waited, worker, held, stopped, tenants>>

\* docker inspect: a container that does not run is passed over
Inspect(l) ==
    /\ pc[l] = "inspect"
    /\ IF todo[l] = <<>>
         THEN Goto(l, "resize") /\ UNCHANGED todo
       ELSE IF Head(todo[l]) \in running
         THEN Goto(l, "stats") /\ UNCHANGED todo
       ELSE todo' = [todo EXCEPT ![l] = Tail(@)] /\ UNCHANGED pc
    /\ waited' = [waited EXCEPT ![l] = 0]
    /\ UNCHANGED <<restarted, worker, seen, plan, held, stopped, tenants, overtaken>>

\* slip: a busy container is waited for without end
WaitsForIdle(l) ==
    /\ pc[l] = "stats"
    /\ IF job[Head(todo[l])] = "heavy" THEN UNCHANGED pc ELSE Goto(l, "restart")
    /\ UNCHANGED <<launch, tenants, overtaken>>

(* _wait_until_idle: one reading of the container's CPU.  No reading       *)
(* counts as idle.                                                         *)
ReadCpu(l) ==
    /\ pc[l] = "stats"
    /\ \/ /\ StatsFail \/ job[Head(todo[l])] # "heavy"
          /\ Goto(l, "restart")
          /\ UNCHANGED <<todo, waited>>
       \/ /\ job[Head(todo[l])] = "heavy"
          /\ IF waited[l] >= BusyPolls
               THEN /\ Goto(l, "inspect")
                    /\ todo' = [todo EXCEPT ![l] = Tail(@)]
                    /\ UNCHANGED waited
               ELSE /\ waited' = [waited EXCEPT ![l] = @ + 1]
                    /\ UNCHANGED <<pc, todo>>
    /\ UNCHANGED <<restarted, worker, seen, plan, held, stopped, tenants, overtaken>>

\* slip: a restarted container stays on the list
RestartsAgain(l) ==
    /\ pc[l] = "restart"
    /\ Goto(l, "inspect")
    /\ running' = running \cup {Head(todo[l])}
    /\ job' = [job EXCEPT ![Head(todo[l])] = "none"]
    /\ restarted' = [restarted EXCEPT ![l] = TRUE]
    /\ freeing' = freeing \cup {Head(todo[l])}
    /\ UNCHANGED <<todo, waited, worker, seen, plan, held, stopped, cached, overtaken>>

(* docker restart: whatever the container was doing is over, and it runs   *)
(* afterwards even if it had been stopped; its memory comes back later.    *)
Restart(l) ==
    /\ pc[l] = "restart"
    /\ Goto(l, "inspect")
    /\ running' = running \cup {Head(todo[l])}
    /\ job' = [job EXCEPT ![Head(todo[l])] = "none"]
    /\ todo' = [todo EXCEPT ![l] = Tail(@)]
    /\ restarted' = [restarted EXCEPT ![l] = TRUE]
    /\ freeing' = freeing \cup {Head(todo[l])}
    /\ UNCHANGED <<waited, worker, seen, plan, held, stopped, cached, overtaken>>

\* slip: one poll more than RECLAIM_WAIT_S allows
WaitsOnceMore(l) ==
    /\ pc[l] = "resize"
    /\ SizeNow(l)
    /\ IF restarted[l] /\ plan'[l].mode = "ERR" /\ waited[l] <= WaitPolls
         THEN waited' = [waited EXCEPT ![l] = @ + 1] /\ UNCHANGED pc
         ELSE Goto(l, Verdict(l, plan'[l])) /\ UNCHANGED waited
    /\ UNCHANGED <<todo, restarted, worker, held, stopped, tenants>>

\* compute again, and while it fails wait for the restarted containers
Resize(l) ==
    /\ pc[l] = "resize"
    /\ SizeNow(l)
    /\ IF restarted[l] /\ plan'[l].mode = "ERR" /\ waited[l] < WaitPolls
         THEN waited' = [waited EXCEPT ![l] = @ + 1] /\ UNCHANGED pc
         ELSE Goto(l, Verdict(l, plan'[l])) /\ UNCHANGED waited
    /\ UNCHANGED <<todo, restarted, worker, held, stopped, tenants>>

(* size_cluster: the head's memory is read once more, the worker's is not, *)
(* and both nodes get the smaller share.                                   *)
SizePair(l) ==
    /\ pc[l] = "pair"
    /\ seen' = [seen EXCEPT ![l] = Reading]
    /\ plan' = [plan EXCEPT ![l] = ClusterPlan(ParamsOf[l], seen'[l], worker[l])]
    /\ overtaken' = overtaken \ {l}
    /\ Goto(l, IF plan'[l].mode = "ERR" THEN "fatal" ELSE "run")
    /\ UNCHANGED <<todo, restarted, waited, worker, held, stopped, tenants>>

Share(l) ==
    (plan[l].gmem * Total(ParamsOf[l], seen[l])) \div 100 + ParamsOf[l].overhead

\* run_cluster finds that a signal has come
Abort(l) ==
    /\ pc[l] = "run" /\ l \in TwoNode \cap stopped
    /\ Goto(l, "gone")
    /\ UNCHANGED <<launch, tenants, overtaken>>

\* slip: the signal is not looked at before the containers start
LoadsAnyway(l) ==
    /\ pc[l] = "run"
    /\ Goto(l, "up")
    /\ held' = [held EXCEPT ![l] = Share(l)]
    /\ overtaken' = overtaken \cup (Settled \ {l})
    /\ UNCHANGED <<todo, restarted, waited, worker, seen, plan, stopped, tenants>>

(* The `docker run`, by execvp or by run_cluster; then vLLM takes gmem of  *)
(* the capped total and the CUDA overhead comes on top.                    *)
Load(l) ==
    /\ pc[l] = "run" /\ l \notin TwoNode \cap stopped
    /\ Goto(l, "up")
    /\ held' = [held EXCEPT ![l] = Share(l)]
    /\ overtaken' = overtaken \cup (Settled \ {l})
    /\ UNCHANGED <<todo, restarted, waited, worker, seen, plan, stopped, tenants>>

LaunchStep(l) ==
    \/ ReadWorker(l) \/ FirstSizing(l) \/ Inspect(l) \/ ReadCpu(l) \/ Restart(l)
    \/ Resize(l) \/ SizePair(l) \/ Abort(l) \/ Load(l)

-----------------------------------------------------------------------------
(* llama-swap unloads a model.                                             *)

(* cmdStop.  A model that is up is stopped; how that goes at two nodes is  *)
(* ClusterLaunch.  Earlier, `docker stop` of a single-node model finds no  *)
(* container and does nothing, and the SIGTERM of `launch.py --stop` is    *)
(* noted by the two-node launcher.                                         *)
Unload(l) ==
    /\ Unloads /\ pc[l] \notin Over /\ l \notin stopped
    /\ IF pc[l] = "up"
         THEN /\ Goto(l, "gone")
              /\ held' = [held EXCEPT ![l] = 0]
              /\ UNCHANGED stopped
         ELSE stopped' = stopped \cup {l} /\ UNCHANGED <<pc, held>>
    /\ UNCHANGED <<todo, restarted, waited, worker, seen, plan, tenants, overtaken>>

(* SIGKILL of the process, unloadTimeout after a cmdStop that ended        *)
(* nothing: of the launcher, or of the docker client it has become, whose  *)
(* container lives on.                                                     *)
Kill(l) ==
    /\ l \in stopped /\ pc[l] \notin Over
    /\ Goto(l, IF pc[l] = "up" THEN "left" ELSE "gone")
    /\ UNCHANGED <<launch, tenants, overtaken>>

-----------------------------------------------------------------------------
(* The co-tenants.                                                         *)

JobStarts(t) ==
    /\ t \in running \cap Working
    /\ job[t] = "none"
    /\ job' = [job EXCEPT ![t] = "light"] \/ job' = [job EXCEPT ![t] = "heavy"]
    /\ cached' = [cached EXCEPT ![t] = TenantMem]
    /\ freeing' = freeing \ {t}
    /\ overtaken' = IF cached[t] < TenantMem THEN overtaken \cup Settled ELSE overtaken
    /\ UNCHANGED <<pc, launch, running>>

JobEnds(t) ==
    /\ job[t] # "none"
    /\ job' = [job EXCEPT ![t] = "none"]
    /\ UNCHANGED <<pc, launch, running, cached, freeing, overtaken>>

MemoryReturns(t) ==
    /\ t \in freeing
    /\ freeing' = freeing \ {t}
    /\ cached' = [cached EXCEPT ![t] = 0]
    /\ UNCHANGED <<pc, launch, running, job, overtaken>>

TenantStops(t) ==
    /\ t \in running \cap Working
    /\ running' = running \ {t}
    /\ job' = [job EXCEPT ![t] = "none"]
    /\ freeing' = freeing \cup {t}
    /\ UNCHANGED <<pc, launch, cached, overtaken>>

Next ==
    \/ \E l \in Launches : LaunchStep(l) \/ Unload(l) \/ Kill(l)
    \/ \E t \in Tenants :
         JobStarts(t) \/ JobEnds(t) \/ MemoryReturns(t) \/ TenantStops(t)

(* A launch is one process with bounded waits; co-tenants owe nothing.     *)
Spec == Init /\ [][Next]_vars /\ \A l \in Launches : WF_vars(LaunchStep(l))

-----------------------------------------------------------------------------
(* Properties.                                                             *)

TypeOK ==
    /\ pc \in [Launches -> {"worker", "start", "inspect", "stats", "restart", "resize",
                            "pair", "run", "up"} \cup Over]
    /\ todo \in [Launches -> Seq(Tenants)]
    /\ restarted \in [Launches -> BOOLEAN]
    /\ waited \in [Launches -> 0..MaxOf(BusyPolls, WaitPolls)]
    /\ worker \in [Launches -> [total : Nat, avail : Nat]]
    /\ seen \in [Launches -> [total : Nat, avail : Nat]]
    /\ plan \in [Launches -> [mode : {"ERR", "sized", "fallback"}, gmem : 0..100]]
    /\ held \in [Launches -> Nat]
    /\ stopped \subseteq Launches
    /\ running \subseteq Tenants
    /\ job \in [Tenants -> Jobs]
    /\ cached \in [Tenants -> {0, TenantMem}]
    /\ freeing \subseteq Tenants
    /\ overtaken \subseteq Launches

(* The share a container is started with keeps the node under the ceiling  *)
(* by the very reading it was computed from, however often the reclaim     *)
(* read again in between; and at two nodes it keeps the worker under its   *)
(* own by the one reading that was taken of it before all that.            *)
PlanMatchesReading ==
    \A l \in Launches :
        pc[l] \in {"run", "up", "left"} =>
            /\ plan[l].mode # "ERR"
            /\ WithinCeiling(ParamsOf[l], seen[l], plan[l].gmem)
            /\ l \in TwoNode => WithinCeiling(ParamsOf[l], worker[l], plan[l].gmem)

(* Containers are restarted only by a launch that was short of memory when *)
(* it first looked, and never for a model its worker has no room for.      *)
RestartsOnlyWhenShort ==
    [][\A l \in Launches :
          restarted'[l] /\ ~restarted[l] =>
              /\ Short(ParamsOf[l], seen[l], Margin)
              /\ l \in TwoNode => Plan(ParamsOf[l], worker[l]).mode # "ERR"]_vars

(* Once llama-swap is through with a launch its model holds no memory on   *)
(* this node, whenever the stop came and however it was escalated; except  *)
(* a single-node model that was stopped before its container was there.    *)
OverIsOver ==
    \A l \in Launches :
        pc[l] \in Over /\ held[l] > 0 => l \in stopped \ TwoNode

(* The most steps a launch may still take, its unload included: for each   *)
(* container a look, BusyPolls waits and a restart; then the waits for the *)
(* memory, the plans and the start.                                        *)
ResizeSteps == WaitPolls + 4
ReclaimSteps(n) == n * (BusyPolls + 3) + 1 + ResizeSteps

StepsLeft(l) ==
    LET n == Len(todo[l])
    IN  CASE pc[l] = "worker"  -> ReclaimSteps(n) + 2
          [] pc[l] = "start"   -> ReclaimSteps(n) + 1
          [] pc[l] = "inspect" -> ReclaimSteps(n)
          [] pc[l] = "stats"   -> ReclaimSteps(n - 1) + 2 + (BusyPolls - waited[l])
          [] pc[l] = "restart" -> ReclaimSteps(n - 1) + 1
          [] pc[l] = "resize"  -> ResizeSteps - waited[l]
          [] pc[l] = "pair"    -> 3
          [] pc[l] = "run"     -> 2
          [] pc[l] = "up"      -> 1
          [] pc[l] \in Over    -> 0

(* No wait starts over: each step of a launch uses up one of a number that *)
(* its configuration alone fixes, whatever the co-tenants, the other       *)
(* launches and llama-swap do meanwhile.                                   *)
StepsAreCounted ==
    [][\A l \in Launches :
          <<pc[l], todo[l], waited[l]>>' # <<pc[l], todo[l], waited[l]>>
            => StepsLeft(l)' \in 0..(StepsLeft(l) - 1)]_vars

(* A launch comes to an end, however long a co-tenant stays busy and       *)
(* whether or not the memory comes back.                                   *)
LaunchEnds == \A l \in Launches : []<>(pc[l] \in {"up"} \cup Over)

(* SYSTEM_RAM_CEILING_GIB, once the model is up: the node's use, reclaims  *)
(* and memory that came back included, stays under the ceiling as long as  *)
(* nothing else took memory after the launch had sized.  Only another      *)
(* launch under way at the same time, or a co-tenant's job, does.          *)
NodeUnderCeiling ==
    \A l \in Launches :
        pc[l] \in {"up", "left"} /\ l \notin overtaken => Used <= Capped(ParamsOf[l], Reading)
=============================================================================
