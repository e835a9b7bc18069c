------------------------- MODULE LaunchSizingProofs -------------------------
(***************************************************************************)
(* What holds of every launch, for any number of launches, co-tenants and  *)
(* readings: the share it starts its container with, when it restarts the  *)
(* co-tenants' containers, and what it leaves behind.                      *)
(***************************************************************************)
EXTENDS LaunchSizing, GmemSizingProofs, FiniteSetTheorems, WellFoundedInduction

PlanType == [mode : {"ERR", "sized", "fallback"}, gmem : 0..100]
Started  == {"run", "up", "left"}

(* A launch that goes on has a plan that belongs to its readings.          *)
Fit(l) ==
    pc[l] \in Started =>
        /\ ReadingOK(seen[l]) /\ seen[l].total = NodeTotal
        /\ plan[l].mode # "ERR"
        /\ plan[l] = IF l \in TwoNode THEN ClusterPlan(ParamsOf[l], seen[l], worker[l])
                     ELSE Plan(ParamsOf[l], seen[l])

(* Past its first step a two-node launch has a worker with room.           *)
WorkerFits(l) ==
    /\ l \in TwoNode /\ pc[l] \notin {"worker", "fatal", "gone"} =>
         /\ ReadingOK(worker[l]) /\ worker[l].total = WorkerTotal
         /\ Plan(ParamsOf[l], worker[l]).mode # "ERR"
    /\ pc[l] = "pair" => l \in TwoNode

(* While it restarts containers its plan is the one that was too short,    *)
(* and there is a container it looks at.                                   *)
Reclaims(l) ==
    /\ pc[l] \in {"inspect", "stats", "restart"} => Short(ParamsOf[l], seen[l], Margin)
    /\ pc[l] \in {"stats", "restart"} => todo[l] # <<>>

(* Memory belongs to a container; only an early stop leaves one behind.    *)
Stops(l) ==
    /\ held[l] > 0 => pc[l] \in {"up", "left"}
    /\ pc[l] = "left" => l \in stopped \ TwoNode
    /\ pc[l] = "up" => l \notin stopped \cap TwoNode

Own(l) == Fit(l) /\ WorkerFits(l) /\ Reclaims(l) /\ Stops(l)

Inv == TypeOK /\ \A l \in Launches : Own(l)

-----------------------------------------------------------------------------
(* Readings and plans.                                                     *)

LEMMA ReadingSound == ReadingOK(Reading) /\ Reading.total = NodeTotal
<1>1. NodeTotal \in Nat
  BY SizingAssumption
<1> DEFINE left == NodeTotal - Used
<1> HIDE DEF left
<1>2. (IF left \in 0..NodeTotal THEN left ELSE 0) \in 0..NodeTotal
  BY <1>1
<1> QED BY <1>1, <1>2 DEF Reading, ReadingOK, left

LEMMA ReadingTyped == Reading \in [total : Nat, avail : Nat]
<1>1. NodeTotal \in Nat
  BY SizingAssumption
<1> DEFINE left == NodeTotal - Used
<1> HIDE DEF left
<1>2. (IF left \in 0..NodeTotal THEN left ELSE 0) \in Nat
  BY <1>1
<1> QED BY <1>1, <1>2 DEF Reading, left

(* A floor that does not round to nothing is one, and reserves something.  *)
LEMMA FloorReserves ==
    ASSUME NEW l \in Launches
    PROVE  /\ ParamsTyped(ParamsOf[l]) /\ ParamsOf[l].gmin \in Nat \ {0}
           /\ \A mi : ReadingOK(mi) /\ Plan(ParamsOf[l], mi).mode # "ERR" =>
                Plan(ParamsOf[l], mi).gmem \in Nat \ {0}
<1> DEFINE p == ParamsOf[l]
           floor == RoundDiv(p.gmin, Parts)
<1>1. ParamsTyped(p) /\ floor > 0
  BY SizingAssumption
<1>2. p.gmin \in Nat /\ floor \in Nat
  <2>1. p.gmin \in Nat
    BY <1>1 DEF ParamsTyped
  <2> QED BY <2>1, WholeFacts, RoundDivBounds
<1>3. p.gmin # 0
  <2>1. SUFFICES ASSUME p.gmin = 0 PROVE FALSE
    OBVIOUS
  <2>2. 0 \in Nat /\ 0 * Parts = 0
    BY WholeFacts
  <2>3. RoundDiv(0 * Parts, Parts) = 0
    BY <2>2, WholeFacts, RoundDivExact
  <2> QED BY <1>1, <2>1, <2>2, <2>3
<1>4. ASSUME NEW mi, ReadingOK(mi), Plan(p, mi).mode # "ERR"
      PROVE  Plan(p, mi).gmem \in Nat \ {0}
  <2>1. Plan(p, mi).gmem \in Nat /\ floor <= Plan(p, mi).gmem
    BY <1>1, <1>4, RangeRespected
  <2> HIDE DEF floor
  <2> QED BY <1>1, <1>2, <2>1
<1> QED BY <1>1, <1>2, <1>3, <1>4

LEMMA PlanTyped ==
    ASSUME NEW l \in Launches, NEW mi, ReadingOK(mi)
    PROVE  Plan(ParamsOf[l], mi) \in PlanType
<1>1. ParamsTyped(ParamsOf[l])
  BY SizingAssumption
<1>2. CASE Plan(ParamsOf[l], mi).mode = "ERR"
  BY <1>2 DEF Plan, PlanType
<1>3. CASE Plan(ParamsOf[l], mi).mode # "ERR"
  <2>1. Plan(ParamsOf[l], mi).gmem \in 0..100
    BY <1>1, <1>3, RangeRespected, ShareIsAFraction
  <2> QED BY <2>1 DEF Plan, PlanType
<1> QED BY <1>2, <1>3

LEMMA ClusterPlanTyped ==
    ASSUME NEW l \in Launches, NEW head, NEW work, ReadingOK(head), ReadingOK(work)
    PROVE  ClusterPlan(ParamsOf[l], head, work) \in PlanType
<1> DEFINE h == Plan(ParamsOf[l], head)
           w == Plan(ParamsOf[l], work)
<1>1. h \in PlanType /\ w \in PlanType
  BY PlanTyped
<1> HIDE DEF h, w
<1>2. MinOf(h.gmem, w.gmem) \in 0..100
  BY <1>1 DEF PlanType, MinOf
<1>3. ClusterPlan(ParamsOf[l], head, work) =
        IF "ERR" \in {h.mode, w.mode} THEN [mode |-> "ERR", gmem |-> 0]
        ELSE [mode |-> IF "fallback" \in {h.mode, w.mode} THEN "fallback" ELSE "sized",
              gmem |-> MinOf(h.gmem, w.gmem)]
  BY DEF ClusterPlan, h, w
<1> QED BY <1>2, <1>3 DEF PlanType

(* What vLLM then takes is an amount.                                      *)
LEMMA ShareTyped ==
    ASSUME Inv, NEW l \in Launches, pc[l] = "run"
    PROVE  Share(l) \in Nat
<1> DEFINE T == Total(ParamsOf[l], seen[l])
<1>1. /\ ReadingOK(seen[l]) /\ plan[l].mode # "ERR"
      /\ plan[l] = IF l \in TwoNode THEN ClusterPlan(ParamsOf[l], seen[l], worker[l])
                   ELSE Plan(ParamsOf[l], seen[l])
  BY DEF Inv, Own, Fit, Started
<1>2. ParamsTyped(ParamsOf[l])
  BY SizingAssumption
<1>3. Plan(ParamsOf[l], seen[l]).mode # "ERR"
  BY <1>1 DEF ClusterPlan
<1>4. T \in Nat
  BY <1>1, <1>2, <1>3, Quantities DEF Plan, Fits
<1> HIDE DEF T
<1>5. plan[l].gmem \in Nat /\ ParamsOf[l].overhead \in Nat
  <2>1. plan[l] \in [mode : {"ERR", "sized", "fallback"}, gmem : 0..100]
    BY DEF Inv, TypeOK
  <2>2. plan[l].gmem \in 0..100
    BY <2>1
  <2>3. ParamsOf[l].overhead \in Nat
    BY <1>2 DEF ParamsTyped
  <2> QED BY <2>2, <2>3
<1>6. plan[l].gmem * T \in Nat
  BY <1>4, <1>5
<1>7. (plan[l].gmem * T) \div 100 \in Nat
  BY <1>6
<1> QED BY <1>5, <1>7 DEF Share, T

-----------------------------------------------------------------------------
(* A launch whose own part of the state stays as it is keeps what holds of *)
(* it.                                                                     *)
LEMMA OthersKeep ==
    ASSUME NEW k \in Launches, Own(k), pc'[k] = pc[k], todo'[k] = todo[k],
           worker'[k] = worker[k], seen'[k] = seen[k], plan'[k] = plan[k],
           held'[k] = held[k], k \in stopped' <=> k \in stopped
    PROVE  Own(k)'
BY DEF Own, Fit, WorkerFits, Reclaims, Stops

(* A step of one launch leaves the others' parts alone.                    *)
LEMMA OneLaunch ==
    ASSUME Inv, TypeOK', NEW l \in Launches, LaunchStep(l) \/ Unload(l) \/ Kill(l),
           Own(l)'
    PROVE  Inv'
<1>1. SUFFICES ASSUME NEW k \in Launches, k # l PROVE Own(k)'
  BY DEF Inv
<1>2. /\ pc'[k] = pc[k] /\ todo'[k] = todo[k]
      /\ worker'[k] = worker[k] /\ seen'[k] = seen[k] /\ plan'[k] = plan[k]
      /\ held'[k] = held[k] /\ (k \in stopped' <=> k \in stopped)
  <2> DEFINE IsFun(f) == f = [x \in Launches |-> f[x]]
  <2>0. IsFun(pc) /\ IsFun(todo) /\ IsFun(worker) /\ IsFun(seen) /\ IsFun(plan) /\ IsFun(held)
    BY DEF Inv, TypeOK
  <2>1. CASE ReadWorker(l)
    BY <1>1, <2>0, <2>1 DEF ReadWorker, Goto
  <2>2. CASE FirstSizing(l)
    BY <1>1, <2>0, <2>2 DEF FirstSizing, SizeNow, Goto
  <2>3. CASE Inspect(l)
    BY <1>1, <2>0, <2>3 DEF Inspect, Goto
  <2>4. CASE ReadCpu(l)
    BY <1>1, <2>0, <2>4 DEF ReadCpu, Goto
  <2>5. CASE Restart(l)
    BY <1>1, <2>0, <2>5 DEF Restart, Goto
  <2>6. CASE Resize(l)
    BY <1>1, <2>0, <2>6 DEF Resize, SizeNow, Goto
  <2>7. CASE SizePair(l)
    BY <1>1, <2>0, <2>7 DEF SizePair, Goto
  <2>8. CASE Abort(l)
    BY <1>1, <2>0, <2>8 DEF Abort, launch, Goto
  <2>9. CASE Load(l)
    BY <1>1, <2>0, <2>9 DEF Load, Goto
  <2>10. CASE Unload(l)
    BY <1>1, <2>0, <2>10 DEF Unload, Goto
  <2>11. CASE Kill(l)
    BY <1>1, <2>0, <2>11 DEF Kill, launch, Goto
  <2> QED BY <2>1, <2>2, <2>3, <2>4, <2>5, <2>6, <2>7, <2>8, <2>9, <2>10, <2>11 DEF LaunchStep
<1> QED BY <1>2, OthersKeep DEF Inv

-----------------------------------------------------------------------------
(* Each step of a launch keeps its own part.                               *)

LEMMA ReadWorkerKeeps ==
    ASSUME Inv, NEW l \in Launches, ReadWorker(l)
    PROVE  Inv'
<1>1. CASE Goto(l, "fatal") /\ UNCHANGED worker
  <2>1. TypeOK'
    BY <1>1 DEF ReadWorker, Goto, Inv, TypeOK, tenants, Over
  <2>2. Own(l)'
    BY <1>1 DEF ReadWorker, Goto, Inv, TypeOK, Own, Fit, Started, WorkerFits, Reclaims, Stops
  <2> QED BY <2>1, <2>2, OneLaunch DEF LaunchStep
<1>2. ASSUME NEW avail \in WorkerAvails, NEW mi, mi = [total |-> WorkerTotal, avail |-> avail],
             worker' = [worker EXCEPT ![l] = mi],
             Goto(l, IF Plan(ParamsOf[l], mi).mode = "ERR" THEN "fatal" ELSE "start")
      PROVE  Inv'
  <2>1. mi \in [total : Nat, avail : Nat] /\ ReadingOK(mi) /\ mi.total = WorkerTotal
    BY <1>2, SizingAssumption DEF ReadingOK
  <2>2. /\ pc'[l] \in {"fatal", "start"} /\ worker'[l] = mi
        /\ pc'[l] = "start" => Plan(ParamsOf[l], mi).mode # "ERR"
    BY <1>2 DEF Goto, Inv, TypeOK
  <2>3. TypeOK'
    BY <1>2, <2>1 DEF ReadWorker, Goto, Inv, TypeOK, tenants, Over
  <2>4. Own(l)'
    BY <2>1, <2>2 DEF ReadWorker, Inv, Own, Fit, Started, WorkerFits, Reclaims, Stops
  <2> QED BY <2>3, <2>4, OneLaunch DEF LaunchStep
<1> QED BY <1>1, <1>2 DEF ReadWorker

(* A sizing puts a reading and its plan in place and moves the launch to   *)
(* where the plan leads.                                                   *)
LEMMA FirstSizingKeeps ==
    ASSUME Inv, NEW l \in Launches, FirstSizing(l)
    PROVE  Inv'
<1>1. /\ seen'[l] = Reading /\ plan'[l] = Plan(ParamsOf[l], Reading)
      /\ worker'[l] = worker[l] /\ held'[l] = held[l] /\ stopped' = stopped
  BY DEF FirstSizing, SizeNow, Inv, TypeOK
<1>2. \/ pc'[l] = "inspect" /\ Short(ParamsOf[l], Reading, Margin)
      \/ pc'[l] = "fatal"
      \/ pc'[l] = "pair" /\ l \in TwoNode
      \/ pc'[l] = "run" /\ l \notin TwoNode /\ plan'[l].mode # "ERR"
  BY <1>1 DEF FirstSizing, Goto, Verdict, Inv, TypeOK
<1>3. plan'[l] \in PlanType
  BY <1>1, PlanTyped, ReadingSound
<1>4. TypeOK'
  BY <1>1, <1>2, <1>3, ReadingTyped
     DEF FirstSizing, SizeNow, Goto, Inv, TypeOK, tenants, Over, PlanType
<1>5. Own(l)'
  BY <1>1, <1>2, ReadingSound
     DEF FirstSizing, Inv, Own, Fit, Started, WorkerFits, Reclaims, Stops
<1> QED BY <1>4, <1>5, OneLaunch DEF LaunchStep

LEMMA ResizeKeeps ==
    ASSUME Inv, NEW l \in Launches, Resize(l)
    PROVE  Inv'
<1>1. /\ seen'[l] = Reading /\ plan'[l] = Plan(ParamsOf[l], Reading)
      /\ worker'[l] = worker[l] /\ held'[l] = held[l] /\ stopped' = stopped
  BY DEF Resize, SizeNow, Inv, TypeOK
<1>2. \/ pc'[l] = "resize"
      \/ pc'[l] = "fatal"
      \/ pc'[l] = "pair" /\ l \in TwoNode
      \/ pc'[l] = "run" /\ l \notin TwoNode /\ plan'[l].mode # "ERR"
  BY <1>1 DEF Resize, Goto, Verdict, Inv, TypeOK
<1>3. plan'[l] \in PlanType
  BY <1>1, PlanTyped, ReadingSound
<1>4. waited' \in [Launches -> 0..MaxOf(BusyPolls, WaitPolls)]
  <2>1. BusyPolls \in Nat /\ WaitPolls \in Nat
    BY SizingAssumption
  <2>2. \A n \in 0..MaxOf(BusyPolls, WaitPolls) :
           n < WaitPolls => n + 1 \in 0..MaxOf(BusyPolls, WaitPolls)
    BY <2>1 DEF MaxOf
  <2>3. \/ waited' = waited
        \/ waited[l] < WaitPolls /\ waited' = [waited EXCEPT ![l] = @ + 1]
    BY DEF Resize
  <2>4. waited \in [Launches -> 0..MaxOf(BusyPolls, WaitPolls)]
    BY DEF Inv, TypeOK
  <2> QED BY <2>2, <2>3, <2>4
<1>5. /\ pc' = [pc EXCEPT ![l] = pc'[l]]
      /\ seen' = [seen EXCEPT ![l] = seen'[l]] /\ plan' = [plan EXCEPT ![l] = plan'[l]]
      /\ overtaken' = overtaken \ {l}
      /\ UNCHANGED <<todo, restarted, worker, held, stopped, tenants>>
  BY <1>1 DEF Resize, SizeNow, Goto, Inv, TypeOK
<1>6. TypeOK'
  <2>1. pc' \in [Launches -> {"worker", "start", "inspect", "stats", "restart", "resize",
                              "pair", "run", "up"} \cup Over]
    BY <1>2, <1>5 DEF Inv, TypeOK, Over
  <2>2. /\ seen' \in [Launches -> [total : Nat, avail : Nat]]
        /\ plan' \in [Launches -> PlanType]
    BY <1>1, <1>3, <1>5, ReadingTyped DEF Inv, TypeOK, PlanType
  <2> QED BY <1>4, <1>5, <2>1, <2>2 DEF Inv, TypeOK, tenants, PlanType
<1>7. Own(l)'
  BY <1>1, <1>2, ReadingSound
     DEF Resize, Inv, Own, Fit, Started, WorkerFits, Reclaims, Stops
<1> QED BY <1>6, <1>7, OneLaunch DEF LaunchStep

LEMMA SizePairKeeps ==
    ASSUME Inv, NEW l \in Launches, SizePair(l)
    PROVE  Inv'
<1>1. /\ seen'[l] = Reading /\ plan'[l] = ClusterPlan(ParamsOf[l], Reading, worker[l])
      /\ worker'[l] = worker[l] /\ held'[l] = held[l] /\ stopped' = stopped
  BY DEF SizePair, Inv, TypeOK
<1>2. \/ pc'[l] = "fatal"
      \/ pc'[l] = "run" /\ plan'[l].mode # "ERR"
  BY <1>1 DEF SizePair, Goto, Inv, TypeOK
<1>3. l \in TwoNode /\ ReadingOK(worker[l])
  BY DEF SizePair, Inv, Own, WorkerFits
<1>4. plan'[l] \in PlanType
  BY <1>1, <1>3, ClusterPlanTyped, ReadingSound
<1>5. TypeOK'
  BY <1>1, <1>2, <1>4, ReadingTyped DEF SizePair, Goto, Inv, TypeOK, tenants, Over, PlanType
<1>6. Own(l)'
  BY <1>1, <1>2, <1>3, ReadingSound
     DEF SizePair, Inv, Own, Fit, Started, WorkerFits, Reclaims, Stops
<1> QED BY <1>5, <1>6, OneLaunch DEF LaunchStep

LEMMA ReclaimKeeps ==
    ASSUME Inv, NEW l \in Launches, Inspect(l) \/ ReadCpu(l) \/ Restart(l)
    PROVE  Inv'
<1>1. /\ seen'[l] = seen[l] /\ plan'[l] = plan[l] /\ worker'[l] = worker[l]
      /\ held'[l] = held[l] /\ stopped' = stopped
      /\ UNCHANGED <<seen, plan, worker, held, stopped, cached, overtaken>>
  BY DEF Inspect, ReadCpu, Restart, tenants
<1>2. todo[l] \in Seq(Tenants)
  BY DEF Inv, TypeOK
<1>3. CASE Inspect(l)
  <2>1. \/ pc'[l] = "resize" /\ todo' = todo
        \/ pc'[l] = "stats" /\ todo[l] # <<>> /\ todo' = todo
        \/ pc'[l] = "inspect" /\ todo[l] # <<>> /\ todo' = [todo EXCEPT ![l] = Tail(@)]
    BY <1>3 DEF Inspect, Goto, Inv, TypeOK
  <2>2. TypeOK'
    <3>1. 0 \in 0..MaxOf(BusyPolls, WaitPolls)
      BY SizingAssumption DEF MaxOf
    <3>2. todo' \in [Launches -> Seq(Tenants)]
      <4>1. ASSUME todo[l] # <<>> PROVE Tail(todo[l]) \in Seq(Tenants)
        BY <1>2, <4>1
      <4>2. \/ todo' = todo
            \/ todo[l] # <<>> /\ todo' = [todo EXCEPT ![l] = Tail(todo[l])]
        BY <2>1
      <4>3. todo \in [Launches -> Seq(Tenants)]
        BY DEF Inv, TypeOK
      <4> QED BY <4>1, <4>2, <4>3
    <3>3. /\ pc' \in [Launches -> {"worker", "start", "inspect", "stats", "restart", "resize",
                                   "pair", "run", "up"} \cup Over]
          /\ waited' \in [Launches -> 0..MaxOf(BusyPolls, WaitPolls)]
      BY <1>3, <3>1 DEF Inspect, Goto, Inv, TypeOK
    <3>4. UNCHANGED <<restarted, tenants>>
      BY <1>3 DEF Inspect
    <3> QED BY <1>1, <3>2, <3>3, <3>4 DEF Inv, TypeOK, tenants
  <2>3. Own(l)'
    BY <1>1, <1>3, <2>1 DEF Inspect, Inv, Own, Fit, Started, WorkerFits, Reclaims, Stops
  <2> QED BY <2>2, <2>3, OneLaunch DEF LaunchStep
<1>4. CASE ReadCpu(l)
  <2>1. todo[l] # <<>>
    BY <1>4 DEF ReadCpu, Inv, Own, Reclaims
  <2>2. \/ pc'[l] = "restart" /\ UNCHANGED <<todo, waited>>
        \/ pc'[l] = "inspect" /\ todo' = [todo EXCEPT ![l] = Tail(@)] /\ UNCHANGED waited
        \/ /\ UNCHANGED <<pc, todo>> /\ ~(waited[l] >= BusyPolls)
           /\ waited' = [waited EXCEPT ![l] = @ + 1]
    BY <1>4 DEF ReadCpu, Goto, Inv, TypeOK
  <2>3. TypeOK'
    <3>1. BusyPolls \in Nat /\ WaitPolls \in Nat
      BY SizingAssumption
    <3>2. \A n \in 0..MaxOf(BusyPolls, WaitPolls) :
             ~(n >= BusyPolls) => n + 1 \in 0..MaxOf(BusyPolls, WaitPolls)
      BY <3>1 DEF MaxOf
    <3>3. waited' \in [Launches -> 0..MaxOf(BusyPolls, WaitPolls)]
      BY <2>2, <3>2 DEF Inv, TypeOK
    <3>4. todo' \in [Launches -> Seq(Tenants)]
      <4>1. Tail(todo[l]) \in Seq(Tenants)
        BY <1>2, <2>1
      <4>2. todo' = todo \/ todo' = [todo EXCEPT ![l] = Tail(todo[l])]
        BY <2>2
      <4>3. todo \in [Launches -> Seq(Tenants)]
        BY DEF Inv, TypeOK
      <4> QED BY <4>1, <4>2, <4>3
    <3>5. pc' \in [Launches -> {"worker", "start", "inspect", "stats", "restart", "resize",
                                "pair", "run", "up"} \cup Over]
      BY <1>4 DEF ReadCpu, Goto, Inv, TypeOK
    <3>6. UNCHANGED <<restarted, tenants>>
      BY <1>4 DEF ReadCpu
    <3> QED BY <1>1, <3>3, <3>4, <3>5, <3>6 DEF Inv, TypeOK, tenants
  <2>4. Own(l)'
    BY <1>1, <1>4, <2>1, <2>2
       DEF ReadCpu, Inv, Own, Fit, Started, WorkerFits, Reclaims, Stops
  <2> QED BY <2>3, <2>4, OneLaunch DEF LaunchStep
<1>5. CASE Restart(l)
  <2>1. todo[l] # <<>> /\ Head(todo[l]) \in Tenants
    BY <1>2, <1>5 DEF Restart, Inv, Own, Reclaims
  <2>2. pc'[l] = "inspect"
    BY <1>5 DEF Restart, Goto, Inv, TypeOK
  <2>3. TypeOK'
    <3>1. todo' \in [Launches -> Seq(Tenants)]
      BY <1>2, <1>5, <2>1 DEF Restart, Inv, TypeOK
    <3>2. /\ running' \subseteq Tenants /\ freeing' \subseteq Tenants
          /\ job' \in [Tenants -> Jobs]
      BY <1>5, <2>1 DEF Restart, Inv, TypeOK, Jobs
    <3> QED BY <1>1, <1>5, <3>1, <3>2 DEF Restart, Goto, Inv, TypeOK
  <2>4. Own(l)'
    BY <1>1, <1>5, <2>2 DEF Restart, Inv, Own, Fit, Started, WorkerFits, Reclaims, Stops
  <2> QED BY <2>3, <2>4, OneLaunch DEF LaunchStep
<1> QED BY <1>3, <1>4, <1>5

LEMMA EndKeeps ==
    ASSUME Inv, NEW l \in Launches, Abort(l) \/ Load(l) \/ Unload(l) \/ Kill(l)
    PROVE  Inv'
<1>1. CASE Abort(l)
  <2>1. TypeOK'
    BY <1>1 DEF Abort, Goto, Inv, TypeOK, launch, tenants, Over
  <2>2. Own(l)'
    BY <1>1 DEF Abort, Goto, launch, Inv, TypeOK, Own, Fit, Started, WorkerFits, Reclaims, Stops
  <2> QED BY <1>1, <2>1, <2>2, OneLaunch DEF LaunchStep
<1>2. CASE Load(l)
  <2>1. Share(l) \in Nat
    BY <1>2, ShareTyped DEF Load
  <2>2. /\ pc'[l] = "up" /\ l \notin TwoNode \cap stopped
        /\ UNCHANGED <<seen, plan, worker, stopped, todo>>
    BY <1>2 DEF Load, Goto, Inv, TypeOK
  <2>3. TypeOK'
    BY <1>2, <2>1 DEF Load, Goto, Inv, TypeOK, tenants, Over, Settled
  <2>4. Own(l)'
    BY <1>2, <2>2 DEF Load, Inv, Own, Fit, Started, WorkerFits, Reclaims, Stops
  <2> QED BY <1>2, <2>3, <2>4, OneLaunch DEF LaunchStep
<1>3. CASE Unload(l)
  <2>1. TypeOK'
    <3>1. /\ pc' = pc \/ pc' = [pc EXCEPT ![l] = "gone"]
          /\ held' = held \/ held' = [held EXCEPT ![l] = 0]
          /\ stopped' = stopped \/ stopped' = stopped \cup {l}
          /\ UNCHANGED <<todo, restarted, waited, worker, seen, plan, tenants, overtaken>>
      BY <1>3 DEF Unload, Goto
    <3>2. held' \in [Launches -> Nat] /\ stopped' \subseteq Launches
      <4>1. held \in [Launches -> Nat] /\ stopped \subseteq Launches
        BY DEF Inv, TypeOK
      <4>2. held' \in [Launches -> Nat]
        BY <3>1, <4>1
      <4>3. stopped' \subseteq Launches
        BY <3>1, <4>1
      <4> QED BY <4>2, <4>3
    <3>3. pc' \in [Launches -> {"worker", "start", "inspect", "stats", "restart", "resize",
                                "pair", "run", "up"} \cup Over]
      BY <3>1 DEF Inv, TypeOK, Over
    <3> QED BY <3>1, <3>2, <3>3 DEF Inv, TypeOK, tenants
  <2>2. CASE pc[l] = "up"
    <3>1. /\ pc'[l] = "gone" /\ held'[l] = 0
      BY <1>3, <2>2 DEF Unload, Goto, Inv, TypeOK
    <3>2. Own(l)'
      BY <1>3, <3>1 DEF Unload, Inv, Own, Fit, Started, WorkerFits, Reclaims, Stops
    <3> QED BY <1>3, <2>1, <3>2, OneLaunch
  <2>3. CASE pc[l] # "up"
    <3>1. /\ pc' = pc /\ held' = held /\ stopped' = stopped \cup {l}
          /\ UNCHANGED <<seen, plan, worker, todo>>
      BY <1>3, <2>3 DEF Unload
    <3>2. pc[l] # "left"
      BY <1>3 DEF Unload, Over
    <3>3. Own(l)'
      BY <2>3, <3>1, <3>2 DEF Inv, Own, Fit, Started, WorkerFits, Reclaims, Stops
    <3> QED BY <1>3, <2>1, <3>3, OneLaunch
  <2> QED BY <2>2, <2>3
<1>4. CASE Kill(l)
  <2>1. TypeOK'
    BY <1>4 DEF Kill, Goto, Inv, TypeOK, launch, tenants, Over
  <2>2. /\ pc'[l] = IF pc[l] = "up" THEN "left" ELSE "gone"
        /\ l \in stopped /\ pc[l] # "left" /\ UNCHANGED launch
    BY <1>4 DEF Kill, Goto, Inv, TypeOK, Over
  <2>3. Own(l)'
    BY <2>2 DEF launch, Inv, Own, Fit, Started, WorkerFits, Reclaims, Stops
  <2> QED BY <1>4, <2>1, <2>3, OneLaunch
<1> QED BY <1>1, <1>2, <1>3, <1>4

(* The co-tenants touch no launch.                                         *)
LEMMA TenantsKeep ==
    ASSUME Inv, NEW t \in Tenants,
           JobStarts(t) \/ JobEnds(t) \/ MemoryReturns(t) \/ TenantStops(t)
    PROVE  Inv'
<1>1. UNCHANGED <<pc, launch>>
  BY DEF JobStarts, JobEnds, MemoryReturns, TenantStops
<1>2. /\ running' \subseteq Tenants /\ freeing' \subseteq Tenants
      /\ job' \in [Tenants -> Jobs] /\ cached' \in [Tenants -> {0, TenantMem}]
      /\ overtaken' \subseteq Launches
  <2>1. CASE JobStarts(t)
    BY <2>1 DEF JobStarts, Inv, TypeOK, Jobs, Settled
  <2>2. CASE JobEnds(t)
    BY <2>2 DEF JobEnds, Inv, TypeOK, Jobs
  <2>3. CASE MemoryReturns(t)
    BY <2>3 DEF MemoryReturns, Inv, TypeOK
  <2>4. CASE TenantStops(t)
    BY <2>4 DEF TenantStops, Inv, TypeOK, Jobs
  <2> QED BY <2>1, <2>2, <2>3, <2>4
<1>3. TypeOK'
  BY <1>1, <1>2 DEF Inv, TypeOK, launch
<1>4. ASSUME NEW k \in Launches PROVE Own(k)'
  BY <1>1, OthersKeep DEF Inv, launch
<1> QED BY <1>3, <1>4 DEF Inv

-----------------------------------------------------------------------------
LEMMA InvInit == Init => Inv
<1> SUFFICES ASSUME Init PROVE Inv
  OBVIOUS
<1>1. TypeOK
  <2>1. 0 \in 0..MaxOf(BusyPolls, WaitPolls)
    BY SizingAssumption DEF MaxOf
  <2>2. ReclaimList \in [Launches -> Seq(Tenants)]
    BY SizingAssumption
  <2> QED BY <2>1, <2>2 DEF Init, TypeOK, NoReading, NoPlan, Over
<1>2. ASSUME NEW l \in Launches PROVE Own(l)
  BY DEF Init, Own, Fit, Started, WorkerFits, Reclaims, Stops
<1> QED BY <1>1, <1>2 DEF Inv

LEMMA InvStep == Inv /\ [Next]_vars => Inv'
<1> SUFFICES ASSUME Inv, [Next]_vars PROVE Inv'
  OBVIOUS
<1>1. ASSUME NEW l \in Launches, LaunchStep(l) \/ Unload(l) \/ Kill(l) PROVE Inv'
  BY <1>1, ReadWorkerKeeps, FirstSizingKeeps, ResizeKeeps, SizePairKeeps, ReclaimKeeps,
     EndKeeps DEF LaunchStep
<1>2. ASSUME NEW t \in Tenants,
             JobStarts(t) \/ JobEnds(t) \/ MemoryReturns(t) \/ TenantStops(t)
      PROVE  Inv'
  BY <1>2, TenantsKeep
<1>3. CASE UNCHANGED vars
  <2>1. TypeOK'
    BY <1>3 DEF vars, launch, tenants, Inv, TypeOK
  <2>2. ASSUME NEW k \in Launches PROVE Own(k)'
    BY <1>3, OthersKeep DEF vars, launch, Inv
  <2> QED BY <2>1, <2>2 DEF Inv
<1> QED BY <1>1, <1>2, <1>3 DEF Next

(* Launches and co-tenants keep their state in its types, the waits within *)
(* their limits.                                                           *)
THEOREM TypeCorrect == Spec => []TypeOK
<1>1. Inv => TypeOK
  BY DEF Inv
<1> QED BY <1>1, InvInit, InvStep, PTL DEF Spec

(* What a launch starts its container with is under the ceiling by the     *)
(* readings it was computed from.                                          *)
LEMMA ShareUnderCeiling ==
    ASSUME Inv, NEW l \in Launches, pc[l] \in Started
    PROVE  /\ plan[l].mode # "ERR"
           /\ WithinCeiling(ParamsOf[l], seen[l], plan[l].gmem)
           /\ l \in TwoNode => WithinCeiling(ParamsOf[l], worker[l], plan[l].gmem)
<1>1. /\ plan[l].mode # "ERR" /\ ReadingOK(seen[l]) /\ seen[l].total = NodeTotal
      /\ plan[l] = IF l \in TwoNode THEN ClusterPlan(ParamsOf[l], seen[l], worker[l])
                   ELSE Plan(ParamsOf[l], seen[l])
  BY DEF Inv, Own, Fit
<1>2. ParamsTyped(ParamsOf[l])
      /\ BufferCovers(ParamsOf[l], [total |-> NodeTotal])
  BY SizingAssumption
<1>3. BufferCovers(ParamsOf[l], seen[l])
  BY <1>1, <1>2 DEF BufferCovers, Total, Capped
<1>4. CASE l \notin TwoNode
  <2>1. plan[l].gmem > 0
    BY <1>1, <1>4, FloorReserves
  <2> QED BY <1>1, <1>2, <1>3, <1>4, <2>1, PlanUnderCeiling
<1>5. CASE l \in TwoNode
  <2>1. ReadingOK(worker[l]) /\ worker[l].total = WorkerTotal
    BY <1>5 DEF Inv, Own, WorkerFits, Started
  <2>2. BufferCovers(ParamsOf[l], [total |-> WorkerTotal])
    BY <1>5, SizingAssumption
  <2>3. BufferCovers(ParamsOf[l], worker[l])
    BY <2>1, <2>2 DEF BufferCovers, Total, Capped
  <2>4. plan[l].gmem > 0
    <3>1. /\ Plan(ParamsOf[l], seen[l]).gmem > 0 /\ Plan(ParamsOf[l], worker[l]).gmem > 0
          /\ Plan(ParamsOf[l], seen[l]).gmem \in Nat
          /\ Plan(ParamsOf[l], worker[l]).gmem \in Nat
      BY <1>1, <1>5, <2>1, FloorReserves DEF ClusterPlan
    <3> QED BY <1>1, <1>5, <3>1 DEF ClusterPlan, MinOf
  <2> QED BY <1>1, <1>2, <1>3, <1>5, <2>1, <2>3, <2>4, ClusterUnderCeiling
<1> QED BY <1>4, <1>5

(* Every container is started with a share that was under the ceiling by   *)
(* the reading it was computed from, through every reclaim and retry; at   *)
(* two nodes, also on the worker.                                          *)
THEOREM PlanMatches == Spec => []PlanMatchesReading
<1>1. Inv => PlanMatchesReading
  BY ShareUnderCeiling DEF PlanMatchesReading, Started
<1> QED BY <1>1, InvInit, InvStep, PTL DEF Spec

(* Whatever goes on beside it, a launch restarts a container only when it  *)
(* was short of memory itself and its worker has room for the model.       *)
THEOREM RestartsAreNeeded == Spec => RestartsOnlyWhenShort
<1>1. Inv /\ [Next]_vars =>
        [\A l \in Launches :
            restarted'[l] /\ ~restarted[l] =>
                /\ Short(ParamsOf[l], seen[l], Margin)
                /\ l \in TwoNode => Plan(ParamsOf[l], worker[l]).mode # "ERR"]_vars
  <2> SUFFICES ASSUME Inv, Next, NEW l \in Launches, restarted'[l], ~restarted[l]
               PROVE  /\ Short(ParamsOf[l], seen[l], Margin)
                      /\ l \in TwoNode => Plan(ParamsOf[l], worker[l]).mode # "ERR"
    OBVIOUS
  <2>1. Restart(l)
    <3>1. ASSUME NEW k \in Launches, LaunchStep(k) \/ Unload(k) \/ Kill(k) PROVE Restart(l)
      <4>1. CASE Restart(k)
        BY <4>1 DEF Restart, Inv, TypeOK
      <4>2. CASE ~Restart(k)
        <5>1. restarted' = restarted
          BY <3>1, <4>2 DEF LaunchStep, ReadWorker, FirstSizing, Inspect, ReadCpu, Resize,
                            SizePair, Abort, Load, Unload, Kill, launch
        <5> QED BY <5>1
      <4> QED BY <4>1, <4>2
    <3>2. ASSUME NEW t \in Tenants,
                 JobStarts(t) \/ JobEnds(t) \/ MemoryReturns(t) \/ TenantStops(t)
          PROVE  FALSE
      BY <3>2 DEF JobStarts, JobEnds, MemoryReturns, TenantStops, launch
    <3> QED BY <3>1, <3>2 DEF Next
  <2> QED BY <2>1 DEF Restart, Inv, Own, Reclaims, WorkerFits
<1> QED BY <1>1, InvInit, InvStep, PTL DEF Spec, RestartsOnlyWhenShort

(* A launch that is over has left nothing behind, except for the container *)
(* of a single-node model that was stopped before it was there.            *)
THEOREM NothingLeft == Spec => []OverIsOver
<1>1. Inv => OverIsOver
  BY DEF Inv, Own, Stops, OverIsOver, Over
<1> QED BY <1>1, InvInit, InvStep, PTL DEF Spec

-----------------------------------------------------------------------------
(* Sums over a finite set.                                                 *)

Pick(s) == CHOOSE x \in s : TRUE
Adds(f, S, g) ==
    g = [s \in SUBSET S |-> IF s = {} THEN 0 ELSE f[Pick(s)] + g[s \ {Pick(s)}]]

(* Induction on a finite set: among some of its subsets one is minimal.    *)
LEMMA Minimal ==
    ASSUME NEW S, IsFiniteSet(S), NEW F, F \subseteq SUBSET S, F # {}
    PROVE  \E U \in F : IsFiniteSet(U) /\ \A V \in F : V \subseteq U => V = U
<1>1. \A U \in F : IsFiniteSet(U) /\ U \subseteq S
  BY FS_Subset
<1>2. F \subseteq FiniteSubsetsOf(S)
  BY <1>1 DEF FiniteSubsetsOf
<1>3. PICK U \in F : \A V \in F : ~ (<<V, U>> \in StrictSubsetOrdering(S))
  BY <1>2, FS_StrictSubsetOrderingWellFounded, WFMin
<1>4. ASSUME NEW V \in F, V \subseteq U PROVE V = U
  BY <1>1, <1>3, <1>4 DEF StrictSubsetOrdering
<1> QED BY <1>1, <1>4

LEMMA SumIsFold ==
    ASSUME NEW f, NEW S
    PROVE  SumOf(f, S) = (CHOOSE g : Adds(f, S, g))[S]
BY DEF SumOf, MapThenSumSet, MapThenFoldSet, Pick, Adds

LEMMA AddsUnique ==
    ASSUME NEW f, NEW S, NEW T, IsFiniteSet(S), T \subseteq S, NEW g, NEW h,
           Adds(f, S, g), Adds(f, T, h)
    PROVE  \A s \in SUBSET T : g[s] = h[s]
<1> DEFINE F == {s \in SUBSET T : g[s] # h[s]}
<1> SUFFICES ASSUME F # {} PROVE FALSE
  OBVIOUS
<1>1. IsFiniteSet(T)
  BY FS_Subset
<1>2. PICK U \in F : \A V \in F : V \subseteq U => V = U
  <2>1. F \subseteq SUBSET T
    OBVIOUS
  <2> HIDE DEF F
  <2> QED BY <1>1, <2>1, Minimal
<1>3. U \in SUBSET S /\ U \in SUBSET T
  OBVIOUS
<1>4. /\ g[U] = IF U = {} THEN 0 ELSE f[Pick(U)] + g[U \ {Pick(U)}]
      /\ h[U] = IF U = {} THEN 0 ELSE f[Pick(U)] + h[U \ {Pick(U)}]
  BY <1>3, Zenon DEF Adds
<1>5. U # {}
  BY <1>4
<1>6. Pick(U) \in U
  BY <1>5 DEF Pick
<1>7. U \ {Pick(U)} \in SUBSET T /\ U \ {Pick(U)} \subseteq U /\ U \ {Pick(U)} # U
  BY <1>3, <1>6
<1>8. g[U \ {Pick(U)}] = h[U \ {Pick(U)}]
  BY <1>2, <1>7
<1> QED BY <1>4, <1>8

LEMMA AddsExists ==
    ASSUME NEW f, NEW S, IsFiniteSet(S)
    PROVE  \E g : Adds(f, S, g)
<1> DEFINE F == {s \in SUBSET S : ~ \E g : Adds(f, s, g)}
<1> SUFFICES ASSUME F # {} PROVE FALSE
  OBVIOUS
<1>1. PICK U \in F : IsFiniteSet(U) /\ \A V \in F : V \subseteq U => V = U
  <2>1. F \subseteq SUBSET S
    OBVIOUS
  <2> HIDE DEF F
  <2> QED BY <2>1, Minimal
<1> DEFINE G(s) == CHOOSE g : Adds(f, s, g)
<1>2. ASSUME NEW s \in SUBSET U, s # U PROVE Adds(f, s, G(s)) /\ IsFiniteSet(s)
  BY <1>1, <1>2, FS_Subset
<1> DEFINE next(s) == IF s = {} THEN 0 ELSE f[Pick(s)] + G(s \ {Pick(s)})[s \ {Pick(s)}]
           g == [s \in SUBSET U |-> next(s)]
<1>3. \A s \in SUBSET U : s # {} =>
         Pick(s) \in s /\ s \ {Pick(s)} \in SUBSET U /\ s \ {Pick(s)} # U /\ s \ {Pick(s)} # s
  BY DEF Pick
<1> HIDE DEF G
<1>4. ASSUME NEW s \in SUBSET U, s # U PROVE G(s)[s] = next(s)
  <2>1. G(s)[s] = IF s = {} THEN 0 ELSE f[Pick(s)] + G(s)[s \ {Pick(s)}]
    BY <1>2, <1>4, Zenon DEF Adds
  <2>2. CASE s = {}
    BY <2>1, <2>2
  <2>3. CASE s # {}
    <3> DEFINE t == s \ {Pick(s)}
    <3>1. t \in SUBSET U /\ t # U /\ t \subseteq s
      BY <1>3, <2>3
    <3>2. Adds(f, s, G(s)) /\ IsFiniteSet(s) /\ Adds(f, t, G(t))
      BY <1>2, <1>4, <3>1
    <3>3. G(s)[t] = G(t)[t]
      <4> HIDE DEF t
      <4>1. \A r \in SUBSET t : G(s)[r] = G(t)[r]
        BY <3>1, <3>2, AddsUnique
      <4> QED BY <4>1
    <3> QED BY <2>1, <2>3, <3>3
  <2> QED BY <2>2, <2>3
<1>5. ASSUME NEW s \in SUBSET U
      PROVE  g[s] = IF s = {} THEN 0 ELSE f[Pick(s)] + g[s \ {Pick(s)}]
  <2>1. g[s] = next(s)
    OBVIOUS
  <2>2. CASE s # {}
    <3>1. s \ {Pick(s)} \in SUBSET U /\ s \ {Pick(s)} # U
      BY <1>3, <2>2
    <3>2. g[s \ {Pick(s)}] = next(s \ {Pick(s)})
      BY <3>1
    <3>3. g[s \ {Pick(s)}] = G(s \ {Pick(s)})[s \ {Pick(s)}]
      BY <1>4, <3>1, <3>2
    <3> QED BY <2>1, <2>2, <3>3
  <2> QED BY <2>1, <2>2
<1> HIDE DEF next
<1>6. Adds(f, U, g)
  <2>1. g = [s \in SUBSET U |-> g[s]]
    OBVIOUS
  <2> HIDE DEF g
  <2>2. [s \in SUBSET U |-> g[s]]
          = [s \in SUBSET U |-> IF s = {} THEN 0 ELSE f[Pick(s)] + g[s \ {Pick(s)}]]
    BY <1>5
  <2> QED BY <2>1, <2>2, Zenon DEF Adds
<1> QED BY <1>1, <1>6

LEMMA SumEmpty == ASSUME NEW f PROVE SumOf(f, {}) = 0
<1>1. PICK g : Adds(f, {}, g)
  BY AddsExists, FS_EmptySet
<1>2. Adds(f, {}, CHOOSE h : Adds(f, {}, h))
  BY <1>1
<1>3. (CHOOSE h : Adds(f, {}, h))[{}] = 0
  BY <1>2 DEF Adds
<1> QED BY <1>3, SumIsFold

LEMMA SumStep ==
    ASSUME NEW f, NEW S, IsFiniteSet(S), S # {}
    PROVE  /\ Pick(S) \in S
           /\ SumOf(f, S) = f[Pick(S)] + SumOf(f, S \ {Pick(S)})
<1> DEFINE T == S \ {Pick(S)}
           g == CHOOSE h : Adds(f, S, h)
           k == CHOOSE h : Adds(f, T, h)
<1>1. Pick(S) \in S
  BY DEF Pick
<1>2. IsFiniteSet(T) /\ T \subseteq S
  BY FS_Subset
<1>3. Adds(f, S, g) /\ Adds(f, T, k)
  BY <1>2, AddsExists
<1> HIDE DEF g, k
<1>4. g[S] = f[Pick(S)] + g[T]
  <2>1. S \in SUBSET S
    OBVIOUS
  <2>2. g[S] = IF S = {} THEN 0 ELSE f[Pick(S)] + g[S \ {Pick(S)}]
    BY <1>3, <2>1, Zenon DEF Adds
  <2> QED BY <2>2
<1>5. g[T] = k[T]
  BY <1>2, <1>3, AddsUnique
<1>6. SumOf(f, S) = g[S] /\ SumOf(f, T) = k[T]
  BY SumIsFold DEF g, k
<1> QED BY <1>1, <1>4, <1>5, <1>6

LEMMA SumNat ==
    ASSUME NEW S, IsFiniteSet(S), NEW f, \A x \in S : f[x] \in Nat
    PROVE  SumOf(f, S) \in Nat
<1> DEFINE F == {s \in SUBSET S : SumOf(f, s) \notin Nat}
<1> SUFFICES ASSUME F # {} PROVE FALSE
  OBVIOUS
<1>1. PICK U \in F : IsFiniteSet(U) /\ \A V \in F : V \subseteq U => V = U
  <2>1. F \subseteq SUBSET S
    OBVIOUS
  <2> HIDE DEF F
  <2> QED BY <2>1, Minimal
<1>2. U # {}
  BY SumEmpty
<1>3. /\ Pick(U) \in U
      /\ SumOf(f, U) = f[Pick(U)] + SumOf(f, U \ {Pick(U)})
  BY <1>1, <1>2, SumStep
<1>4. SumOf(f, U \ {Pick(U)}) \in Nat
  BY <1>1, <1>3
<1> QED BY <1>3, <1>4

LEMMA SumSame ==
    ASSUME NEW S, IsFiniteSet(S), NEW f, NEW g, \A x \in S : f[x] = g[x]
    PROVE  SumOf(f, S) = SumOf(g, S)
<1> DEFINE F == {s \in SUBSET S : SumOf(f, s) # SumOf(g, s)}
<1> SUFFICES ASSUME F # {} PROVE FALSE
  OBVIOUS
<1>1. PICK U \in F : IsFiniteSet(U) /\ \A V \in F : V \subseteq U => V = U
  <2>1. F \subseteq SUBSET S
    OBVIOUS
  <2> HIDE DEF F
  <2> QED BY <2>1, Minimal
<1>2. U # {}
  BY SumEmpty
<1>3. /\ Pick(U) \in U
      /\ SumOf(f, U) = f[Pick(U)] + SumOf(f, U \ {Pick(U)})
      /\ SumOf(g, U) = g[Pick(U)] + SumOf(g, U \ {Pick(U)})
  BY <1>1, <1>2, SumStep
<1>4. SumOf(f, U \ {Pick(U)}) = SumOf(g, U \ {Pick(U)})
  BY <1>1, <1>3
<1> QED BY <1>3, <1>4

LEMMA SumChange ==
    ASSUME NEW S, IsFiniteSet(S), NEW f, NEW g, NEW x \in S,
           \A y \in S : f[y] \in Nat /\ g[y] \in Nat,
           \A y \in S \ {x} : g[y] = f[y]
    PROVE  SumOf(g, S) = SumOf(f, S) + g[x] - f[x]
<1> DEFINE F == {s \in SUBSET S : x \in s /\ SumOf(g, s) # SumOf(f, s) + g[x] - f[x]}
<1> SUFFICES ASSUME F # {} PROVE FALSE
  OBVIOUS
<1>1. PICK U \in F : IsFiniteSet(U) /\ \A V \in F : V \subseteq U => V = U
  <2>1. F \subseteq SUBSET S
    OBVIOUS
  <2> HIDE DEF F
  <2> QED BY <2>1, Minimal
<1> DEFINE rest == U \ {Pick(U)}
<1>2. /\ Pick(U) \in U
      /\ SumOf(f, U) = f[Pick(U)] + SumOf(f, rest)
      /\ SumOf(g, U) = g[Pick(U)] + SumOf(g, rest)
  BY <1>1, SumStep
<1>3. IsFiniteSet(rest) /\ rest \subseteq S
  BY <1>1, FS_Subset
<1>4. SumOf(f, rest) \in Nat /\ SumOf(g, rest) \in Nat
  BY <1>3, SumNat
<1>5. CASE Pick(U) = x
  <2>1. SumOf(f, rest) = SumOf(g, rest)
    BY <1>3, <1>5, SumSame
  <2> QED BY <1>2, <1>4, <1>5, <2>1
<1>6. CASE Pick(U) # x
  <2>1. SumOf(g, rest) = SumOf(f, rest) + g[x] - f[x]
    BY <1>1, <1>2, <1>3, <1>6
  <2>2. g[Pick(U)] = f[Pick(U)] /\ f[Pick(U)] \in Nat
    BY <1>2, <1>6
  <2>3. f[x] \in Nat /\ g[x] \in Nat
    OBVIOUS
  <2> HIDE DEF rest
  <2> QED BY <1>2, <1>4, <2>1, <2>2, <2>3
<1> QED BY <1>5, <1>6

-----------------------------------------------------------------------------
(* The node's memory.                                                      *)

LEMMA SumsTyped ==
    ASSUME NEW c \in [Tenants -> {0, TenantMem}], NEW h \in [Launches -> Nat]
    PROVE  /\ Baseline \in Nat /\ SumOf(c, Tenants) \in Nat /\ SumOf(h, Launches) \in Nat
           /\ Baseline + SumOf(c, Tenants) + SumOf(h, Launches) \in Nat
<1>1. /\ IsFiniteSet(Tenants) /\ IsFiniteSet(Launches) /\ Baseline \in Nat /\ TenantMem \in Nat
  BY SizingAssumption
<1>2. \A t \in Tenants : c[t] \in Nat
  BY <1>1
<1>3. SumOf(c, Tenants) \in Nat /\ SumOf(h, Launches) \in Nat
  BY <1>1, <1>2, SumNat
<1> QED BY <1>1, <1>3

LEMMA UsedIsSum == Used = Baseline + SumOf(cached, Tenants) + SumOf(held, Launches)
BY DEF Used

LEMMA UsedNat == ASSUME TypeOK PROVE Used \in Nat
BY UsedIsSum, SumsTyped DEF TypeOK

LEMMA UsedNatNext == ASSUME TypeOK' PROVE Used' \in Nat
<1>1. Used' = Baseline + SumOf(cached', Tenants) + SumOf(held', Launches)
  BY DEF Used
<1> QED BY <1>1, SumsTyped DEF TypeOK

LEMMA UsedStays ==
    ASSUME UNCHANGED <<cached, held>>
    PROVE  Used' = Used
BY DEF Used

LEMMA UsedByLaunch ==
    ASSUME TypeOK, TypeOK', NEW l \in Launches, UNCHANGED cached,
           \A k \in Launches \ {l} : held'[k] = held[k]
    PROVE  /\ Used' = Used + held'[l] - held[l]
           /\ held[l] \in Nat /\ held'[l] \in Nat
<1>1. IsFiniteSet(Launches)
  BY SizingAssumption
<1>2. \A k \in Launches : held[k] \in Nat /\ held'[k] \in Nat
  BY DEF TypeOK
<1>3. SumOf(held', Launches) = SumOf(held, Launches) + held'[l] - held[l]
  BY <1>1, <1>2, SumChange
<1>4. /\ Used = Baseline + SumOf(cached, Tenants) + SumOf(held, Launches)
      /\ Used' = Baseline + SumOf(cached', Tenants) + SumOf(held', Launches)
  BY DEF Used
<1>5. /\ SumOf(cached', Tenants) = SumOf(cached, Tenants)
      /\ Baseline \in Nat /\ SumOf(cached, Tenants) \in Nat /\ SumOf(held, Launches) \in Nat
  BY SumsTyped DEF TypeOK
<1> QED BY <1>2, <1>3, <1>4, <1>5

LEMMA UsedByTenant ==
    ASSUME TypeOK, TypeOK', NEW t \in Tenants, UNCHANGED held,
           \A u \in Tenants \ {t} : cached'[u] = cached[u]
    PROVE  /\ Used' = Used + cached'[t] - cached[t]
           /\ cached[t] \in Nat /\ cached'[t] \in Nat
<1>1. IsFiniteSet(Tenants) /\ TenantMem \in Nat
  BY SizingAssumption
<1>2. \A u \in Tenants : cached[u] \in Nat /\ cached'[u] \in Nat
  <2>1. cached \in [Tenants -> {0, TenantMem}] /\ cached' \in [Tenants -> {0, TenantMem}]
    BY DEF TypeOK
  <2> QED BY <1>1, <2>1
<1>3. SumOf(cached', Tenants) = SumOf(cached, Tenants) + cached'[t] - cached[t]
  BY <1>1, <1>2, SumChange
<1>4. /\ Used = Baseline + SumOf(cached, Tenants) + SumOf(held, Launches)
      /\ Used' = Baseline + SumOf(cached', Tenants) + SumOf(held', Launches)
  BY DEF Used
<1>5. /\ Baseline \in Nat /\ SumOf(cached, Tenants) \in Nat /\ SumOf(held, Launches) \in Nat
  <2>1. cached \in [Tenants -> {0, TenantMem}] /\ held \in [Launches -> Nat]
    BY DEF TypeOK
  <2> QED BY <2>1, SumsTyped
<1>6. SumOf(held', Launches) = SumOf(held, Launches)
  OBVIOUS
<1> QED BY <1>2, <1>3, <1>4, <1>5, <1>6

(* A reading some share fits in is what is left, to the byte: only a node  *)
(* that is full already reads as less used than it is.                     *)
LEMMA ReadingExact ==
    ASSUME TypeOK, NEW l \in Launches, Plan(ParamsOf[l], Reading).mode # "ERR"
    PROVE  Used = NodeTotal - Reading.avail
<1> DEFINE p == ParamsOf[l]
           left == NodeTotal - Used
<1>1. ParamsTyped(p) /\ p.gmin > 0
  BY FloorReserves
<1>2. ReadingOK(Reading) /\ NodeTotal \in Nat /\ Used \in Nat
  BY ReadingSound, UsedNat, SizingAssumption
<1>3. Reading.avail = IF left \in 0..NodeTotal THEN left ELSE 0
  BY DEF Reading
<1>4. Fits(p, Reading)
  BY DEF Plan
<1>5. /\ Total(p, Reading) \in Int /\ Total(p, Reading) > 0
      /\ CapNum(p, Reading) >= p.gmin * Total(p, Reading)
      /\ p.gmin \in Nat /\ p.gmin > 0
  BY <1>1, <1>2, <1>4, Quantities DEF Fits
<1>6. CapNum(p, Reading) \in Nat /\ CapNum(p, Reading) > 0
  <2>1. \A m, n \in Int : m > 0 /\ n > 0 => m * n > 0
    OBVIOUS
  <2>2. p.gmin * Total(p, Reading) > 0 /\ p.gmin * Total(p, Reading) \in Int
    BY <1>5, <2>1
  <2>3. CapNum(p, Reading) \in Nat
    BY <1>1, <1>2, Quantities
  <2> QED BY <1>5, <2>2, <2>3
<1>7. Reading.avail > 0
  <2>1. Free(p, Reading) \in Nat /\ Headroom(p, Reading) \in Nat
    BY <1>1, <1>2, Quantities
  <2>2. p.buffer \in Nat /\ p.overhead \in Nat /\ Reading.avail \in Nat
    BY <1>1, <1>2 DEF ParamsTyped, ReadingOK
  <2>3. Free(p, Reading) > 0
    <3>1. SUFFICES ASSUME Free(p, Reading) = 0 PROVE FALSE
      BY <2>1
    <3>2. PosPart(Free(p, Reading) - p.buffer) = 0
      BY <2>2, <3>1 DEF PosPart, MaxOf
    <3>3. Whole * 0 = 0
      BY WholeFacts
    <3> QED BY <1>6, <3>2, <3>3 DEF CapNum
  <2> QED BY <2>1, <2>2, <2>3 DEF Free, PosPart, MaxOf
<1>8. left \in 0..NodeTotal
  BY <1>3, <1>7
<1> QED BY <1>2, <1>3, <1>8

-----------------------------------------------------------------------------
(* The ceiling.                                                            *)

CeilingOf(l) == MinOf(NodeTotal, ParamsOf[l].ceiling)

(* As long as nothing else takes memory, what was free when a launch sized *)
(* still is, and then there is room for what its model took.               *)
Room(l) ==
    l \notin overtaken =>
        /\ pc[l] = "run" => Used <= NodeTotal - seen[l].avail
        /\ pc[l] \in {"up", "left"} => Used <= CeilingOf(l)

RoomInv == Inv /\ \A l \in Launches : Room(l)

(* A launch that takes no step keeps its room if no more memory is used.   *)
LEMMA RoomStays ==
    ASSUME Inv, NEW k \in Launches, Room(k), pc'[k] = pc[k], seen'[k] = seen[k],
           k \in overtaken => k \in overtaken', Used' \in Nat, Used' <= Used
    PROVE  Room(k)'
<1>1. Used \in Nat /\ NodeTotal \in Nat /\ CeilingOf(k) \in Nat
  <2>1. ParamsOf[k].ceiling \in Nat
    BY SizingAssumption DEF ParamsTyped
  <2> QED BY <2>1, UsedNat, SizingAssumption DEF Inv, CeilingOf, MinOf
<1>2. seen[k].avail \in Nat
  BY DEF Inv, TypeOK
<1>3. CeilingOf(k)' = CeilingOf(k)
  BY DEF CeilingOf
<1> QED BY <1>1, <1>2, <1>3 DEF Room

(* The last sizing of a launch is of the node as it is.                    *)
LEMMA RoomSized ==
    ASSUME RoomInv, Inv', NEW l \in Launches, FirstSizing(l) \/ Resize(l) \/ SizePair(l)
    PROVE  Room(l)'
<1>1. /\ seen'[l] = Reading /\ UNCHANGED <<cached, held>>
  BY DEF FirstSizing, Resize, SizePair, SizeNow, RoomInv, Inv, TypeOK, tenants
<1>2. pc'[l] \notin {"up", "left"}
  BY DEF FirstSizing, Resize, SizePair, Goto, Verdict, RoomInv, Inv, TypeOK
<1>3. ASSUME pc'[l] = "run" PROVE Used' = NodeTotal - Reading.avail
  <2>1. /\ plan'[l].mode # "ERR"
        /\ plan'[l] = IF l \in TwoNode THEN ClusterPlan(ParamsOf[l], Reading, worker'[l])
                       ELSE Plan(ParamsOf[l], Reading)
    BY <1>1, <1>3 DEF Inv, Own, Fit, Started
  <2>2. Plan(ParamsOf[l], Reading).mode # "ERR"
    BY <2>1 DEF ClusterPlan
  <2> QED BY <1>1, <2>2, ReadingExact, UsedStays DEF RoomInv, Inv
<1>4. Used' \in Nat /\ NodeTotal \in Nat /\ Reading.avail \in Nat
  BY <1>1, UsedStays, UsedNat, ReadingTyped, SizingAssumption DEF RoomInv, Inv
<1> QED BY <1>1, <1>2, <1>3, <1>4 DEF Room

(* The share fits into what was free.                                      *)
LEMMA RoomLoaded ==
    ASSUME RoomInv, Inv', NEW l \in Launches, Load(l)
    PROVE  Room(l)'
<1> DEFINE p == ParamsOf[l]
           taken == plan[l].gmem * Total(p, seen[l])
<1>1. SUFFICES ASSUME l \notin overtaken PROVE Used' <= CeilingOf(l)
  <2>1. l \notin overtaken' => l \notin overtaken
    BY DEF Load
  <2>2. pc'[l] = "up"
    BY DEF Load, Goto, RoomInv, Inv, TypeOK
  <2>3. CeilingOf(l)' = CeilingOf(l)
    BY DEF CeilingOf
  <2> QED BY <1>1, <2>1, <2>2, <2>3 DEF Room
<1>2. Used \in Nat /\ Used <= NodeTotal - seen[l].avail
  BY <1>1, UsedNat DEF Load, RoomInv, Room, Inv
<1>3. Used' = Used + Share(l)
  <2>1. held'[l] = Share(l) /\ \A k \in Launches \ {l} : held'[k] = held[k]
    BY DEF Load, RoomInv, Inv, TypeOK
  <2>2. held[l] = 0
    <3>1. held[l] \in Nat /\ ~(held[l] > 0)
      BY DEF Load, RoomInv, Inv, TypeOK, Own, Stops
    <3> QED BY <3>1
  <2>3. /\ Used' = Used + held'[l] - held[l]
        /\ held'[l] \in Nat
    BY <2>1, UsedByLaunch DEF Load, RoomInv, Inv, tenants
  <2> QED BY <1>2, <2>1, <2>2, <2>3
<1>4. ReadingOK(seen[l]) /\ seen[l].total = NodeTotal /\ WithinCeiling(p, seen[l], plan[l].gmem)
  BY ShareUnderCeiling DEF Load, RoomInv, Inv, Own, Fit, Started
<1>5. /\ 100 * (NodeTotal - seen[l].avail + p.overhead) + taken <= 100 * CeilingOf(l)
      /\ Share(l) = taken \div 100 + p.overhead
  BY <1>4 DEF WithinCeiling, Share, CeilingOf, Capped
<1>6. /\ NodeTotal \in Nat /\ seen[l].avail \in Nat /\ p.overhead \in Nat
      /\ CeilingOf(l) \in Nat
  <2>1. p.ceiling \in Nat /\ p.overhead \in Nat /\ NodeTotal \in Nat
    BY SizingAssumption DEF ParamsTyped
  <2>2. seen[l].avail \in Nat
    BY DEF RoomInv, Inv, TypeOK
  <2> QED BY <2>1, <2>2 DEF CeilingOf, MinOf
<1>7. taken \in Int
  <2>1. Total(p, seen[l]) \in Int
    BY <1>4, Quantities, SizingAssumption
  <2>2. plan[l].gmem \in 0..100
    BY DEF RoomInv, Inv, TypeOK
  <2> QED BY <2>1, <2>2
<1> HIDE DEF taken
<1>8. taken \div 100 \in Int /\ 100 * (taken \div 100) <= taken
  BY <1>7
<1> QED BY <1>2, <1>3, <1>5, <1>6, <1>7, <1>8

(* ... nor one that ends or is killed.                                     *)
LEMMA RoomEnds ==
    ASSUME Inv, NEW k \in Launches, Room(k), seen'[k] = seen[k], UNCHANGED overtaken,
           \/ pc'[k] = pc[k]
           \/ pc'[k] = "gone"
           \/ pc[k] = "up" /\ pc'[k] = "left",
           Used' \in Nat, Used' <= Used
    PROVE  Room(k)'
<1>1. CASE pc'[k] = pc[k]
  BY <1>1, RoomStays
<1>2. CASE pc'[k] = "gone"
  BY <1>2 DEF Room
<1>3. CASE pc[k] = "up" /\ pc'[k] = "left"
  <2>1. Used \in Nat /\ CeilingOf(k) \in Nat
    <3>1. ParamsOf[k].ceiling \in Nat
      BY SizingAssumption DEF ParamsTyped
    <3> QED BY <3>1, UsedNat, SizingAssumption DEF Inv, CeilingOf, MinOf
  <2>2. CeilingOf(k)' = CeilingOf(k)
    BY DEF CeilingOf
  <2> QED BY <1>3, <2>1, <2>2 DEF Room
<1> QED BY <1>1, <1>2, <1>3

(* Of a launch's own steps only the loading of its model takes memory.     *)
LEMMA OnlyLoadTakes ==
    ASSUME TypeOK, TypeOK', NEW l \in Launches, LaunchStep(l) \/ Unload(l) \/ Kill(l),
           ~Load(l)
    PROVE  Used' <= Used
<1>1. Used \in Nat
  BY UsedNat
<1>2. CASE held' = held
  <2>1. UNCHANGED cached
    BY DEF LaunchStep, ReadWorker, FirstSizing, Inspect, ReadCpu, Restart, Resize, SizePair,
           Abort, Unload, Kill, launch, tenants
  <2> QED BY <1>1, <1>2, <2>1, UsedStays
<1>3. CASE held' # held
  <2>1. Unload(l) /\ held' = [held EXCEPT ![l] = 0]
    BY <1>3 DEF LaunchStep, ReadWorker, FirstSizing, Inspect, ReadCpu, Restart, Resize,
                SizePair, Abort, Unload, Kill, launch
  <2>2. held'[l] = 0 /\ \A k \in Launches \ {l} : held'[k] = held[k]
    BY <2>1 DEF TypeOK
  <2>3. /\ Used' = Used + held'[l] - held[l]
        /\ held[l] \in Nat
    BY <2>1, <2>2, UsedByLaunch DEF Unload, tenants
  <2> QED BY <1>1, <2>2, <2>3
<1> QED BY <1>2, <1>3

(* A step of one launch takes no other one's plan or place.                *)
LEMMA OnlyOne ==
    ASSUME TypeOK, NEW l \in Launches, NEW k \in Launches, k # l,
           LaunchStep(l) \/ Unload(l) \/ Kill(l)
    PROVE  /\ pc'[k] = pc[k] /\ seen'[k] = seen[k]
           /\ k \in overtaken => k \in overtaken'
<1>1. CASE ReadWorker(l) \/ Inspect(l) \/ ReadCpu(l) \/ Restart(l)
  BY <1>1 DEF ReadWorker, Inspect, ReadCpu, Restart, Goto, TypeOK
<1>2. CASE FirstSizing(l) \/ Resize(l) \/ SizePair(l)
  BY <1>2 DEF FirstSizing, Resize, SizePair, SizeNow, Goto, TypeOK
<1>3. CASE Abort(l) \/ Load(l) \/ Unload(l) \/ Kill(l)
  BY <1>3 DEF Abort, Load, Unload, Kill, launch, Goto, TypeOK
<1> QED BY <1>1, <1>2, <1>3 DEF LaunchStep

LEMMA RoomStep == RoomInv /\ Inv' /\ [Next]_vars => RoomInv'
<1> SUFFICES ASSUME RoomInv, Inv', [Next]_vars, NEW k \in Launches PROVE Room(k)'
  BY DEF RoomInv
<1>1. TypeOK /\ TypeOK' /\ Inv /\ Room(k)
  BY DEF RoomInv, Inv
<1>2. Used \in Nat /\ Used' \in Nat
  BY <1>1, UsedNat, UsedNatNext
<1>3. CASE UNCHANGED vars
  <2>1. Used' = Used
    BY <1>3, UsedStays DEF vars, launch, tenants
  <2> QED BY <1>1, <1>2, <1>3, <2>1, RoomStays DEF vars, launch
<1>4. ASSUME NEW l \in Launches, LaunchStep(l) \/ Unload(l) \/ Kill(l) PROVE Room(k)'
  <2>1. CASE l # k
    <3>1. /\ pc'[k] = pc[k] /\ seen'[k] = seen[k]
          /\ k \in overtaken => k \in overtaken'
      BY <1>1, <1>4, <2>1, OnlyOne
    <3>2. CASE Load(l)
      <4>1. k \in Settled => k \in overtaken'
        BY <2>1, <3>2 DEF Load
      <4> QED BY <3>1, <4>1 DEF Room, Settled
    <3>3. CASE ~Load(l)
      <4>1. Used' <= Used
        BY <1>1, <1>2, <1>4, <3>3, OnlyLoadTakes
      <4> QED BY <1>1, <1>2, <3>1, <4>1, RoomStays
    <3> QED BY <3>2, <3>3
  <2>2. CASE l = k
    <3>1. CASE FirstSizing(k) \/ Resize(k) \/ SizePair(k)
      BY <3>1, RoomSized
    <3>2. CASE Load(k)
      BY <3>2, RoomLoaded
    <3>3. CASE ReadWorker(k) \/ Inspect(k) \/ ReadCpu(k) \/ Restart(k) \/ Abort(k)
      <4>1. pc'[k] \notin {"run", "up", "left"}
        <5>1. /\ pc[k] \notin {"up", "left"}
              /\ \/ pc' = pc /\ pc[k] # "run"
                 \/ \E place \in {"fatal", "start", "resize", "stats", "restart", "inspect",
                                 "gone"} : Goto(k, place)
          BY <3>3 DEF ReadWorker, Inspect, ReadCpu, Restart, Abort
        <5> QED BY <1>1, <5>1 DEF Goto, TypeOK
      <4> QED BY <4>1 DEF Room
    <3>4. CASE Unload(k) \/ Kill(k)
      <4>1. /\ \/ pc'[k] = pc[k]
               \/ pc'[k] = "gone"
               \/ pc[k] = "up" /\ pc'[k] = "left"
            /\ UNCHANGED <<seen, overtaken>>
        BY <1>1, <3>4 DEF Unload, Kill, Goto, TypeOK, launch
      <4>2. Used' <= Used
        <5>1. ~Load(k)
          BY <1>1, <3>4 DEF Unload, Kill, Load, Goto, TypeOK, Over
        <5> QED BY <1>1, <1>2, <3>4, <5>1, OnlyLoadTakes
      <4> QED BY <1>1, <1>2, <4>1, <4>2, RoomEnds
    <3> QED BY <1>4, <2>2, <3>1, <3>2, <3>3, <3>4 DEF LaunchStep
  <2> QED BY <2>1, <2>2
<1>5. ASSUME NEW t \in Tenants,
             JobStarts(t) \/ JobEnds(t) \/ MemoryReturns(t) \/ TenantStops(t)
      PROVE  Room(k)'
  <2>1. UNCHANGED <<pc, launch>>
    BY <1>5 DEF JobStarts, JobEnds, MemoryReturns, TenantStops
  <2>2. CASE JobStarts(t) /\ cached[t] < TenantMem
    <3>1. k \in Settled => k \in overtaken'
      BY <2>2 DEF JobStarts
    <3> QED BY <2>1, <3>1 DEF Room, Settled
  <2>3. CASE ~(JobStarts(t) /\ cached[t] < TenantMem)
    <3>1. overtaken' = overtaken /\ cached'[t] <= cached[t]
      <4>1. cached[t] \in {0, TenantMem} /\ TenantMem \in Nat
        BY <1>1, SizingAssumption DEF TypeOK
      <4> QED BY <1>1, <1>5, <2>3, <4>1
              DEF JobStarts, JobEnds, MemoryReturns, TenantStops, TypeOK
    <3>2. \A u \in Tenants \ {t} : cached'[u] = cached[u]
      BY <1>1, <1>5 DEF JobStarts, JobEnds, MemoryReturns, TenantStops, TypeOK
    <3>3. /\ Used' = Used + cached'[t] - cached[t]
          /\ cached[t] \in Nat /\ cached'[t] \in Nat
      BY <1>1, <2>1, <3>2, UsedByTenant DEF launch
    <3>4. Used' <= Used
      BY <1>2, <3>1, <3>3
    <3> QED BY <1>1, <1>2, <2>1, <3>1, <3>4, RoomStays DEF launch
  <2> QED BY <2>2, <2>3
<1> QED BY <1>3, <1>4, <1>5 DEF Next

LEMMA RoomInit == Init => \A l \in Launches : Room(l)
BY DEF Init, Room

(* Once a model is up the node's use, whatever was restarted and came back *)
(* meanwhile, stays under the ceiling until another launch or a            *)
(* co-tenant's job takes memory of its own.                                *)
THEOREM CeilingHolds == Spec => []NodeUnderCeiling
<1>1. RoomInv => NodeUnderCeiling
  BY ReadingSound DEF RoomInv, Room, NodeUnderCeiling, CeilingOf, Capped
<1>2. Init => RoomInv
  BY InvInit, RoomInit DEF RoomInv
<1>3. RoomInv /\ [Next]_vars => RoomInv'
  BY InvStep, RoomStep DEF RoomInv
<1> QED BY <1>1, <1>2, <1>3, PTL DEF Spec
-----------------------------------------------------------------------------
(* How many steps a launch takes.                                          *)

\* a wait ends at its limit
Waits(l) ==
    /\ pc[l] = "stats" => waited[l] <= BusyPolls
    /\ pc[l] = "resize" => waited[l] <= WaitPolls

Stays(l) == pc'[l] = pc[l] /\ todo'[l] = todo[l] /\ waited'[l] = waited[l]

Counted(l) == Waits(l)' /\ (~Stays(l) => StepsLeft(l)' \in 0..(StepsLeft(l) - 1))

WaitInv == Inv /\ \A l \in Launches : Waits(l)

LEMMA LimitsTyped ==
    /\ BusyPolls \in Nat /\ WaitPolls \in Nat
    /\ ResizeSteps \in Nat /\ ResizeSteps = WaitPolls + 4
BY SizingAssumption DEF ResizeSteps

(* Each container of the list adds the same to the reclaim.                *)
LEMMA ReclaimAdds ==
    ASSUME NEW n \in Nat
    PROVE  /\ ReclaimSteps(n) \in Nat /\ ReclaimSteps(n) > ResizeSteps
           /\ n # 0 => /\ ReclaimSteps(n - 1) \in Nat
                       /\ ReclaimSteps(n - 1) > ResizeSteps
                       /\ ReclaimSteps(n) = ReclaimSteps(n - 1) + BusyPolls + 3
<1> DEFINE k == BusyPolls + 3
<1>1. k \in Nat /\ ResizeSteps \in Nat
  BY LimitsTyped
<1>2. ReclaimSteps(n) = n * k + 1 + ResizeSteps
      /\ ReclaimSteps(n - 1) = (n - 1) * k + 1 + ResizeSteps
  BY DEF ReclaimSteps
<1> HIDE DEF k
<1>3. n * k \in Nat
  BY <1>1
<1>4. ASSUME n # 0 PROVE (n - 1) * k \in Nat /\ n * k = (n - 1) * k + k
  <2>1. n - 1 \in Nat
    BY <1>4
  <2>2. PICK m \in Nat : n = m + 1
    BY <2>1
  <2>3. m * k \in Nat /\ (m + 1) * k = m * k + k
    BY <1>1
  <2> QED BY <2>2, <2>3
<1>5. k = BusyPolls + 3 /\ BusyPolls \in Nat
  BY LimitsTyped DEF k
<1> QED BY <1>1, <1>2, <1>3, <1>4, <1>5

LEMMA OwnTyped ==
    ASSUME Inv, NEW l \in Launches
    PROVE  /\ todo[l] \in Seq(Tenants) /\ Len(todo[l]) \in Nat /\ waited[l] \in Nat
           /\ pc[l] \in {"stats", "restart"} => Len(todo[l]) # 0
           /\ todo[l] # <<>> => Tail(todo[l]) \in Seq(Tenants)
                                /\ Len(Tail(todo[l])) = Len(todo[l]) - 1
<1>1. todo[l] \in Seq(Tenants)
  BY DEF Inv, TypeOK
<1>2. waited[l] \in Nat
  BY LimitsTyped DEF Inv, TypeOK, MaxOf
<1>3. pc[l] \in {"stats", "restart"} => todo[l] # <<>>
  BY DEF Inv, Own, Reclaims
<1> QED BY <1>1, <1>2, <1>3

(* The counts at the program points that a reclaim goes through, and at    *)
(* the others.                                                             *)
LEMMA ReclaimCounts ==
    ASSUME Inv, NEW l \in Launches
    PROVE  /\ pc[l] = "inspect" => StepsLeft(l) = ReclaimSteps(Len(todo[l]))
           /\ pc[l] = "stats" =>
                StepsLeft(l) = ReclaimSteps(Len(todo[l]) - 1) + 2 + (BusyPolls - waited[l])
           /\ pc[l] = "restart" => StepsLeft(l) = ReclaimSteps(Len(todo[l]) - 1) + 1
           /\ pc[l] = "resize" => StepsLeft(l) = ResizeSteps - waited[l]
BY DEF StepsLeft, Over

LEMMA OtherCounts ==
    ASSUME Inv, NEW l \in Launches
    PROVE  /\ pc[l] = "worker" => StepsLeft(l) = ReclaimSteps(Len(todo[l])) + 2
           /\ pc[l] = "start" => StepsLeft(l) = ReclaimSteps(Len(todo[l])) + 1
           /\ pc[l] = "pair" => StepsLeft(l) = 3
           /\ pc[l] = "run" => StepsLeft(l) = 2
           /\ pc[l] = "up" => StepsLeft(l) = 1
           /\ pc[l] \in Over => StepsLeft(l) = 0
BY DEF StepsLeft, Over

(* A look, a wait, a restart and the passing over of a busy container each *)
(* count for at least one.                                                 *)
LEMMA LooksCount ==
    ASSUME NEW rest \in Nat, NEW limit \in Nat
    PROVE  /\ rest + 2 + limit \in 0..(rest + limit + 3 - 1)
           /\ \A w \in 0..limit :
                /\ rest \in 0..(rest + 2 + (limit - w) - 1)
                /\ rest + 1 \in 0..(rest + 2 + (limit - w) - 1)
                /\ w # limit => rest + 2 + (limit - (w + 1))
                                  \in 0..(rest + 2 + (limit - w) - 1)
OBVIOUS

(* The steps up to the first sizing, and those after the reclaim.          *)
LEMMA SizingCounted ==
    ASSUME Inv, Inv', NEW l \in Launches, Waits(l),
           ReadWorker(l) \/ FirstSizing(l) \/ SizePair(l) \/ Abort(l) \/ Load(l)
    PROVE  Counted(l)
<1>1. todo'[l] = todo[l] /\ waited'[l] = waited[l]
  BY DEF ReadWorker, FirstSizing, SizePair, Abort, Load, launch
<1>2. \/ pc[l] = "worker" /\ pc'[l] \in {"start", "fatal"}
      \/ pc[l] = "start" /\ pc'[l] \in {"inspect", "fatal", "pair", "run"}
      \/ pc[l] = "pair" /\ pc'[l] \in {"fatal", "run"}
      \/ pc[l] = "run" /\ pc'[l] \in {"gone", "up"}
  BY DEF ReadWorker, FirstSizing, SizePair, Abort, Load, Goto, Verdict, Inv, TypeOK
<1>3. ReclaimSteps(Len(todo[l])) \in Nat /\ ReclaimSteps(Len(todo[l])) > ResizeSteps
      /\ ResizeSteps \in Nat /\ ResizeSteps >= 4
  <2>1. Len(todo[l]) \in Nat
    BY OwnTyped
  <2>2. ResizeSteps \in Nat /\ ResizeSteps >= 4
    BY LimitsTyped
  <2> QED BY <2>1, <2>2, ReclaimAdds
<1>4. Waits(l)'
  BY <1>2 DEF Waits
<1>5. StepsLeft(l)' = CASE pc'[l] = "start" -> ReclaimSteps(Len(todo[l])) + 1
                        [] pc'[l] = "inspect" -> ReclaimSteps(Len(todo[l]))
                        [] pc'[l] = "pair" -> 3
                        [] pc'[l] = "run" -> 2
                        [] pc'[l] = "up" -> 1
                        [] pc'[l] \in Over -> 0
  BY <1>1, <1>2 DEF StepsLeft, ReclaimSteps, ResizeSteps, Over
<1>6. StepsLeft(l)' \in 0..(StepsLeft(l) - 1)
  <2>1. CASE pc[l] = "worker"
    <3>1. StepsLeft(l) = ReclaimSteps(Len(todo[l])) + 2
      BY <2>1, OtherCounts
    <3> QED BY <1>2, <1>3, <1>5, <2>1, <3>1 DEF Over
  <2>2. CASE pc[l] = "start"
    <3>1. StepsLeft(l) = ReclaimSteps(Len(todo[l])) + 1
      BY <2>2, OtherCounts
    <3> QED BY <1>2, <1>3, <1>5, <2>2, <3>1 DEF Over
  <2>3. CASE pc[l] = "pair"
    BY <1>2, <1>5, <2>3, OtherCounts DEF Over
  <2>4. CASE pc[l] = "run"
    BY <1>2, <1>5, <2>4, OtherCounts DEF Over
  <2> QED BY <1>2, <2>1, <2>2, <2>3, <2>4
<1> QED BY <1>4, <1>6 DEF Counted

(* The reclaim: each container that is passed over, waited for or          *)
(* restarted takes what it added off.                                      *)
LEMMA ReclaimCounted ==
    ASSUME Inv, Inv', NEW l \in Launches, Waits(l),
           Inspect(l) \/ ReadCpu(l) \/ Restart(l)
    PROVE  Counted(l)
<1> DEFINE n == Len(todo[l])
           rest == ReclaimSteps(n - 1)
<1>1. n \in Nat /\ waited[l] \in Nat /\ BusyPolls \in Nat /\ ResizeSteps \in Nat
  BY OwnTyped, LimitsTyped
<1>2. todo[l] # <<>> => n # 0 /\ Len(Tail(todo[l])) = n - 1
  BY OwnTyped
<1>3. /\ ReclaimSteps(n) \in Nat /\ ReclaimSteps(n) > ResizeSteps
      /\ n # 0 => rest \in Nat /\ ReclaimSteps(n) = rest + BusyPolls + 3
  BY <1>1, ReclaimAdds
<1>4. todo[l] # <<>> => ReclaimSteps(Len(Tail(todo[l]))) = rest
  BY <1>2
<1> HIDE DEF n, rest
<1>5. CASE Inspect(l)
  <2>1. StepsLeft(l) = ReclaimSteps(n)
    BY <1>5, ReclaimCounts DEF Inspect, n
  <2>2. waited'[l] = 0
    BY <1>5 DEF Inspect, Inv, TypeOK
  <2>3. CASE todo[l] = <<>>
    <3>1. pc'[l] = "resize"
      BY <1>5, <2>3 DEF Inspect, Goto, Inv, TypeOK
    <3>2. StepsLeft(l)' = ResizeSteps
      BY <2>2, <3>1, LimitsTyped DEF StepsLeft, ResizeSteps, Over
    <3> QED BY <1>1, <1>3, <2>1, <2>2, <3>1, <3>2, LimitsTyped DEF Counted, Waits
  <2>4. CASE todo[l] # <<>> /\ Head(todo[l]) \in running
    <3>1. pc'[l] = "stats" /\ todo'[l] = todo[l]
      BY <1>5, <2>4 DEF Inspect, Goto, Inv, TypeOK
    <3>2. StepsLeft(l)' = rest + 2 + BusyPolls
      BY <1>1, <2>2, <3>1 DEF StepsLeft, ReclaimSteps, ResizeSteps, Over, n, rest
    <3>3. StepsLeft(l)' \in 0..(StepsLeft(l) - 1)
      <4>1. rest \in Nat /\ StepsLeft(l) = rest + BusyPolls + 3
        BY <1>2, <1>3, <2>1, <2>4
      <4> QED BY <1>1, <3>2, <4>1, LooksCount
    <3> QED BY <1>1, <2>2, <3>1, <3>3 DEF Counted, Waits
  <2>5. CASE todo[l] # <<>> /\ Head(todo[l]) \notin running
    <3>1. pc'[l] = "inspect" /\ todo'[l] = Tail(todo[l])
      BY <1>5, <2>5 DEF Inspect, Goto, Inv, TypeOK
    <3>2. StepsLeft(l)' = rest
      BY <1>4, <2>5, <3>1 DEF StepsLeft, ReclaimSteps, ResizeSteps, Over
    <3> QED BY <1>1, <1>2, <1>3, <2>1, <2>5, <3>1, <3>2 DEF Counted, Waits
  <2> QED BY <2>3, <2>4, <2>5
<1>6. CASE ReadCpu(l)
  <2>1. pc[l] = "stats" /\ n # 0 /\ waited[l] <= BusyPolls /\ todo[l] # <<>>
    BY <1>6, OwnTyped DEF ReadCpu, Waits, n, Inv, Own, Reclaims
  <2>2. StepsLeft(l) = rest + 2 + (BusyPolls - waited[l])
    BY <2>1, ReclaimCounts DEF n, rest
  <2>3. \/ pc'[l] = "restart" /\ todo'[l] = todo[l]
        \/ pc'[l] = "inspect" /\ todo'[l] = Tail(todo[l])
        \/ /\ pc'[l] = "stats" /\ todo'[l] = todo[l]
           /\ ~(waited[l] >= BusyPolls) /\ waited'[l] = waited[l] + 1
    BY <1>6, <2>1 DEF ReadCpu, Goto, Inv, TypeOK
  <2> rest \in Nat /\ BusyPolls \in Nat /\ waited[l] \in 0..BusyPolls
    BY <1>1, <1>3, <2>1
  <2>4. CASE pc'[l] = "restart" /\ todo'[l] = todo[l]
    <3>1. StepsLeft(l)' = rest + 1
      BY <2>4 DEF StepsLeft, ReclaimSteps, ResizeSteps, Over, n, rest
    <3>2. StepsLeft(l)' \in 0..(StepsLeft(l) - 1)
      BY <2>2, <3>1, LooksCount
    <3> QED BY <2>4, <3>2 DEF Counted, Waits
  <2>5. CASE pc'[l] = "inspect" /\ todo'[l] = Tail(todo[l])
    <3>1. StepsLeft(l)' = rest
      BY <1>4, <2>1, <2>5 DEF StepsLeft, ReclaimSteps, ResizeSteps, Over
    <3>2. StepsLeft(l)' \in 0..(StepsLeft(l) - 1)
      BY <2>2, <3>1, LooksCount
    <3> QED BY <2>5, <3>2 DEF Counted, Waits
  <2>6. CASE /\ pc'[l] = "stats" /\ todo'[l] = todo[l]
             /\ ~(waited[l] >= BusyPolls) /\ waited'[l] = waited[l] + 1
    <3>1. StepsLeft(l)' = rest + 2 + (BusyPolls - (waited[l] + 1))
      BY <2>6 DEF StepsLeft, ReclaimSteps, ResizeSteps, Over, n, rest
    <3>2. StepsLeft(l)' \in 0..(StepsLeft(l) - 1)
      <4>1. waited[l] # BusyPolls
        BY <2>6
      <4> QED BY <2>2, <3>1, <4>1, LooksCount
    <3> QED BY <1>1, <2>1, <2>6, <3>2 DEF Counted, Waits
  <2> QED BY <2>3, <2>4, <2>5, <2>6
<1>7. CASE Restart(l)
  <2>1. pc[l] = "restart" /\ n # 0 /\ todo[l] # <<>>
    BY <1>7, OwnTyped DEF Restart, n, Inv, Own, Reclaims
  <2>2. StepsLeft(l) = rest + 1
    BY <2>1, ReclaimCounts DEF n, rest
  <2>3. pc'[l] = "inspect" /\ todo'[l] = Tail(todo[l])
    BY <1>7 DEF Restart, Goto, Inv, TypeOK
  <2>4. StepsLeft(l)' = rest
    BY <1>4, <2>1, <2>3 DEF StepsLeft, ReclaimSteps, ResizeSteps, Over
  <2>5. StepsLeft(l)' \in 0..(StepsLeft(l) - 1)
    BY <1>1, <1>2, <1>3, <2>1, <2>2, <2>4
  <2> QED BY <2>3, <2>5 DEF Counted, Waits
<1> QED BY <1>5, <1>6, <1>7

LEMMA ResizeCounted ==
    ASSUME Inv, Inv', NEW l \in Launches, Waits(l), Resize(l)
    PROVE  Counted(l)
<1>1. waited[l] \in Nat /\ waited[l] <= WaitPolls /\ WaitPolls \in Nat
      /\ ResizeSteps = WaitPolls + 4
  BY OwnTyped, LimitsTyped DEF Resize, Waits
<1>2. StepsLeft(l) = ResizeSteps - waited[l]
  BY ReclaimCounts DEF Resize
<1>3. \/ pc'[l] = "resize" /\ waited[l] < WaitPolls /\ waited'[l] = waited[l] + 1
      \/ pc'[l] \in {"fatal", "pair", "run"}
  BY DEF Resize, Goto, Verdict, Inv, TypeOK
<1>4. CASE pc'[l] = "resize" /\ waited[l] < WaitPolls /\ waited'[l] = waited[l] + 1
  <2>1. StepsLeft(l)' = ResizeSteps - (waited[l] + 1)
    BY <1>4 DEF StepsLeft, ResizeSteps, Over
  <2> QED BY <1>1, <1>2, <1>4, <2>1 DEF Counted, Waits
<1>5. CASE pc'[l] \in {"fatal", "pair", "run"}
  <2>1. StepsLeft(l)' \in 0..3
    BY <1>5 DEF StepsLeft, Over
  <2> QED BY <1>1, <1>2, <1>5, <2>1 DEF Counted, Waits
<1> QED BY <1>3, <1>4, <1>5

(* An unload or a kill ends the launch, or leaves it where it is.          *)
LEMMA EndCounted ==
    ASSUME Inv, Inv', NEW l \in Launches, Waits(l), Unload(l) \/ Kill(l)
    PROVE  Counted(l)
<1>1. todo'[l] = todo[l] /\ waited'[l] = waited[l] /\ pc[l] \notin Over
  BY DEF Unload, Kill, launch
<1>2. pc'[l] = pc[l] \/ pc'[l] \in Over
  BY DEF Unload, Kill, Goto, Inv, TypeOK, Over
<1>3. CASE pc'[l] = pc[l]
  BY <1>1, <1>3 DEF Counted, Stays, Waits
<1>4. CASE pc'[l] \in Over
  <2>1. StepsLeft(l)' = 0
    BY <1>4 DEF StepsLeft, Over
  <2>2. StepsLeft(l) \in Nat \ {0}
    <3>1. /\ Len(todo[l]) \in Nat /\ waited[l] \in Nat
          /\ pc[l] \in {"stats", "restart"} => Len(todo[l]) # 0
      BY OwnTyped
    <3>2. /\ BusyPolls \in Nat /\ WaitPolls \in Nat /\ ResizeSteps = WaitPolls + 4
      BY LimitsTyped
    <3>3. /\ ReclaimSteps(Len(todo[l])) \in Nat \ {0}
          /\ pc[l] \in {"stats", "restart"} => ReclaimSteps(Len(todo[l]) - 1) \in Nat
      <4>1. Len(todo[l]) \in Nat /\ ResizeSteps \in Nat
        BY <3>1, <3>2
      <4>2. /\ ReclaimSteps(Len(todo[l])) \in Nat
            /\ ReclaimSteps(Len(todo[l])) > ResizeSteps
            /\ Len(todo[l]) # 0 => ReclaimSteps(Len(todo[l]) - 1) \in Nat
        BY <4>1, ReclaimAdds
      <4> QED BY <3>1, <4>1, <4>2
    <3>4. pc[l] \in {"worker", "start", "inspect", "stats", "restart", "resize",
                     "pair", "run", "up"}
      BY <1>1 DEF Inv, TypeOK
    <3>5. CASE pc[l] \in {"inspect", "stats", "restart", "resize"}
      BY <3>1, <3>2, <3>3, <3>5, ReclaimCounts DEF Waits
    <3>6. CASE pc[l] \in {"worker", "start", "pair", "run", "up"}
      BY <3>3, <3>6, OtherCounts
    <3> QED BY <3>4, <3>5, <3>6
  <2> QED BY <1>4, <2>1, <2>2 DEF Counted, Waits, Over
<1> QED BY <1>2, <1>3, <1>4

LEMMA CountStep ==
    ASSUME WaitInv, Inv', [Next]_vars, NEW l \in Launches
    PROVE  Counted(l)
<1> USE DEF WaitInv
<1>1. CASE LaunchStep(l) \/ Unload(l) \/ Kill(l)
  BY <1>1, SizingCounted, ReclaimCounted, ResizeCounted, EndCounted DEF LaunchStep
<1>2. CASE ~(LaunchStep(l) \/ Unload(l) \/ Kill(l))
  <2>1. Stays(l)
    <3>1. pc = [k \in Launches |-> pc[k]] /\ todo = [k \in Launches |-> todo[k]]
          /\ waited = [k \in Launches |-> waited[k]]
      BY DEF Inv, TypeOK
    <3>2. ASSUME NEW k \in Launches, k # l, LaunchStep(k) \/ Unload(k) \/ Kill(k)
          PROVE  Stays(l)
      <4> USE <3>1, <3>2 DEF Stays, Goto, launch
      <4>1. CASE ReadWorker(k)           BY <4>1 DEF ReadWorker
      <4>2. CASE FirstSizing(k)          BY <4>2 DEF FirstSizing
      <4>3. CASE Inspect(k)              BY <4>3 DEF Inspect
      <4>4. CASE ReadCpu(k)              BY <4>4 DEF ReadCpu
      <4>5. CASE Restart(k)              BY <4>5 DEF Restart
      <4>6. CASE Resize(k)               BY <4>6 DEF Resize
      <4>7. CASE SizePair(k)             BY <4>7 DEF SizePair
      <4>8. CASE Abort(k) \/ Kill(k)     BY <4>8 DEF Abort, Kill
      <4>9. CASE Load(k) \/ Unload(k)    BY <4>9 DEF Load, Unload
      <4> QED BY <3>2, <4>1, <4>2, <4>3, <4>4, <4>5, <4>6, <4>7, <4>8, <4>9
              DEF LaunchStep
    <3>3. ASSUME NEW t \in Tenants,
                 JobStarts(t) \/ JobEnds(t) \/ MemoryReturns(t) \/ TenantStops(t)
          PROVE  Stays(l)
      BY <3>3 DEF JobStarts, JobEnds, MemoryReturns, TenantStops, Stays, launch
    <3>4. CASE UNCHANGED vars
      BY <3>4 DEF vars, launch, Stays
    <3> QED BY <1>2, <3>2, <3>3, <3>4 DEF Next
  <2> QED BY <2>1 DEF Counted, Stays, Waits
<1> QED BY <1>1, <1>2

(* Each step of a launch uses up one of a number that its configuration    *)
(* fixes: its list of containers and the two limits on waiting.            *)
THEOREM LaunchIsBounded == Spec => StepsAreCounted
<1>1. Init => WaitInv
  BY InvInit DEF Init, WaitInv, Waits
<1>2. WaitInv /\ [Next]_vars => WaitInv'
  BY InvStep, CountStep DEF WaitInv, Counted
<1>3. WaitInv /\ [Next]_vars =>
        [\A l \in Launches :
            <<pc[l], todo[l], waited[l]>>' # <<pc[l], todo[l], waited[l]>>
              => StepsLeft(l)' \in 0..(StepsLeft(l) - 1)]_vars
  <2> SUFFICES ASSUME WaitInv, Next, NEW l \in Launches,
                      <<pc[l], todo[l], waited[l]>>' # <<pc[l], todo[l], waited[l]>>
               PROVE  StepsLeft(l)' \in 0..(StepsLeft(l) - 1)
    OBVIOUS
  <2>1. Counted(l) /\ ~Stays(l)
    BY InvStep, CountStep DEF WaitInv, Stays
  <2> QED BY <2>1 DEF Counted
<1> QED BY <1>1, <1>2, <1>3, PTL DEF Spec, StepsAreCounted
=============================================================================
