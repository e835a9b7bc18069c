------------------------- MODULE ClusterLaunchProofs -------------------------
(***************************************************************************)
(* Proofs about ClusterLaunch, for every set of models, any number of      *)
(* launches and misses, with and without ssh failures and SIGKILL.         *)
(***************************************************************************)
EXTENDS ClusterLaunch, TLAPS

-----------------------------------------------------------------------------
(* The inductive invariant.  The safety properties speak of the end of a   *)
(* story (a head that must have been told, a worker that must be gone);    *)
(* these conjuncts say what each program point already knows on the way.   *)

\* what a launcher has done by the time it is at pc
BeforeProc == {"boot", "await", "fail_stop", "check_head", "popen", "assign"}
                  \cup Early
AfterVerdict == {"wait_end", "cleanup", "none"}

\* the handler can reach the head as soon as the launcher waits for it
ProcKnown ==
    /\ pc \in BeforeProc => ~proc
    /\ pc \in {"recheck"} \cup Waiting => proc

\* a `docker run` nobody waits for is already counted as a possible leftover
OrphanCounted == orphanReq \subseteq lostWorker

\* while no signal cut the polling short, misses are consecutive
MissesConsecutive ==
    /\ ~sig /\ pc \notin {"polled"} \cup AfterVerdict
          => misses <= streak /\ misses < PollMisses
    /\ ~sig /\ pc = "polled" /\ status = "unknown" => misses + 1 <= streak

VerdictLast == died => pc \in AfterVerdict

SignalInv == ProcKnown /\ SignalReachesHead
LeftoverInv == OrphanCounted /\ NoLeftoverWorker /\ NoLeftoverHead
VerdictInv == MissesConsecutive /\ VerdictLast /\ HeadStoppedForCause
Inv == SignalInv /\ LeftoverInv /\ VerdictInv

-----------------------------------------------------------------------------
(* Every step keeps the variables in their types.                          *)
THEOREM TypeCorrect == Spec => []TypeOK
<1>1. Init => TypeOK
  <2> SUFFICES ASSUME Init PROVE TypeOK
    OBVIOUS
  <2>1. PollMisses \in Nat /\ MaxLaunches \in Nat
    BY LaunchAssumption
  <2>2. 0 \in 0..PollMisses /\ 0 \in 0..(PollMisses - 1) /\ 0 \in 0..MaxLaunches
    BY LaunchAssumption, <2>1
  <2>3. /\ worker \in [Models -> BOOLEAN]
        /\ head \in [Models -> HeadStates]
    BY DEF Init, HeadStates
  <2> QED
    BY <2>2, <2>3 DEF Init, TypeOK, PCs, Statuses
<1>2. TypeOK /\ [Next]_vars => TypeOK'
  <2> SUFFICES ASSUME TypeOK, [Next]_vars PROVE TypeOK'
    OBVIOUS
  <2> USE LaunchAssumption DEF TypeOK, local, remote, heads
  <2> USE DEF PCs, Early, Started, InFinally, HeadRuns, Waiting
  <2>1. ASSUME NEW m \in Models, Launch(m) PROVE TypeOK'
    <3>1. launches' \in 0..MaxLaunches /\ 0 \in 0..PollMisses /\ 0 \in 0..(PollMisses - 1)
      BY <2>1 DEF Launch
    <3> QED BY <2>1, <3>1 DEF Launch, Statuses
  <2>2. CASE Unload
    BY <2>2 DEF Unload
  <2>3. CASE LauncherStep
    <3>1. CASE InstallAbort      BY <3>1 DEF InstallAbort
    <3>2. CASE Preflight         BY <3>2 DEF Preflight
    <3>3. CASE RemoveStaleHead   BY <3>3 DEF RemoveStaleHead, HeadStates
    <3>4. CASE RemoveStaleWorker BY <3>4 DEF RemoveStaleWorker
    <3>5. CASE SizeBoth          BY <3>5 DEF SizeBoth
    <3>6. CASE CheckBeforeWorker BY <3>6 DEF CheckBeforeWorker
    <3>7. CASE WorkerRunReturns  BY <3>7 DEF WorkerRunReturns
    <3>8. CASE StopAfterFailedRun
      BY <3>8 DEF StopAfterFailedRun, StopWorkerCall
    <3>9. CASE CheckBeforeHead   BY <3>9 DEF CheckBeforeHead
    <3>10. CASE StartHead        BY <3>10 DEF StartHead, HeadStates
    <3>11. CASE AssignProc       BY <3>11 DEF AssignProc
    <3>12. CASE Recheck          BY <3>12 DEF Recheck, Signalled, HeadStates
    <3>13. CASE HeadEnded        BY <3>13 DEF HeadEnded
    <3>14. CASE WaitTimesOut     BY <3>14 DEF WaitTimesOut
    <3>15. CASE PollWorker       BY <3>15 DEF PollWorker, Statuses
    <3>16. CASE JudgeWorker
      <4>1. misses' \in 0..(PollMisses - 1)
        BY <3>16 DEF JudgeWorker, TrustsWorker, Missed, Statuses
      <4>2. head' \in [Models -> HeadStates]
        BY <3>16 DEF JudgeWorker, Signalled, HeadStates
      <4> QED BY <3>16, <4>1, <4>2 DEF JudgeWorker
    <3>17. CASE Cleanup          BY <3>17 DEF Cleanup, StopWorkerCall
    <3> QED
      BY <2>3, <3>1, <3>2, <3>3, <3>4, <3>5, <3>6, <3>7, <3>8, <3>9, <3>10,
         <3>11, <3>12, <3>13, <3>14, <3>15, <3>16, <3>17 DEF LauncherStep
  <2>4. CASE StopperStep
    <3>1. CASE SignalLauncher
      BY <3>1 DEF SignalLauncher, Signalled, HeadStates
    <3>2. CASE StopperStopsWorker BY <3>2 DEF StopperStopsWorker
    <3>3. CASE StopperStopsHead   BY <3>3 DEF StopperStopsHead, HeadStates
    <3> QED BY <2>4, <3>1, <3>2, <3>3 DEF StopperStep
  <2>5. CASE Environment
    <3>1. CASE KillLauncher BY <3>1 DEF KillLauncher
    <3>2. ASSUME NEW m \in Models, OrphanRunCompletes(m) PROVE TypeOK'
      BY <3>2 DEF OrphanRunCompletes
    <3>3. ASSUME NEW m \in Models, WorkerExits(m) PROVE TypeOK'
      BY <3>3 DEF WorkerExits
    <3>4. ASSUME NEW m \in Models, HeadExits(m) PROVE TypeOK'
      BY <3>4 DEF HeadExits, HeadStates
    <3>5. ASSUME NEW m \in Models, HeadTerminates(m) PROVE TypeOK'
      BY <3>5 DEF HeadTerminates, HeadStates
    <3> QED BY <2>5, <3>1, <3>2, <3>3, <3>4, <3>5 DEF Environment
  <2>6. CASE UNCHANGED vars
    BY <2>6 DEF vars
  <2> QED BY <2>1, <2>2, <2>3, <2>4, <2>5, <2>6 DEF Next
<1> QED BY <1>1, <1>2, PTL DEF Spec

-----------------------------------------------------------------------------
(* Recording, forwarding and reassigning: no step breaks the link between *)
(* the recorded signal and the head.                                       *)
LEMMA SignalStep ==
    ASSUME TypeOK, SignalInv, [Next]_vars
    PROVE  SignalInv'
<1> USE DEF SignalInv, ProcKnown, SignalReachesHead, TypeOK, local, remote,
           heads, Early, Started, InFinally, HeadRuns, Waiting, BeforeProc
<1>1. ASSUME NEW m \in Models, Launch(m) PROVE SignalInv'
  BY <1>1 DEF Launch
<1>2. CASE Unload
  BY <1>2 DEF Unload
<1>3. CASE LauncherStep
  <2>1. CASE InstallAbort BY <2>1 DEF InstallAbort
  <2>2. CASE Preflight BY <2>2 DEF Preflight
  <2>3. CASE RemoveStaleHead BY <2>3 DEF RemoveStaleHead
  <2>4. CASE RemoveStaleWorker BY <2>4 DEF RemoveStaleWorker
  <2>5. CASE SizeBoth BY <2>5 DEF SizeBoth
  <2>6. CASE CheckBeforeWorker BY <2>6 DEF CheckBeforeWorker
  <2>7. CASE WorkerRunReturns BY <2>7 DEF WorkerRunReturns
  <2>8. CASE StopAfterFailedRun BY <2>8 DEF StopAfterFailedRun, StopWorkerCall
  <2>9. CASE CheckBeforeHead BY <2>9 DEF CheckBeforeHead
  <2>10. CASE StartHead BY <2>10 DEF StartHead
  <2>11. CASE AssignProc BY <2>11 DEF AssignProc
  <2>12. CASE Recheck BY <2>12 DEF Recheck, Signalled
  <2>13. CASE HeadEnded BY <2>13 DEF HeadEnded
  <2>14. CASE WaitTimesOut BY <2>14 DEF WaitTimesOut
  <2>15. CASE PollWorker BY <2>15 DEF PollWorker
  <2>16. CASE JudgeWorker BY <2>16 DEF JudgeWorker, TrustsWorker, Missed, Signalled
  <2>17. CASE Cleanup BY <2>17 DEF Cleanup, StopWorkerCall
  <2> QED
    BY <1>3, <2>1, <2>2, <2>3, <2>4, <2>5, <2>6, <2>7, <2>8, <2>9, <2>10, <2>11, <2>12, <2>13, <2>14, <2>15, <2>16, <2>17
       DEF LauncherStep
<1>4. CASE StopperStep
  <2>1. CASE SignalLauncher BY <2>1 DEF SignalLauncher, Signalled
  <2>2. CASE StopperStopsWorker BY <2>2 DEF StopperStopsWorker
  <2>3. CASE StopperStopsHead BY <2>3 DEF StopperStopsHead
  <2> QED BY <1>4, <2>1, <2>2, <2>3 DEF StopperStep
<1>5. CASE Environment
  <2>1. CASE KillLauncher BY <2>1 DEF KillLauncher
  <2>2. ASSUME NEW m \in Models, OrphanRunCompletes(m) PROVE SignalInv'
    BY <2>2 DEF OrphanRunCompletes
  <2>3. ASSUME NEW m \in Models, WorkerExits(m) PROVE SignalInv'
    BY <2>3 DEF WorkerExits
  <2>4. ASSUME NEW m \in Models, HeadExits(m) PROVE SignalInv'
    BY <2>4 DEF HeadExits
  <2>5. ASSUME NEW m \in Models, HeadTerminates(m) PROVE SignalInv'
    BY <2>5 DEF HeadTerminates
  <2> QED BY <1>5, <2>1, <2>2, <2>3, <2>4, <2>5 DEF Environment
<1>6. CASE UNCHANGED vars
  BY <1>6 DEF vars
<1> QED BY <1>1, <1>2, <1>3, <1>4, <1>5, <1>6 DEF Next

(* A container without its launcher is always accounted for.               *)
LEMMA LeftoverStep ==
    ASSUME TypeOK, LeftoverInv, [Next]_vars
    PROVE  LeftoverInv'
<1> USE DEF LeftoverInv, OrphanCounted, NoLeftoverWorker, NoLeftoverHead,
           TypeOK, local, remote, heads, Early, Started, InFinally, HeadRuns, Waiting, BeforeProc
<1>1. ASSUME NEW m \in Models, Launch(m) PROVE LeftoverInv'
  BY <1>1 DEF Launch
<1>2. CASE Unload
  BY <1>2 DEF Unload
<1>3. CASE LauncherStep
  <2>1. CASE InstallAbort BY <2>1 DEF InstallAbort
  <2>2. CASE Preflight BY <2>2 DEF Preflight
  <2>3. CASE RemoveStaleHead BY <2>3 DEF RemoveStaleHead
  <2>4. CASE RemoveStaleWorker BY <2>4 DEF RemoveStaleWorker
  <2>5. CASE SizeBoth BY <2>5 DEF SizeBoth
  <2>6. CASE CheckBeforeWorker BY <2>6 DEF CheckBeforeWorker
  <2>7. CASE WorkerRunReturns BY <2>7 DEF WorkerRunReturns
  <2>8. CASE StopAfterFailedRun BY <2>8 DEF StopAfterFailedRun, StopWorkerCall
  <2>9. CASE CheckBeforeHead BY <2>9 DEF CheckBeforeHead
  <2>10. CASE StartHead BY <2>10 DEF StartHead
  <2>11. CASE AssignProc BY <2>11 DEF AssignProc
  <2>12. CASE Recheck BY <2>12 DEF Recheck, Signalled
  <2>13. CASE HeadEnded BY <2>13 DEF HeadEnded
  <2>14. CASE WaitTimesOut BY <2>14 DEF WaitTimesOut
  <2>15. CASE PollWorker BY <2>15 DEF PollWorker
  <2>16. CASE JudgeWorker BY <2>16 DEF JudgeWorker, TrustsWorker, Missed, Signalled
  <2>17. CASE Cleanup BY <2>17 DEF Cleanup, StopWorkerCall
  <2> QED
    BY <1>3, <2>1, <2>2, <2>3, <2>4, <2>5, <2>6, <2>7, <2>8, <2>9, <2>10, <2>11, <2>12, <2>13, <2>14, <2>15, <2>16, <2>17
       DEF LauncherStep
<1>4. CASE StopperStep
  <2>1. CASE SignalLauncher BY <2>1 DEF SignalLauncher, Signalled
  <2>2. CASE StopperStopsWorker BY <2>2 DEF StopperStopsWorker
  <2>3. CASE StopperStopsHead BY <2>3 DEF StopperStopsHead
  <2> QED BY <1>4, <2>1, <2>2, <2>3 DEF StopperStep
<1>5. CASE Environment
  <2>1. CASE KillLauncher BY <2>1 DEF KillLauncher
  <2>2. ASSUME NEW m \in Models, OrphanRunCompletes(m) PROVE LeftoverInv'
    BY <2>2 DEF OrphanRunCompletes
  <2>3. ASSUME NEW m \in Models, WorkerExits(m) PROVE LeftoverInv'
    BY <2>3 DEF WorkerExits
  <2>4. ASSUME NEW m \in Models, HeadExits(m) PROVE LeftoverInv'
    BY <2>4 DEF HeadExits
  <2>5. ASSUME NEW m \in Models, HeadTerminates(m) PROVE LeftoverInv'
    BY <2>5 DEF HeadTerminates
  <2> QED BY <1>5, <2>1, <2>2, <2>3, <2>4, <2>5 DEF Environment
<1>6. CASE UNCHANGED vars
  BY <1>6 DEF vars
<1> QED BY <1>1, <1>2, <1>3, <1>4, <1>5, <1>6 DEF Next

(* The misses the launcher counts are consecutive unanswered polls.        *)
LEMMA VerdictStep ==
    ASSUME TypeOK, VerdictInv, [Next]_vars
    PROVE  VerdictInv'
<1> USE LaunchAssumption DEF VerdictInv, MissesConsecutive, VerdictLast, HeadStoppedForCause,
           TypeOK, local, remote, heads, Statuses, AfterVerdict, Early, Started, InFinally, HeadRuns, Waiting, BeforeProc
<1>1. ASSUME NEW m \in Models, Launch(m) PROVE VerdictInv'
  BY <1>1 DEF Launch
<1>2. CASE Unload
  BY <1>2 DEF Unload
<1>3. CASE LauncherStep
  <2>1. CASE InstallAbort BY <2>1 DEF InstallAbort
  <2>2. CASE Preflight BY <2>2 DEF Preflight
  <2>3. CASE RemoveStaleHead BY <2>3 DEF RemoveStaleHead
  <2>4. CASE RemoveStaleWorker BY <2>4 DEF RemoveStaleWorker
  <2>5. CASE SizeBoth BY <2>5 DEF SizeBoth
  <2>6. CASE CheckBeforeWorker BY <2>6 DEF CheckBeforeWorker
  <2>7. CASE WorkerRunReturns BY <2>7 DEF WorkerRunReturns
  <2>8. CASE StopAfterFailedRun BY <2>8 DEF StopAfterFailedRun, StopWorkerCall
  <2>9. CASE CheckBeforeHead BY <2>9 DEF CheckBeforeHead
  <2>10. CASE StartHead BY <2>10 DEF StartHead
  <2>11. CASE AssignProc BY <2>11 DEF AssignProc
  <2>12. CASE Recheck BY <2>12 DEF Recheck, Signalled
  <2>13. CASE HeadEnded BY <2>13 DEF HeadEnded
  <2>14. CASE WaitTimesOut BY <2>14 DEF WaitTimesOut
  <2>15. CASE PollWorker BY <2>15 DEF PollWorker
  <2>16. CASE JudgeWorker BY <2>16 DEF JudgeWorker, TrustsWorker, Missed, Signalled
  <2>17. CASE Cleanup BY <2>17 DEF Cleanup, StopWorkerCall
  <2> QED
    BY <1>3, <2>1, <2>2, <2>3, <2>4, <2>5, <2>6, <2>7, <2>8, <2>9, <2>10, <2>11, <2>12, <2>13, <2>14, <2>15, <2>16, <2>17
       DEF LauncherStep
<1>4. CASE StopperStep
  <2>1. CASE SignalLauncher BY <2>1 DEF SignalLauncher, Signalled
  <2>2. CASE StopperStopsWorker BY <2>2 DEF StopperStopsWorker
  <2>3. CASE StopperStopsHead BY <2>3 DEF StopperStopsHead
  <2> QED BY <1>4, <2>1, <2>2, <2>3 DEF StopperStep
<1>5. CASE Environment
  <2>1. CASE KillLauncher BY <2>1 DEF KillLauncher
  <2>2. ASSUME NEW m \in Models, OrphanRunCompletes(m) PROVE VerdictInv'
    BY <2>2 DEF OrphanRunCompletes
  <2>3. ASSUME NEW m \in Models, WorkerExits(m) PROVE VerdictInv'
    BY <2>3 DEF WorkerExits
  <2>4. ASSUME NEW m \in Models, HeadExits(m) PROVE VerdictInv'
    BY <2>4 DEF HeadExits
  <2>5. ASSUME NEW m \in Models, HeadTerminates(m) PROVE VerdictInv'
    BY <2>5 DEF HeadTerminates
  <2> QED BY <1>5, <2>1, <2>2, <2>3, <2>4, <2>5 DEF Environment
<1>6. CASE UNCHANGED vars
  BY <1>6 DEF vars
<1> QED BY <1>1, <1>2, <1>3, <1>4, <1>5, <1>6 DEF Next

(* Everything the safety properties rest on holds in every reachable state. *)
THEOREM Invariance == Spec => []Inv
<1>1. Init => Inv
  BY LaunchAssumption
     DEF Init, Inv, SignalInv, LeftoverInv, VerdictInv, ProcKnown, SignalReachesHead,
         OrphanCounted, NoLeftoverWorker, NoLeftoverHead, MissesConsecutive,
         VerdictLast, HeadStoppedForCause, BeforeProc, AfterVerdict, Early, Waiting
<1>2. TypeOK /\ Inv /\ [Next]_vars => Inv'
  BY SignalStep, LeftoverStep, VerdictStep DEF Inv
<1> QED BY <1>1, <1>2, TypeCorrect, PTL DEF Spec

(* A stop recorded before the head was assigned is forwarded all the same. *)
THEOREM SignalSafe == Spec => []SignalReachesHead
<1>1. Inv => SignalReachesHead
  BY DEF Inv, SignalInv
<1> QED BY <1>1, Invariance, PTL

(* Only a failed ssh or a SIGKILL leaves a worker behind.                  *)
THEOREM LeftoverSafe == Spec => []NoLeftoverWorker
<1>1. Inv => NoLeftoverWorker
  BY DEF Inv, LeftoverInv
<1> QED BY <1>1, Invariance, PTL

(* Only a SIGKILL of the launcher leaves a head container behind.          *)
THEOREM HeadLeftoverSafe == Spec => []NoLeftoverHead
<1>1. Inv => NoLeftoverHead
  BY DEF Inv, LeftoverInv
<1> QED BY <1>1, Invariance, PTL

(* The poller takes a serving head down only for cause.                    *)
THEOREM VerdictSafe == Spec => []HeadStoppedForCause
<1>1. Inv => HeadStoppedForCause
  BY DEF Inv, VerdictInv
<1> QED BY <1>1, Invariance, PTL

-----------------------------------------------------------------------------
(* Each step of the launcher, of cmdStop and of their surroundings is a    *)
(* step of the session contract or leaves its state alone.                 *)
LEMMA SessionStep ==
    ASSUME TypeOK, [Next]_vars
    PROVE  [Session!Next]_Session!vars
<1> DEFINE Goal == [Session!Next]_Session!vars
<1> USE DEF TypeOK, Stage, Session!Next, Session!vars, local, remote, heads,
            PCs, Early, Started, InFinally, HeadRuns, Waiting
<1>1. ASSUME NEW m \in Models, Launch(m) PROVE Goal
  BY <1>1 DEF Launch, Session!Open
<1>2. CASE Unload
  BY <1>2 DEF Unload
<1>3. CASE LauncherStep
  <2>1. CASE InstallAbort BY <2>1 DEF InstallAbort
  <2>2. CASE Preflight BY <2>2 DEF Preflight, Session!Close
  <2>3. CASE RemoveStaleHead BY <2>3 DEF RemoveStaleHead
  <2>4. CASE RemoveStaleWorker BY <2>4 DEF RemoveStaleWorker
  <2>5. CASE SizeBoth BY <2>5 DEF SizeBoth, Session!Close
  <2>6. CASE CheckBeforeWorker BY <2>6 DEF CheckBeforeWorker, Session!Close, Session!CommitWorker
  <2>7. CASE WorkerRunReturns BY <2>7 DEF WorkerRunReturns, Session!WindUp
  <2>8. CASE StopAfterFailedRun BY <2>8 DEF StopAfterFailedRun, Session!Close
  <2>9. CASE CheckBeforeHead BY <2>9 DEF CheckBeforeHead, Session!CommitHead, Session!WindUp
  <2>10. CASE StartHead BY <2>10 DEF StartHead, Session!WindUp
  <2>11. CASE AssignProc BY <2>11 DEF AssignProc
  <2>12. CASE Recheck BY <2>12 DEF Recheck
  <2>13. CASE HeadEnded BY <2>13 DEF HeadEnded, Session!WindUp
  <2>14. CASE WaitTimesOut BY <2>14 DEF WaitTimesOut
  <2>15. CASE PollWorker BY <2>15 DEF PollWorker
  <2>16. CASE JudgeWorker BY <2>16 DEF JudgeWorker
  <2>17. CASE Cleanup BY <2>17 DEF Cleanup, Session!Close
  <2> QED
    BY <1>3, <2>1, <2>2, <2>3, <2>4, <2>5, <2>6, <2>7, <2>8, <2>9, <2>10, <2>11, <2>12, <2>13, <2>14, <2>15, <2>16, <2>17
       DEF LauncherStep
<1>4. CASE StopperStep
  <2>1. CASE SignalLauncher
    BY <2>1 DEF SignalLauncher, Session!RequestStop, Session!Close
  <2>2. CASE StopperStopsWorker BY <2>2 DEF StopperStopsWorker
  <2>3. CASE StopperStopsHead BY <2>3 DEF StopperStopsHead
  <2> QED BY <1>4, <2>1, <2>2, <2>3 DEF StopperStep
<1>5. CASE Environment
  <2>1. CASE KillLauncher BY <2>1 DEF KillLauncher, Session!Close
  <2>2. ASSUME NEW m \in Models, OrphanRunCompletes(m) PROVE Goal
    BY <2>2 DEF OrphanRunCompletes
  <2>3. ASSUME NEW m \in Models, WorkerExits(m) PROVE Goal
    BY <2>3 DEF WorkerExits
  <2>4. ASSUME NEW m \in Models, HeadExits(m) PROVE Goal
    BY <2>4 DEF HeadExits
  <2>5. ASSUME NEW m \in Models, HeadTerminates(m) PROVE Goal
    BY <2>5 DEF HeadTerminates
  <2> QED BY <1>5, <2>1, <2>2, <2>3, <2>4, <2>5 DEF Environment
<1>6. CASE UNCHANGED vars
  BY <1>6 DEF vars
<1> QED BY <1>1, <1>2, <1>3, <1>4, <1>5, <1>6 DEF Next

(* The launcher implements the session contract: it commits to a container *)
(* only when no stop was seen, the worker before the head.                 *)
THEOREM ImplementsSession == Spec => SessionSafety
<1>1. Init => Session!Init
  BY DEF Init, Session!Init, Stage, Early, HeadRuns, Waiting
<1> QED BY <1>1, SessionStep, TypeCorrect, PTL DEF Spec, SessionSafety
=============================================================================
