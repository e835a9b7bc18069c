--------------------------- MODULE ClusterSession ---------------------------
(***************************************************************************)
(* What the two-node launcher promises llama-swap, without its mechanism:  *)
(* a session is opened for a model, commits to start the worker, commits   *)
(* to start the head, and closes.  A stop may be asked for at any time; a  *)
(* session that was asked to stop makes no further commitment and closes.  *)
(***************************************************************************)
CONSTANT Models

VARIABLES stage,  \* how far the session has committed itself
          stop,   \* a stop has been asked of the session
          model   \* the model the session is for

vars == <<stage, stop, model>>

Stages == {"closed", "prepare", "worker", "serve", "closing"}

TypeOK ==
    /\ stage \in Stages
    /\ stop \in BOOLEAN
    /\ model \in Models

Init ==
    /\ stage = "closed"
    /\ stop = FALSE
    /\ model \in Models

Open(m) ==
    /\ stage = "closed"
    /\ stage' = "prepare"
    /\ stop' = FALSE
    /\ model' = m

RequestStop ==
    /\ stage # "closed"
    /\ stop' = TRUE
    /\ UNCHANGED <<stage, model>>

CommitWorker ==
    /\ stage = "prepare"
    /\ ~stop
    /\ stage' = "worker"
    /\ UNCHANGED <<stop, model>>

CommitHead ==
    /\ stage = "worker"
    /\ ~stop
    /\ stage' = "serve"
    /\ UNCHANGED <<stop, model>>

(* A session may wind up, or end outright, at any time and without a stop: *)
(* a preflight fails, the head exits, the process is killed.               *)
WindUp ==
    /\ stage \in {"worker", "serve"}
    /\ stage' = "closing"
    /\ UNCHANGED <<stop, model>>

Close ==
    /\ stage # "closed"
    /\ stage' = "closed"
    /\ UNCHANGED <<stop, model>>

CloseStopped == stop /\ (WindUp \/ Close)

Next ==
    \/ \E m \in Models : Open(m)
    \/ RequestStop
    \/ CommitWorker
    \/ CommitHead
    \/ WindUp
    \/ Close

(* The promise is that a stop is honoured: the session closes.             *)
StopIsHonoured == WF_vars(CloseStopped)

Spec == Init /\ [][Next]_vars /\ StopIsHonoured
=============================================================================
