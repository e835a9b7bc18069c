------------------------- MODULE StackConfigProofs -------------------------
(***************************************************************************)
(* What a reload that reported success leaves running, for any number of   *)
(* operators and models.                                                   *)
(***************************************************************************)
EXTENDS StackConfig, TLAPS

\* service s has read c
Serves(s, c) == svc[s].up /\ svc[s].config = c

\* both files are rendered from c
Written(c) == \A s \in Services : files[s] = c

(* How far a reload is that no other command got in the way of, and what   *)
(* of the last one stands.  The files have to match too: a service that    *)
(* crashes reads its own again.                                            *)
ReloadInv ==
    /\ \A a \in Operators : cmd[a] = "reload" /\ clean[a] =>
         /\ pc[a] \in {"load", "ls", "ll", "env", "restart", "wait"}
         /\ pc[a] = "ll" => files[LlamaSwap] = loaded[a]
         /\ pc[a] \in {"env", "restart", "wait"} => Written(loaded[a])
         /\ pc[a] = "restart" => \A s \in Services \ todo[a] : Serves(s, loaded[a])
         /\ pc[a] = "wait" =>
              /\ \A s \in Services : Serves(s, loaded[a])
              /\ \A s \in Services \ todo[a] : svc[s].health # "starting"
    /\ settled # None =>
         /\ Written(settled)
         /\ \A s \in Services : Serves(s, settled) /\ svc[s].health # "starting"

-----------------------------------------------------------------------------

(* Every step keeps the type: the files and the services, what they hold.  *)
LEMMA NextType == TypeOK /\ [Next]_vars => TypeOK'
<1> SUFFICES ASSUME TypeOK, [Next]_vars PROVE TypeOK'
  OBVIOUS
<1> USE StackAssumption, NoneAssumption
<1> USE DEF TypeOK, command, history, Goto, Ends, Disturbs
<1>0. Services = {LlamaSwap, LiteLLM} /\ LlamaSwap # LiteLLM
  BY DEF Services, LlamaSwap, LiteLLM
<1>1. ASSUME NEW a \in Operators, NEW c \in Commands[a], Begin(a, c) PROVE TypeOK'
  <2>1. c \in AllCommands
    OBVIOUS
  <2>2. FirstStep(c) \in {"append", "restart", "up", "down", "load"}
    BY <2>1 DEF FirstStep, AllCommands
  <2> QED
    BY <1>1, <2>1, <2>2 DEF Begin
<1>2. ASSUME NEW a \in Operators, Killed(a) PROVE TypeOK'
  BY <1>2 DEF Killed
<1>3. ASSUME NEW a \in Operators, Append(a) PROVE TypeOK'
  BY <1>3 DEF Append, Config
<1>4. ASSUME NEW a \in Operators, AppendRefused(a) PROVE TypeOK'
  BY <1>4 DEF AppendRefused
<1>5. ASSUME NEW a \in Operators, Load(a) PROVE TypeOK'
  BY <1>5 DEF Load
<1>6. ASSUME NEW a \in Operators, Refused(a) PROVE TypeOK'
  BY <1>6 DEF Refused
<1>7. ASSUME NEW a \in Operators, NEW s \in Services, WriteConfig(a, s) PROVE TypeOK'
  BY <1>7 DEF WriteConfig
<1>8. ASSUME NEW a \in Operators, WriteEnv(a) PROVE TypeOK'
  BY <1>8 DEF WriteEnv
<1>9. ASSUME NEW a \in Operators, NEW s \in Services, Restart(a, s) PROVE TypeOK'
  BY <1>9 DEF Restart, Started
<1>10. ASSUME NEW a \in Operators, Restarted(a) \/ RestartFails(a) PROVE TypeOK'
  <2>1. CASE Restarted(a)
    BY <2>1 DEF Restarted
  <2>2. CASE RestartFails(a)
    BY <2>2 DEF RestartFails
  <2> QED
    BY <1>10, <2>1, <2>2
<1>11. ASSUME NEW a \in Operators, SeenReady(a) \/ WaitTimesOut(a) PROVE TypeOK'
  <2>1. CASE SeenReady(a)
    BY <2>1 DEF SeenReady
  <2>2. CASE WaitTimesOut(a)
    BY <2>2 DEF WaitTimesOut
  <2> QED
    BY <1>11, <2>1, <2>2
<1>12. ASSUME NEW a \in Operators, ReloadDone(a) \/ Done(a) PROVE TypeOK'
  <2>1. CASE ReloadDone(a)
    BY <2>1 DEF ReloadDone
  <2>2. CASE Done(a)
    BY <2>2 DEF Done
  <2> QED
    BY <1>12, <2>1, <2>2
<1>13. ASSUME NEW a \in Operators, NEW s \in Services, ComposeUp(a, s) PROVE TypeOK'
  <2>1. UNCHANGED svc \/ svc' = [svc EXCEPT ![s] = Started(s, "starting")]
    BY <1>13 DEF ComposeUp
  <2>2. CASE UNCHANGED svc
    BY <1>13, <2>2 DEF ComposeUp
  <2>3. CASE svc' = [svc EXCEPT ![s] = Started(s, "starting")]
    BY <1>13, <2>3 DEF ComposeUp, Started
  <2> QED
    BY <2>1, <2>2, <2>3
<1>14. ASSUME NEW a \in Operators, NEW s \in Services, ComposeDown(a, s) PROVE TypeOK'
  BY <1>14 DEF ComposeDown, Gone
<1>15. ASSUME NEW s \in Services, BecomesReady(s) \/ Crashes(s) PROVE TypeOK'
  <2>1. CASE BecomesReady(s)
    BY <2>1 DEF BecomesReady
  <2>2. CASE Crashes(s)
    <3>1. Started(s, "restarted")
            \in [up : BOOLEAN, config : Config \cup {None},
                 health : {"none", "starting", "restarted", "ready"}]
      BY DEF Started
    <3>2. svc' = [svc EXCEPT ![s] = Started(s, "restarted")]
          /\ UNCHANGED <<entries, files, command, history>>
      BY <2>2 DEF Crashes
    <3> QED
      BY <3>1, <3>2 DEF Started
  <2> QED
    BY <1>15, <2>1, <2>2
<1>16. ASSUME NEW n \in Names, EditModels(n) PROVE TypeOK'
  BY <1>16 DEF EditModels, Config
<1>18. CASE UNCHANGED vars
  BY <1>18 DEF vars
<1> QED
  BY <1>1, <1>2, <1>3, <1>4, <1>5, <1>6, <1>7, <1>8, <1>9, <1>10, <1>11, <1>12, <1>13,
     <1>14, <1>15, <1>16, <1>18
     DEF Next, Step

(* Type correctness, for any number of operators and models.               *)
THEOREM TypeCorrect == Spec => []TypeOK
<1>1. Init => TypeOK
  BY DEF Init, TypeOK, Gone, Config
<1> QED
  BY <1>1, NextType, PTL DEF Spec

-----------------------------------------------------------------------------

(* ReloadInv is kept by a step of a that changes no file and no container, *)
(* and of the commands only a's, which is not a reload or ends.            *)
LEMMA ReloadInvOther ==
    ASSUME TypeOK, ReloadInv, NEW a \in Operators,
           UNCHANGED <<files, svc>>, settled' \in {settled, None},
           \A b \in Operators \ {a} :
              /\ pc'[b] = pc[b] /\ cmd'[b] = cmd[b] /\ loaded'[b] = loaded[b]
              /\ todo'[b] = todo[b] /\ (clean'[b] => clean[b]),
           cmd'[a] # "reload" \/ pc'[a] \in {"load", "ls"}
    PROVE  ReloadInv'
BY DEF ReloadInv, Written, Serves, TypeOK

(* A step of a that writes a file or starts or removes a container leaves  *)
(* no other reload to speak of.                                            *)
LEMMA ReloadInvDisturbs ==
    ASSUME TypeOK, ReloadInv, NEW a \in Operators, Disturbs(a),
           UNCHANGED cmd, cmd[a] # "reload"
    PROVE  ReloadInv'
BY DEF ReloadInv, Disturbs, TypeOK

LEMMA ReloadInvWrite ==
    ASSUME TypeOK, ReloadInv, NEW a \in Operators, NEW s \in Services, WriteConfig(a, s)
    PROVE  ReloadInv'
<1> USE DEF WriteConfig, Goto
<1>1. CASE cmd[a] # "reload"
  BY <1>1, ReloadInvDisturbs
<1>2. CASE cmd[a] = "reload"
  <2>1. settled' = None /\ \A b \in Operators : b # a /\ cmd'[b] = "reload" => ~clean'[b]
    BY DEF Disturbs, TypeOK
  <2>2. loaded' = loaded /\ (clean'[a] => clean[a])
    BY DEF Disturbs, TypeOK
  <2>3. CASE s = LlamaSwap
    <3>1. pc'[a] = "ll" /\ files'[LlamaSwap] = loaded[a]
      BY <2>3 DEF TypeOK, Services
    <3> QED
      BY <2>1, <2>2, <3>1 DEF ReloadInv
  <2>4. CASE s = LiteLLM
    <3>1. pc[a] = "ll" /\ pc'[a] = "env" /\ s # LlamaSwap
      BY <2>4 DEF TypeOK, LlamaSwap, LiteLLM
    <3>2. clean[a] => files[LlamaSwap] = loaded[a]
      BY <1>2, <3>1 DEF ReloadInv
    <3>3. clean[a] => Written(loaded[a])'
      BY <2>2, <2>4, <3>1, <3>2 DEF Written, Services, TypeOK
    <3> QED
      BY <2>1, <2>2, <3>1, <3>3 DEF ReloadInv
  <2> QED
    BY <2>3, <2>4 DEF Services
<1> QED
  BY <1>1, <1>2

LEMMA ReloadInvRestart ==
    ASSUME TypeOK, ReloadInv, NEW a \in Operators, NEW s \in Services, Restart(a, s)
    PROVE  ReloadInv'
<1> USE DEF Restart
<1>1. CASE cmd[a] # "reload"
  BY <1>1, ReloadInvDisturbs
<1>2. CASE cmd[a] = "reload"
  <2>1. settled' = None /\ \A b \in Operators : b # a /\ cmd'[b] = "reload" => ~clean'[b]
    BY DEF Disturbs, TypeOK
  <2>2. clean'[a] => clean[a]
    BY DEF Disturbs, TypeOK
  <2>3. clean[a] => Written(loaded[a]) /\ \A t \in Services \ todo[a] : Serves(t, loaded[a])
    BY <1>2 DEF ReloadInv
  <2>4. \A t \in Services : t # s => svc'[t] = svc[t]
    BY DEF TypeOK
  <2>5. svc'[s].up /\ svc'[s].config = files[s]
    BY DEF TypeOK, Started
  <2>6. clean[a] => Written(loaded[a])'
    BY <2>3 DEF Written
  <2>7. clean[a] => \A t \in Services \ todo'[a] : Serves(t, loaded[a])'
    <3>1. todo'[a] = todo[a] \ {s} /\ UNCHANGED <<files, loaded>>
      BY DEF TypeOK
    <3>2. ASSUME clean[a], NEW t \in Services \ todo'[a] PROVE Serves(t, loaded[a])'
      <4>1. CASE t = s
        BY <2>3, <2>5, <3>1, <3>2, <4>1 DEF Serves, Written
      <4>2. CASE t # s
        BY <2>3, <2>4, <3>1, <3>2, <4>2 DEF Serves
      <4> QED
        BY <4>1, <4>2
    <3> QED
      BY <3>2
  <2> QED
    BY <2>1, <2>2, <2>6, <2>7 DEF ReloadInv
<1> QED
  BY <1>1, <1>2

(* A container that Docker restarts reads the file it had read before.     *)
LEMMA ReloadInvCrash ==
    ASSUME TypeOK, ReloadInv, NEW s \in Services, Crashes(s) \/ BecomesReady(s)
    PROVE  ReloadInv'
<1> USE DEF Crashes, BecomesReady, command, history
<1>1. UNCHANGED <<files, pc, cmd, loaded, todo, clean, settled>>
  OBVIOUS
<1>2. \A t \in Services : t # s => svc'[t] = svc[t]
  BY DEF TypeOK
<1>3. svc'[s].health # "starting"
  BY DEF TypeOK, Started
<1>4. svc[s].up => svc'[s].up /\ svc'[s].config \in {svc[s].config, files[s]}
  BY DEF TypeOK, Started
<1>5. \A c : Written(c)' <=> Written(c)
  BY <1>1 DEF Written
<1>6. \A c : Written(c) => \A t \in Services : Serves(t, c) => Serves(t, c)'
  BY <1>2, <1>4 DEF Written, Serves
<1> QED
  BY <1>1, <1>2, <1>3, <1>5, <1>6 DEF ReloadInv

LEMMA ReloadInvStep == TypeOK /\ ReloadInv /\ [Next]_vars => ReloadInv'
<1> SUFFICES ASSUME TypeOK, ReloadInv, [Next]_vars PROVE ReloadInv'
  OBVIOUS
<1> USE DEF command, history, Goto
<1>1. ASSUME UNCHANGED <<files, svc, pc, cmd, loaded, todo, clean, settled>>
      PROVE  ReloadInv'
  BY <1>1 DEF ReloadInv, Written, Serves
<1>2. ASSUME NEW a \in Operators, NEW c \in Commands[a], Begin(a, c) PROVE ReloadInv'
  <2>1. c = "reload" => FirstStep(c) = "load"
    BY DEF FirstStep
  <2> QED
    BY <1>2, <2>1, ReloadInvOther DEF Begin, TypeOK
<1>3. ASSUME NEW a \in Operators, Ends(a), UNCHANGED <<files, svc, settled>>
      PROVE  ReloadInv'
  BY <1>3, ReloadInvOther DEF Ends, TypeOK
<1>4. ASSUME NEW a \in Operators, Append(a) PROVE ReloadInv'
  BY <1>4, ReloadInvOther DEF Append, TypeOK, ReloadInv
<1>5. ASSUME NEW a \in Operators, Load(a) PROVE ReloadInv'
  BY <1>5, ReloadInvOther DEF Load, TypeOK
<1>6. ASSUME NEW a \in Operators, WriteEnv(a) PROVE ReloadInv'
  <2>1. CASE cmd[a] # "reload"
    BY <1>6, <2>1, ReloadInvDisturbs DEF WriteEnv
  <2>2. CASE cmd[a] = "reload"
    <3>1. settled' = None /\ \A b \in Operators : b # a /\ cmd'[b] = "reload" => ~clean'[b]
      BY <1>6 DEF WriteEnv, Disturbs, TypeOK
    <3>2. pc'[a] = "restart" /\ todo'[a] = Services /\ (clean'[a] => clean[a])
          /\ UNCHANGED <<files, svc, cmd, loaded>>
      BY <1>6, <2>2 DEF WriteEnv, Disturbs, TypeOK
    <3>3. clean[a] => Written(loaded[a])
      BY <1>6, <2>2 DEF WriteEnv, ReloadInv
    <3>4. clean[a] => Written(loaded[a])'
      BY <3>2, <3>3 DEF Written
    <3> QED
      BY <3>1, <3>2, <3>4 DEF ReloadInv
  <2> QED
    BY <2>1, <2>2
<1>7. ASSUME NEW a \in Operators, Restarted(a) PROVE ReloadInv'
  <2>1. pc[a] = "restart" /\ todo[a] = {} /\ pc'[a] = "wait" /\ todo'[a] = Services
        /\ UNCHANGED <<files, svc, cmd, loaded, clean, settled>>
    BY <1>7 DEF Restarted, TypeOK
  <2>2. \A b \in Operators : b # a => pc'[b] = pc[b] /\ todo'[b] = todo[b]
    BY <1>7 DEF Restarted, TypeOK
  <2> QED
    BY <2>1, <2>2 DEF ReloadInv, Written, Serves
<1>8. ASSUME NEW a \in Operators, SeenReady(a) PROVE ReloadInv'
  <2>1. PICK s \in todo[a] : /\ svc[s].health = "ready" \/ ~svc[s].up
                             /\ todo' = [todo EXCEPT ![a] = @ \ {s}]
    BY <1>8 DEF SeenReady
  <2>2. pc[a] = "wait" /\ UNCHANGED <<files, svc, pc, cmd, loaded, clean, settled>>
    BY <1>8 DEF SeenReady
  <2>3. \A b \in Operators : b # a => todo'[b] = todo[b]
    BY <2>1
  <2>4. todo'[a] = todo[a] \ {s} /\ s \in Services
    BY <2>1 DEF TypeOK
  <2>5. cmd[a] = "reload" /\ clean[a] => svc[s].health = "ready"
    BY <2>1, <2>2, <2>4 DEF ReloadInv, Serves
  <2> QED
    BY <2>2, <2>3, <2>4, <2>5 DEF ReloadInv, Written, Serves
<1>9. ASSUME NEW a \in Operators, ReloadDone(a) PROVE ReloadInv'
  <2>1. Ends(a) /\ UNCHANGED <<files, svc>> /\ pc[a] = "wait" /\ todo[a] = {}
    BY <1>9 DEF ReloadDone
  <2>2. CASE ~(clean[a] /\ cmd[a] = "reload")
    BY <1>3, <1>9, <2>1, <2>2 DEF ReloadDone
  <2>3. CASE clean[a] /\ cmd[a] = "reload"
    <3>1. settled' = loaded[a]
      BY <1>9, <2>3 DEF ReloadDone
    <3>2. Written(loaded[a]) /\ \A s \in Services :
             Serves(s, loaded[a]) /\ svc[s].health # "starting"
      BY <2>1, <2>3 DEF ReloadInv
    <3>3. Written(settled)' /\ \A s \in Services :
             Serves(s, settled)' /\ svc'[s].health # "starting"
      BY <2>1, <3>1, <3>2 DEF Written, Serves
    <3>4. \A b \in Operators : /\ pc'[b] = (IF b = a THEN "idle" ELSE pc[b])
                               /\ cmd'[b] = (IF b = a THEN "none" ELSE cmd[b])
      BY <2>1 DEF Ends, TypeOK
    <3>5. \A b \in Operators : b # a => loaded'[b] = loaded[b] /\ todo'[b] = todo[b]
                                           /\ clean'[b] = clean[b]
      BY <2>1 DEF Ends, TypeOK
    <3> QED
      BY <2>1, <3>3, <3>4, <3>5 DEF ReloadInv, Written, Serves
  <2> QED
    BY <2>2, <2>3
<1>10. ASSUME NEW a \in Operators, NEW s \in Services,
              ComposeUp(a, s) \/ ComposeDown(a, s)
       PROVE  ReloadInv'
  <2>1. Disturbs(a) /\ UNCHANGED <<pc, cmd>> /\ pc[a] \in {"up", "down"}
    BY <1>10 DEF ComposeUp, ComposeDown
  <2>2. settled' = None
    BY <2>1 DEF Disturbs
  <2>3. \A b \in Operators : cmd'[b] = "reload" /\ clean'[b] => b = a /\ clean[a]
    BY <2>1 DEF Disturbs, TypeOK
  <2>4. ~(cmd[a] = "reload" /\ clean[a])
    BY <2>1 DEF ReloadInv
  <2> QED
    BY <2>1, <2>2, <2>3, <2>4 DEF ReloadInv
<1>11. CASE \E a \in Operators : \/ AppendRefused(a) \/ Refused(a) \/ RestartFails(a)
                                 \/ WaitTimesOut(a) \/ Done(a) \/ Killed(a)
  BY <1>3, <1>11 DEF AppendRefused, Refused, RestartFails, WaitTimesOut, Done, Killed
<1>12. CASE (\E n \in Names : EditModels(n)) \/ UNCHANGED vars
  BY <1>1, <1>12 DEF EditModels, vars
<1> QED
  BY <1>2, <1>4, <1>5, <1>6, <1>7, <1>8, <1>9, <1>10, <1>11, <1>12,
     ReloadInvWrite, ReloadInvRestart, ReloadInvCrash
     DEF Next, Step

(* A reload that reported success, and that no other command got in the    *)
(* way of, has both services serve what it loaded, and they go on doing so *)
(* through crashes and edits, for any operators and models.                *)
THEOREM ReloadIsLive == Spec => []ReloadServesLoaded
<1>1. Init => ReloadInv
  BY DEF Init, ReloadInv
<1>2. ReloadInv => ReloadServesLoaded
  BY DEF ReloadInv, ReloadServesLoaded, Serves
<1> QED
  BY TypeCorrect, <1>1, <1>2, ReloadInvStep, PTL DEF Spec

(* And it has waited for both of them.                                     *)
THEOREM ReloadHasWaited == Spec => []ReloadWaitsForBoth
<1>1. Init => ReloadInv
  BY DEF Init, ReloadInv
<1>2. ReloadInv => ReloadWaitsForBoth
  BY DEF ReloadInv, ReloadWaitsForBoth
<1> QED
  BY TypeCorrect, <1>1, <1>2, ReloadInvStep, PTL DEF Spec
-----------------------------------------------------------------------------

\* what a command is about to write was valid when it was read
ValidInv ==
    /\ OnlyValidServed
    /\ \A a \in Operators : pc[a] \in {"ls", "ll", "env"} => Valid(loaded[a])

LEMMA ValidInvStep == TypeOK /\ ValidInv /\ [Next]_vars => ValidInv'
<1> SUFFICES ASSUME TypeOK, ValidInv, [Next]_vars PROVE ValidInv'
  OBVIOUS
<1> USE DEF TypeOK, ValidInv, OnlyValidServed, command, history, Goto, Ends, Disturbs
<1>0. \A c : Valid(c)' <=> Valid(c)
  BY DEF Valid
<1>1. ASSUME UNCHANGED <<files, svc, pc, loaded>> PROVE ValidInv'
  BY <1>0, <1>1
<1>2. ASSUME NEW a \in Operators, UNCHANGED <<files, svc>>, loaded' = loaded,
             \A b \in Operators \ {a} : pc'[b] = pc[b],
             pc'[a] \notin {"ls", "ll", "env"}
      PROVE  ValidInv'
  BY <1>0, <1>2
<1>3. ASSUME NEW a \in Operators, Ends(a), UNCHANGED <<files, svc>> PROVE ValidInv'
  BY <1>0, <1>3
<1>4. ASSUME NEW a \in Operators, NEW c \in Commands[a], Begin(a, c) PROVE ValidInv'
  <2>1. c \in AllCommands
    BY StackAssumption
  <2>2. FirstStep(c) \notin {"ls", "ll", "env"}
    BY <2>1 DEF FirstStep, AllCommands
  <2> QED
    BY <1>2, <1>4, <2>2 DEF Begin
<1>5. ASSUME NEW a \in Operators, Append(a) PROVE ValidInv'
  BY <1>2, <1>5 DEF Append
<1>6. ASSUME NEW a \in Operators, Load(a) PROVE ValidInv'
  BY <1>0, <1>6 DEF Load
<1>7. ASSUME NEW a \in Operators, NEW s \in Services, WriteConfig(a, s) PROVE ValidInv'
  BY <1>0, <1>7 DEF WriteConfig
<1>8. ASSUME NEW a \in Operators, WriteEnv(a) PROVE ValidInv'
  BY <1>2, <1>8 DEF WriteEnv
\* a process that starts reads a file
<1>9. ASSUME NEW s \in Services, UNCHANGED <<files, pc, loaded>>,
             \A t \in Services : \/ svc'[t].config = svc[t].config /\ svc'[t].up = svc[t].up
                                 \/ svc'[t].config = files[t] \/ ~svc'[t].up
      PROVE  ValidInv'
  BY <1>0, <1>9
<1>10. ASSUME NEW a \in Operators, NEW s \in Services,
              Restart(a, s) \/ ComposeUp(a, s) \/ ComposeDown(a, s)
       PROVE  ValidInv'
  <2>1. UNCHANGED <<files, pc, loaded>>
    BY <1>10 DEF Restart, ComposeUp, ComposeDown
  <2>2. \A t \in Services : \/ svc'[t].config = svc[t].config /\ svc'[t].up = svc[t].up
                            \/ svc'[t].config = files[t] \/ ~svc'[t].up
    <3>1. \/ svc' \in {svc, [svc EXCEPT ![s] = Started(s, "starting")]}
          \/ svc' = [svc EXCEPT ![s] = Gone]
      BY <1>10 DEF Restart, ComposeUp, ComposeDown
    <3>2. CASE svc' = svc
      BY <3>2
    <3>3. CASE svc' = [svc EXCEPT ![s] = Started(s, "starting")]
      BY <3>3 DEF Started
    <3>4. CASE svc' = [svc EXCEPT ![s] = Gone]
      BY <3>4 DEF Gone
    <3> QED
      BY <3>1, <3>2, <3>3, <3>4
  <2> QED
    BY <1>9, <2>1, <2>2
<1>11. ASSUME NEW s \in Services, BecomesReady(s) \/ Crashes(s) PROVE ValidInv'
  <2>1. UNCHANGED <<files, pc, loaded>>
    BY <1>11 DEF BecomesReady, Crashes
  <2>2. \A t \in Services : \/ svc'[t].config = svc[t].config /\ svc'[t].up = svc[t].up
                            \/ svc'[t].config = files[t] \/ ~svc'[t].up
    BY <1>11 DEF BecomesReady, Crashes, Started
  <2> QED
    BY <1>9, <2>1, <2>2
<1>12. ASSUME NEW a \in Operators, Restarted(a) PROVE ValidInv'
  BY <1>2, <1>12 DEF Restarted
<1>13. ASSUME NEW a \in Operators, SeenReady(a) PROVE ValidInv'
  BY <1>1, <1>13 DEF SeenReady
<1>14. CASE \E a \in Operators : \/ AppendRefused(a) \/ Refused(a) \/ RestartFails(a)
                                 \/ WaitTimesOut(a) \/ Done(a) \/ Killed(a) \/ ReloadDone(a)
  BY <1>3, <1>14 DEF AppendRefused, Refused, RestartFails, WaitTimesOut, Done, Killed, ReloadDone
<1>15. CASE (\E n \in Names : EditModels(n)) \/ UNCHANGED vars
  BY <1>1, <1>15 DEF EditModels, vars
<1> QED
  BY <1>4, <1>5, <1>6, <1>7, <1>8, <1>10, <1>11, <1>12, <1>13, <1>14, <1>15 DEF Next, Step

(* What add-model or an editor makes invalid stays in models.yaml: no      *)
(* generated file and no service ever holds it.                            *)
THEOREM InvalidStaysOut == Spec => []OnlyValidServed
<1>1. Init => ValidInv
  BY DEF Init, ValidInv, OnlyValidServed, Valid, Gone
<1>2. ValidInv => OnlyValidServed
  BY DEF ValidInv
<1> QED
  BY TypeCorrect, <1>1, <1>2, ValidInvStep, PTL DEF Spec
=============================================================================
