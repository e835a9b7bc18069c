---------------------------- MODULE StackConfig ----------------------------
(***************************************************************************)
(* From models.yaml to what the two services that read generated           *)
(* configuration serve: `sparkyard render`, `reload`, `reload --no-render`,*)
(* `add-model`, `start` and `stop`, run by several operators at once, any  *)
(* of them killed at any point, while the operators edit the file and      *)
(* Docker restarts a service that crashed.  What the services are created  *)
(* with, .env and secrets, is StackEnv's.                                  *)
(***************************************************************************)
EXTENDS Integers

CONSTANTS
    Operators,
    Names,      \* names of models
    None,       \* no configuration
    Commands    \* the commands each operator gives

LlamaSwap == "llama-swap"
LiteLLM   == "litellm"
Services  == {LlamaSwap, LiteLLM}   \* RELOAD_SERVICES
AllCommands == {"render", "reload", "restart", "add", "start", "stop"}

ASSUME StackAssumption ==
    Commands \in [Operators -> SUBSET AllCommands]

\* models.yaml, and what is rendered from it: how many entries have a name
Config == [Names -> 0..2]
ASSUME NoneAssumption == None \notin Config

VARIABLES
    entries,    \* models.yaml
    files,      \* the generated config of each service
    svc,        \* the containers: up, the config their process read, health
    pc,         \* operators: where the command is
    cmd,        \* which it is
    loaded,     \* what it read
    todo,       \* the services it has still to deal with
    \* history, read by the properties only
    clean,      \* no other command wrote or restarted since this reload began
    settled     \* what the last reload made live, if that still stands

command == <<pc, cmd, loaded, todo>>
history == <<clean, settled>>
vars    == <<entries, files, svc, command, history>>

Gone == [up |-> FALSE, config |-> None, health |-> "none"]

TypeOK ==
    /\ entries \in Config
    /\ files \in [Services -> Config]
    /\ svc \in [Services -> [up : BOOLEAN, config : Config \cup {None},
                             health : {"none", "starting", "restarted", "ready"}]]
    /\ \A s \in Services : svc[s].up => svc[s].config \in Config
    /\ pc \in [Operators -> {"idle", "append", "load", "ls", "ll", "env", "restart",
                             "wait", "up", "down", "done"}]
    /\ cmd \in [Operators -> AllCommands \cup {"none"}]
    /\ loaded \in [Operators -> Config \cup {None}]
    /\ \A a \in Operators : pc[a] \in {"ls", "ll", "env"} => loaded[a] # None
    /\ todo \in [Operators -> SUBSET Services]
    /\ clean \in [Operators -> BOOLEAN]
    /\ settled \in Config \cup {None}

\* the stack was rendered, and is not up
Init ==
    /\ entries = [n \in Names |-> 0]
    /\ files = [s \in Services |-> entries]
    /\ svc = [s \in Services |-> Gone]
    /\ pc = [a \in Operators |-> "idle"]
    /\ cmd = [a \in Operators |-> "none"]
    /\ loaded = [a \in Operators |-> None]
    /\ todo = [a \in Operators |-> {}]
    /\ clean = [a \in Operators |-> TRUE]
    /\ settled = None

\* history: a writes a file, or does something to a container
Disturbs(a) ==
    /\ clean' = [b \in Operators |-> clean[b] /\ (b = a \/ cmd[b] # "reload")]
    /\ settled' = None

Goto(a, l) == pc' = [pc EXCEPT ![a] = l]

\* a's command is over
Ends(a) ==
    /\ Goto(a, "idle")
    /\ cmd' = [cmd EXCEPT ![a] = "none"]
    /\ loaded' = [loaded EXCEPT ![a] = None]
    /\ todo' = [todo EXCEPT ![a] = {}]
    /\ clean' = [clean EXCEPT ![a] = TRUE]

-----------------------------------------------------------------------------
(* cli.py: a command begins.                                               *)

\* slip: the files are written from what was not read
WritesUnread(c) == IF c \in {"render", "reload"} THEN "ls" ELSE "done"

FirstStep(c) ==
    CASE c = "add" -> "append" [] c = "restart" -> "restart"
      [] c = "start" -> "up" [] c = "stop" -> "down" [] OTHER -> "load"

Begin(a, c) ==
    /\ pc[a] = "idle" /\ c \in Commands[a]
    /\ Goto(a, FirstStep(c))
    /\ cmd' = [cmd EXCEPT ![a] = c]
    /\ todo' = [todo EXCEPT ![a] = IF c \in {"restart", "start", "stop"} THEN Services ELSE {}]
    /\ UNCHANGED <<entries, files, svc, loaded, history>>

Killed(a) ==
    /\ pc[a] # "idle"
    /\ Ends(a)
    /\ UNCHANGED <<entries, files, svc, settled>>

\* append_model: one entry more, whatever the others are
Append(a) ==
    /\ pc[a] = "append"
    /\ \E n \in Names :
         /\ entries[n] < 2  \* a bound
         /\ entries' = [entries EXCEPT ![n] = @ + 1]
    /\ Goto(a, "load")
    /\ UNCHANGED <<files, svc, cmd, loaded, todo, history>>

\* the operator declines, or models is not the file's last key
AppendRefused(a) ==
    /\ pc[a] = "append"
    /\ Ends(a)
    /\ UNCHANGED <<entries, files, svc, settled>>

-----------------------------------------------------------------------------
(* render.py.                                                              *)

\* validate: served names are unique
Valid(c) == \A n \in Names : c[n] <= 1

\* slip: the errors are not looked at
LoadInvalid(a) ==
    /\ pc[a] = "load"
    /\ loaded' = [loaded EXCEPT ![a] = entries]
    /\ Goto(a, "ls")
    /\ UNCHANGED <<entries, files, svc, cmd, todo, history>>

Load(a) ==
    /\ pc[a] = "load" /\ Valid(entries)
    /\ loaded' = [loaded EXCEPT ![a] = entries]
    /\ Goto(a, "ls")
    /\ UNCHANGED <<entries, files, svc, cmd, todo, history>>

\* RenderError, before any file is written
Refused(a) ==
    /\ pc[a] = "load" /\ ~Valid(entries)
    /\ Ends(a)
    /\ UNCHANGED <<entries, files, svc, settled>>

\* render_all: the three files, each replaced at once
WriteConfig(a, s) ==
    /\ pc[a] = IF s = LlamaSwap THEN "ls" ELSE "ll"
    /\ files' = [files EXCEPT ![s] = loaded[a]]
    /\ Goto(a, IF s = LlamaSwap THEN "ll" ELSE "env")
    /\ Disturbs(a)
    /\ UNCHANGED <<entries, svc, cmd, loaded, todo>>

\* and reload goes on
WriteEnv(a) ==
    /\ pc[a] = "env"
    /\ IF cmd[a] = "reload"
       THEN /\ Goto(a, "restart")
            /\ todo' = [todo EXCEPT ![a] = Services]
       ELSE Goto(a, "done") /\ UNCHANGED todo
    /\ Disturbs(a)
    /\ UNCHANGED <<entries, files, svc, cmd, loaded>>

-----------------------------------------------------------------------------
(* ops.py's reload.                                                        *)

\* a container's process starts and reads its file
Started(s, h) == [up |-> TRUE, config |-> files[s], health |-> h]

Restart(a, s) ==
    /\ pc[a] = "restart" /\ s \in todo[a] /\ svc[s].up
    /\ svc' = [svc EXCEPT ![s] = Started(s, "starting")]
    /\ todo' = [todo EXCEPT ![a] = @ \ {s}]
    /\ Disturbs(a)
    /\ UNCHANGED <<entries, files, pc, cmd, loaded>>

\* slip: llama-swap alone is restarted
RestartedOne(a) ==
    /\ pc[a] = "restart" /\ LlamaSwap \notin todo[a]
    /\ Goto(a, "wait")
    /\ todo' = [todo EXCEPT ![a] = Services]
    /\ UNCHANGED <<entries, files, svc, cmd, loaded, history>>

Restarted(a) ==
    /\ pc[a] = "restart" /\ todo[a] = {}
    /\ Goto(a, "wait")
    /\ todo' = [todo EXCEPT ![a] = Services]
    /\ UNCHANGED <<entries, files, svc, cmd, loaded, history>>

\* those that are there were restarted, and the exit status says so of the rest
RestartFails(a) ==
    /\ pc[a] = "restart" /\ todo[a] # {}
    /\ \A s \in todo[a] : ~svc[s].up
    /\ Ends(a)
    /\ UNCHANGED <<entries, files, svc, settled>>

\* slip: litellm is not waited for
SeenReadyOne(a) ==
    /\ pc[a] = "wait" /\ todo[a] = Services
    /\ svc[LlamaSwap].health = "ready"
    /\ todo' = [todo EXCEPT ![a] = {}]
    /\ UNCHANGED <<entries, files, svc, pc, cmd, loaded, history>>

\* llama-swap first.  Of a container that is gone, docker inspect says nothing
SeenReady(a) ==
    /\ pc[a] = "wait"
    /\ \E s \in todo[a] :
         /\ s = LlamaSwap \/ LlamaSwap \notin todo[a]
         /\ svc[s].health = "ready" \/ ~svc[s].up
         /\ todo' = [todo EXCEPT ![a] = @ \ {s}]
    /\ UNCHANGED <<entries, files, svc, pc, cmd, loaded, history>>

\* slip: there is no last attempt
WaitsForEver(a) == FALSE

\* the last of the attempts
WaitTimesOut(a) ==
    /\ pc[a] = "wait" /\ todo[a] # {}
    /\ Ends(a)
    /\ UNCHANGED <<entries, files, svc, settled>>

ReloadDone(a) ==
    /\ pc[a] = "wait" /\ todo[a] = {}
    /\ settled' = IF clean[a] /\ cmd[a] = "reload" THEN loaded[a] ELSE settled
    /\ Ends(a)
    /\ UNCHANGED <<entries, files, svc>>

-----------------------------------------------------------------------------
(* docker compose up -d and down.                                          *)

\* a container that is up is made anew only if compose sees a change
ComposeUp(a, s) ==
    /\ pc[a] = "up" /\ s \in todo[a]
    /\ svc' \in {[svc EXCEPT ![s] = Started(s, "starting")]}
                 \cup (IF svc[s].up THEN {svc} ELSE {})
    /\ todo' = [todo EXCEPT ![a] = @ \ {s}]
    /\ Disturbs(a)
    /\ UNCHANGED <<entries, files, pc, cmd, loaded>>

ComposeDown(a, s) ==
    /\ pc[a] = "down" /\ s \in todo[a]
    /\ svc' = [svc EXCEPT ![s] = Gone]
    /\ todo' = [todo EXCEPT ![a] = @ \ {s}]
    /\ Disturbs(a)
    /\ UNCHANGED <<entries, files, pc, cmd, loaded>>

Done(a) ==
    /\ pc[a] \in {"up", "down", "done"} /\ todo[a] = {}
    /\ Ends(a)
    /\ UNCHANGED <<entries, files, svc, settled>>

-----------------------------------------------------------------------------
(* The services, and the operators' editors.                               *)

BecomesReady(s) ==
    /\ svc[s].health \in {"starting", "restarted"}
    /\ svc' = [svc EXCEPT ![s].health = "ready"]
    /\ UNCHANGED <<entries, files, command, history>>

\* restart: unless-stopped
Crashes(s) ==
    /\ svc[s].up
    /\ svc' = [svc EXCEPT ![s] = Started(s, "restarted")]
    /\ UNCHANGED <<entries, files, command, history>>

EditModels(n) ==
    /\ entries' \in {[entries EXCEPT ![n] = k] : k \in {0, 1} \ {entries[n]}}
    /\ UNCHANGED <<files, svc, command, history>>

Step(a) ==
    \/ Append(a) \/ AppendRefused(a) \/ Load(a) \/ Refused(a)
    \/ \E s \in Services : WriteConfig(a, s) \/ Restart(a, s)
                             \/ ComposeUp(a, s) \/ ComposeDown(a, s)
    \/ WriteEnv(a) \/ Restarted(a) \/ RestartFails(a) \/ SeenReady(a)
    \/ WaitTimesOut(a) \/ ReloadDone(a) \/ Done(a)

Next ==
    \/ \E a \in Operators : Step(a) \/ Killed(a) \/ \E c \in Commands[a] : Begin(a, c)
    \/ \E s \in Services : BecomesReady(s) \/ Crashes(s)
    \/ \E n \in Names : EditModels(n)

Spec == Init /\ [][Next]_vars

\* a command does not stop by itself; whether a service gets ready is open
FairSpec == Spec /\ \A a \in Operators : WF_vars(Step(a))

-----------------------------------------------------------------------------
(* Properties.                                                             *)

(* When reload reports success and no other command got in its way, both   *)
(* services serve what it loaded, LiteLLM's routes being llama-swap's      *)
(* models; and they do so as long as no other command runs, through        *)
(* crashes and edits.                                                      *)
ReloadServesLoaded ==
    settled # None =>
        \A s \in Services : svc[s].up /\ svc[s].config = settled

(* And both are ready by then, unless one crashed since.                   *)
ReloadWaitsForBoth ==
    settled # None => \A s \in Services : svc[s].health # "starting"

(* Every command ends, even when a service never gets ready.               *)
CommandsEnd == \A a \in Operators : pc[a] # "idle" ~> pc[a] = "idle"

(* An entry that add-model appended a second time, as its hint to run it   *)
(* again with --download makes it do, stays in models.yaml: it reaches no  *)
(* generated file and no service, whoever edits, renders or restarts.      *)
OnlyValidServed ==
    \A s \in Services : Valid(files[s]) /\ (svc[s].up => Valid(svc[s].config))
=============================================================================
