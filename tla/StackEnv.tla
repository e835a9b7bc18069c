------------------------------ MODULE StackEnv ------------------------------
(***************************************************************************)
(* What the containers of the stack are created with: secrets.env, which   *)
(* `sparkyard init` and `secrets` fill in place and project onto one       *)
(* env_file per service, and the .env that `render` writes; `start` and    *)
(* `stop` (docker compose up and down), and the database volume, which     *)
(* keeps the password it was first given.  A run may be killed at any      *)
(* point, the operator edits secrets.env and settings.local.yaml at any    *)
(* time, and `start` runs beside all of this.                              *)
(*                                                                         *)
(* LITELLM_UI_PASSWORD and WEBUI_SECRET_KEY, which nothing is derived      *)
(* from, go the way of the master key and are left out.                    *)
(***************************************************************************)
EXTENDS Integers, Sequences

CONSTANT MaxTroubles  \* bounds how many edits, kills and stops there are
ASSUME MaxTroublesAssumption == MaxTroubles \in Nat

Master == "LITELLM_MASTER_KEY"
Pg     == "POSTGRES_PASSWORD"
Url    == "DATABASE_URL"
Api    == "OPENAI_API_KEY"
Root   == "LLM_ROOT_PATH"
Keys   == {Master, Pg, Url, Api}

\* slips: a derived key comes before what it is derived from
FillOrderUrlFirst == <<Master, Url, Pg, Api>>
FillOrderApiFirst == <<Api, Master, Pg, Url>>

\* the order gen-secrets.sh sets and projects them in
FillOrder    == <<Master, Pg, Url, Api>>
ProjectOrder == <<Api, Pg, Master, Url>>

Derived == {Url, Api}
SourceOf(d) == IF d = Url THEN Pg ELSE Master

\* which of them each service gets, in secrets.<service>.env; llama-swap in .env
Services == {"open-webui", "litellm-db", "litellm", "llama-swap"}
ServiceOf(k) ==
    CASE k = Api -> "open-webui" [] k = Pg -> "litellm-db"
      [] k \in {Master, Url} -> "litellm" [] k = Root -> "llama-swap"

\* a value is a number; a URL without a password in it is 0
Value   == Nat
Blank   == -1       \* KEY= and nothing after it
Missing == -2       \* no such line
NoFile  == -3       \* no such file
Line    == Value \cup {Blank, Missing}

VARIABLES
    secrets,    \* secrets.env
    root,       \* llm_root in settings.local.yaml
    given,      \* the files compose reads
    pc,         \* where the run of gen-secrets.sh is
    at,         \* the position in FillOrder or ProjectOrder
    tmp,        \* its copy of secrets.env
    up,         \* a `start` is under way
    todo,       \* the services it has still to deal with
    seen,       \* what compose read
    env,        \* what each service's container was created with
    volume,     \* the password in the litellm_db_data volume
    unused,     \* the next value that is not yet in use
    troubles,   \* how many edits, kills and stops there were
    \* history, read by the properties only
    kept,       \* the value each key last got
    loose,      \* a derived key set by hand or older than its source (and, of the
                \* key Open WebUI has, not made again since), a changed password
    torn,       \* a run lost what was in the file
    complete,   \* "yes": the last run ended, and nobody edited since it began
    applied     \* so did a start and a render that began after it

files   == <<secrets, given>>
run     == <<pc, at, tmp>>
start   == <<up, todo, seen>>
stack   == <<env, volume>>
counts  == <<unused, troubles>>
history == <<kept, loose, torn, complete, applied>>
vars    == <<files, root, run, start, stack, counts, history>>

AllKeys == Keys \cup {Root}

TypeOK ==
    /\ secrets \in [Keys -> Line]
    /\ root \in Value
    /\ given \in [AllKeys -> Line \cup {NoFile}]
    /\ pc \in {"idle", "append", "fill", "copied", "emptied", "open", "echo"}
    /\ at \in 1..4
    /\ tmp \in [Keys -> Line]
    /\ up \in BOOLEAN
    /\ todo \in SUBSET Services
    /\ seen \in [AllKeys -> Line \cup {NoFile}]
    /\ env \in [AllKeys -> Line \cup {NoFile}]
    /\ volume \in Value \cup {NoFile}
    /\ unused \in Nat \ {0} /\ troubles \in 0..MaxTroubles
    /\ kept \in [Keys -> Line]
    /\ loose \in SUBSET Keys
    /\ torn \in BOOLEAN /\ complete \in {"no", "running", "yes"}
    /\ applied \in {"no", "running", "yes"}

NoLines == [k \in Keys |-> Missing]
Nothing == [k \in AllKeys |-> NoFile]

\* a checkout: none of the files is there
Init ==
    /\ secrets = NoLines /\ root = 0 /\ given = Nothing
    /\ pc = "idle" /\ at = 1 /\ tmp = NoLines
    /\ up = FALSE /\ todo = {} /\ seen = Nothing
    /\ env = Nothing /\ volume = NoFile
    /\ unused = 1 /\ troubles = 0
    /\ kept = NoLines /\ loose = {} /\ torn = FALSE
    /\ complete = "no" /\ applied = "no"

Trouble == troubles < MaxTroubles /\ troubles' = troubles + 1

IsSet(v) == v \notin {Blank, Missing, NoFile}

-----------------------------------------------------------------------------
(* scripts/gen-secrets.sh.                                                 *)

RunBegins ==
    /\ pc = "idle"
    /\ pc' = "append" /\ complete' = "running"
    /\ applied' = IF applied = "running" THEN "no" ELSE applied
    /\ UNCHANGED <<files, root, at, tmp, start, stack, counts,
                   kept, loose, torn>>

\* the cp that seeds the file, and the >> of a key that the example has
KeyAdded(k) ==
    /\ pc = "append" /\ secrets[k] = Missing
    /\ secrets' = [secrets EXCEPT ![k] = Blank]
    /\ UNCHANGED <<given, root, run, start, stack, counts, history>>

AppendDone ==
    /\ pc = "append" /\ \A k \in Keys : secrets[k] # Missing
    /\ pc' = "fill" /\ at' = 1
    /\ UNCHANGED <<files, root, tmp, start, stack, counts, history>>

\* slip: there is always one more
NextKeyAlways == pc' = "fill" /\ at' = at + 1

\* the next key, or the first of the projections
NextKey ==
    IF at < Len(FillOrder) THEN pc' = "fill" /\ at' = at + 1
                           ELSE pc' = "open" /\ at' = 1

KeySkipped ==
    /\ pc = "fill" /\ secrets[FillOrder[at]] # Blank
    /\ NextKey
    /\ UNCHANGED <<files, root, tmp, start, stack, counts, history>>

\* what a key is set to: a key that is blank gives no OPENAI_API_KEY, but it
\* does give a DATABASE_URL
NewValue(k) ==
    CASE k \notin Derived -> unused
      [] k = Api -> IF IsSet(secrets[Master]) THEN secrets[Master] ELSE Blank
      [] k = Url -> IF IsSet(secrets[Pg]) THEN secrets[Pg] ELSE 0

\* slip: a value that is there is not looked at
KeyCopiedOver ==
    LET k == FillOrder[at] IN
    /\ pc = "fill"
    /\ tmp' = [secrets EXCEPT ![k] = NewValue(k)]
    /\ unused' = IF k \in Derived THEN unused ELSE unused + 1
    /\ pc' = "copied"
    /\ UNCHANGED <<files, root, at, start, stack, troubles, history>>

KeyCopied ==
    LET k == FillOrder[at] IN
    /\ pc = "fill" /\ secrets[k] = Blank
    /\ tmp' = [secrets EXCEPT ![k] = NewValue(k)]
    /\ unused' = IF k \in Derived THEN unused ELSE unused + 1
    /\ pc' = "copied"
    /\ UNCHANGED <<files, root, at, start, stack, troubles, history>>

\* > "$OUT"
Emptied ==
    /\ pc = "copied"
    /\ secrets' = NoLines
    /\ pc' = "emptied"
    /\ UNCHANGED <<given, root, at, tmp, start, stack, counts, history>>

\* cat "$tmp"
Rewritten ==
    /\ pc = "emptied"
    /\ secrets' = tmp /\ tmp' = NoLines
    /\ NextKey
    /\ kept' = [k \in Keys |-> IF IsSet(kept[k]) THEN kept[k] ELSE tmp[k]]
    /\ UNCHANGED <<given, root, start, stack, counts,
                   loose, torn, complete, applied>>

\* > secrets.<service>.env
Opened ==
    /\ pc = "open"
    /\ given' = [k \in AllKeys |-> IF ServiceOf(k) = ServiceOf(ProjectOrder[at])
                                     THEN Missing ELSE given[k]]
    /\ pc' = "echo"
    /\ UNCHANGED <<secrets, root, at, tmp, start, stack, counts, history>>

\* echo "KEY=$(get_val KEY)"
Echoed ==
    LET k == ProjectOrder[at]
        last == at = Len(ProjectOrder)
    IN  /\ pc = "echo"
        /\ given' = [given EXCEPT ![k] = IF IsSet(secrets[k]) THEN secrets[k] ELSE Blank]
        /\ at' = IF last THEN 1 ELSE at + 1
        /\ pc' = IF last THEN "idle"
                 ELSE IF ServiceOf(ProjectOrder[at + 1]) = ServiceOf(k) THEN "echo" ELSE "open"
        /\ complete' = IF last /\ complete = "running" THEN "yes" ELSE complete
        /\ UNCHANGED <<secrets, root, tmp, start, stack, counts,
                       kept, loose, torn, applied>>

Killed ==
    /\ pc # "idle" /\ Trouble
    /\ pc' = "idle" /\ at' = 1 /\ tmp' = NoLines
    /\ torn' = (torn \/ pc = "emptied")
    /\ complete' = "no"
    /\ UNCHANGED <<files, root, start, stack, unused, kept, loose, applied>>

-----------------------------------------------------------------------------
(* The operator's editor.  A key is blanked, to be generated again, or     *)
(* given a value.                                                          *)

Edit(k, v) ==
    /\ pc # "emptied" /\ Trouble
    /\ secrets[k] # v /\ secrets[k] # Missing
    /\ secrets' = [secrets EXCEPT ![k] = v]
    /\ unused' = IF v = Blank THEN unused ELSE unused + 1
    /\ kept' = [kept EXCEPT ![k] = v]
    /\ loose' = (loose \ (IF v = Blank THEN {k} \cap {Api} ELSE {}))
                  \cup {d \in Derived : SourceOf(d) = k /\ IsSet(kept[d])}
                  \cup {d \in Derived \cap {k} : v # Blank}
                  \cup {p \in {Pg} \cap {k} : IsSet(kept[p])}
    \* and what was saved after gen-secrets.sh read the file is lost
    /\ torn' = (torn \/ pc = "copied")
    /\ complete' = "no" /\ applied' = "no"
    /\ UNCHANGED <<given, root, run, start, stack>>

EditRoot ==
    /\ Trouble /\ root' = root + 1
    /\ applied' = "no"
    /\ UNCHANGED <<files, run, start, stack, unused, kept, loose, torn, complete>>

-----------------------------------------------------------------------------
(* sparkyard render replaces .env at once.                                 *)

Render ==
    /\ given' = [given EXCEPT ![Root] = root]
    /\ UNCHANGED <<secrets, root, run, start, stack, counts, history>>

-----------------------------------------------------------------------------
(* sparkyard start and stop.                                               *)

\* compose refuses a service whose env_file is not there
StartBegins ==
    /\ ~up /\ \A k \in AllKeys : given[k] # NoFile
    /\ up' = TRUE /\ todo' = Services /\ seen' = given
    /\ applied' = IF pc = "idle" /\ complete = "yes" /\ given[Root] = root
                     THEN "running" ELSE "no"
    /\ UNCHANGED <<files, root, run, stack, counts, kept, loose, torn, complete>>

\* depends_on: postgres is healthy once it has a database, litellm if it opens it
DependsOn(s) ==
    CASE s = "litellm" -> "litellm-db" \notin todo /\ volume # NoFile
      [] s = "open-webui" -> "litellm" \notin todo
      [] OTHER -> TRUE

\* slip: a container that is there is left alone
CreatesMissing(s) ==
    /\ up /\ s \in todo /\ DependsOn(s)
    /\ env' = [k \in AllKeys |-> IF ServiceOf(k) = s /\ env[k] = NoFile THEN seen[k] ELSE env[k]]
    /\ volume' = IF s = "litellm-db" /\ volume = NoFile /\ IsSet(seen[Pg])
                    THEN seen[Pg] ELSE volume
    /\ todo' = todo \ {s}
    /\ UNCHANGED <<files, root, run, up, seen, counts, history>>

\* a container that is there is made anew if what it was created with changed;
\* postgres takes a password for an empty volume only
Creates(s) ==
    /\ up /\ s \in todo /\ DependsOn(s)
    /\ env' = [k \in AllKeys |-> IF ServiceOf(k) = s THEN seen[k] ELSE env[k]]
    /\ volume' = IF s = "litellm-db" /\ volume = NoFile /\ IsSet(seen[Pg])
                    THEN seen[Pg] ELSE volume
    /\ todo' = todo \ {s}
    /\ UNCHANGED <<files, root, run, up, seen, counts, history>>

StartEnds ==
    /\ up /\ todo = {}
    /\ up' = FALSE /\ seen' = Nothing
    /\ applied' = IF applied = "running" THEN "yes" ELSE applied
    /\ UNCHANGED <<files, root, run, todo, stack, counts,
                   kept, loose, torn, complete>>

\* killed, or a service does not become healthy
StartFails ==
    /\ up /\ Trouble
    /\ up' = FALSE /\ todo' = {} /\ seen' = Nothing
    /\ applied' = "no"
    /\ UNCHANGED <<files, root, run, stack, unused, kept, loose, torn, complete>>

\* compose down, without -v
Stop ==
    /\ ~up /\ env # Nothing /\ Trouble
    /\ env' = Nothing
    /\ applied' = "no"
    /\ UNCHANGED <<files, root, run, start, volume, unused,
                   kept, loose, torn, complete>>

-----------------------------------------------------------------------------

Run ==
    \/ RunBegins \/ AppendDone \/ KeySkipped \/ KeyCopied \/ Emptied \/ Rewritten
    \/ Opened \/ Echoed \/ Killed
    \/ \E k \in Keys : KeyAdded(k)

Next ==
    \/ Run
    \/ \E k \in Keys, v \in {Blank, unused} : Edit(k, v)
    \/ EditRoot \/ Render
    \/ StartBegins \/ StartEnds \/ StartFails \/ Stop
    \/ \E s \in Services : Creates(s)

Spec == Init /\ [][Next]_vars

-----------------------------------------------------------------------------
(* Properties.                                                             *)

(* A value that is set stays, whatever runs and is killed, until it is     *)
(* edited; unless a run was killed while the file was empty or an edit was *)
(* saved between a run's reading and writing it.                           *)
SetValuesSurvive ==
    ~torn /\ pc # "emptied" => \A k \in Keys : IsSet(kept[k]) => secrets[k] = kept[k]

(* LiteLLM has the password that the volume was made with, even after a    *)
(* start in the middle of a run and a run that was killed; unless the      *)
(* password was changed or the URL written by hand.                        *)
DatabaseOpens ==
    ~torn /\ {Pg, Url} \cap loose = {} /\ volume # NoFile /\ IsSet(env[Url])
        => env[Url] = volume

(* A start that began after a run and a render had ended, and ended with   *)
(* no edit since, leaves every service with what the operator's files say: *)
(* no key is blank, and no container has an older one.                     *)
StartApplies ==
    ~torn /\ applied = "yes" =>
        /\ \A k \in Keys : IsSet(env[k]) /\ env[k] = kept[k]
        /\ env[Root] = root

(* Then Open WebUI has the key that LiteLLM asks for, unless one was       *)
(* changed and OPENAI_API_KEY not blanked.                                 *)
KeysAgree ==
    ~torn /\ applied = "yes" /\ Api \notin loose => env[Api] = env[Master]
=============================================================================
