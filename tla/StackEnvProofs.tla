--------------------------- MODULE StackEnvProofs ---------------------------
(***************************************************************************)
(* The safety of StackEnv, for any number of edits, kills and stops.       *)
(***************************************************************************)
EXTENDS StackEnv, TLAPS

\* once its lines are there, secrets.env has them all, but for the moment it is empty
FileInv ==
    /\ pc \in {"fill", "copied", "open", "echo"} => \A k \in Keys : secrets[k] # Missing
    /\ pc \in {"copied", "emptied"} => \A k \in Keys : tmp[k] # Missing

\* what is set is what was kept, in the file and in the copy
SurviveInv ==
    ~torn =>
        /\ pc # "emptied" => \A k \in Keys : /\ IsSet(kept[k]) => secrets[k] = kept[k]
                                             /\ IsSet(secrets[k]) => kept[k] = secrets[k]
        /\ pc \in {"copied", "emptied"} =>
              \A k \in Keys : IsSet(kept[k]) => tmp[k] = kept[k]

\* there is one password, and it comes before any URL
UrlInv ==
    ~torn /\ {Pg, Url} \cap loose = {} =>
        /\ pc = "fill" /\ at > 2 => IsSet(secrets[Pg])
        /\ pc \in {"copied", "emptied"} /\ at >= 2 => IsSet(tmp[Pg])
        /\ pc \in {"copied", "emptied"} /\ IsSet(tmp[Url]) => tmp[Url] = kept[Pg]
        /\ \A x \in {given[Pg], seen[Pg], env[Pg], volume,
                     kept[Url], given[Url], seen[Url], env[Url]} : IsSet(x) => x = kept[Pg]

ApiInv ==
    ~torn /\ Api \notin loose =>
        /\ IsSet(kept[Api]) => kept[Api] = kept[Master]
        /\ pc \in {"copied", "emptied"} /\ IsSet(tmp[Api]) => tmp[Api] = tmp[Master]

\* a run that nobody edits beside has set the keys, and projected the ones, before `at`
RunInv ==
    /\ pc = "open" => at # 4
    /\ complete = "running" =>
        /\ pc # "idle"
        /\ pc = "fill" => \A i \in 1..4 : i < at => IsSet(secrets[FillOrder[i]])
        /\ pc \in {"copied", "emptied"} => \A i \in 1..4 : i <= at => IsSet(tmp[FillOrder[i]])
        /\ pc \in {"open", "echo"} =>
             /\ \A k \in Keys : IsSet(secrets[k])
             /\ \A i \in 1..4 : i < at => given[ProjectOrder[i]] = secrets[ProjectOrder[i]]
    /\ complete = "yes" =>
        /\ pc = "idle"
        /\ \A k \in Keys : IsSet(secrets[k]) /\ given[k] = secrets[k]

ApplyInv ==
    ~torn =>
        /\ applied = "running" =>
             /\ pc = "idle" /\ up /\ seen[Root] = root
             /\ \A k \in Keys : IsSet(kept[k]) /\ seen[k] = kept[k]
             /\ \A k \in AllKeys : ServiceOf(k) \notin todo => env[k] = seen[k]
        /\ applied = "yes" =>
             /\ ~up /\ env[Root] = root
             /\ \A k \in Keys : IsSet(kept[k]) /\ env[k] = kept[k]

-----------------------------------------------------------------------------

LEMMA Orders ==
    /\ FillOrder \in [1..4 -> Keys] /\ ProjectOrder \in [1..4 -> Keys]
    /\ FillOrder[1] = Master /\ FillOrder[2] = Pg /\ FillOrder[3] = Url /\ FillOrder[4] = Api
    /\ ProjectOrder[1] = Api /\ ProjectOrder[2] = Pg
    /\ ProjectOrder[3] = Master /\ ProjectOrder[4] = Url
    /\ Len(FillOrder) = 4 /\ Len(ProjectOrder) = 4
BY DEF FillOrder, ProjectOrder, Keys

LEMMA Distinct ==
    /\ Keys = {Master, Pg, Url, Api} /\ AllKeys = {Master, Pg, Url, Api, Root}
    /\ Master # Pg /\ Master # Url /\ Master # Api /\ Master # Root
    /\ Pg # Url /\ Pg # Api /\ Pg # Root /\ Url # Api /\ Url # Root /\ Api # Root
    /\ Derived = {Url, Api}
BY DEF Keys, AllKeys, Derived, Master, Pg, Url, Api, Root

LEMMA ServicesOf ==
    /\ ServiceOf(Api) = "open-webui" /\ ServiceOf(Pg) = "litellm-db"
    /\ ServiceOf(Master) = "litellm" /\ ServiceOf(Url) = "litellm"
    /\ ServiceOf(Root) = "llama-swap"
    /\ \A k \in AllKeys : ServiceOf(k) \in Services
<1>1. /\ ServiceOf(Api) = "open-webui" /\ ServiceOf(Pg) = "litellm-db"
      /\ ServiceOf(Master) = "litellm" /\ ServiceOf(Url) = "litellm"
      /\ ServiceOf(Root) = "llama-swap"
  BY DEF ServiceOf, Master, Pg, Url, Api, Root
<1> QED
  BY <1>1, Distinct DEF Services

LEMMA Values == \A v \in Value : IsSet(v) /\ IsSet(0)
BY DEF Value, IsSet, Blank, Missing, NoFile

(* What a step of a run may do to `pc` and `at`.                           *)
LEMMA NextKeyCases ==
    ASSUME at \in 1..4, NextKey
    PROVE  \/ at # 4 /\ pc' = "fill" /\ at' = at + 1
           \/ at = 4 /\ pc' = "open" /\ at' = 1
BY Orders DEF NextKey

-----------------------------------------------------------------------------

LEMMA NextType == TypeOK /\ [Next]_vars => TypeOK'
<1> SUFFICES ASSUME TypeOK, [Next]_vars PROVE TypeOK'
  OBVIOUS
<1> USE MaxTroublesAssumption
<1> USE DEF TypeOK, files, run, start, stack, counts, history, Line, Value, Trouble
<1>1. ASSUME RunBegins PROVE TypeOK'
  BY <1>1 DEF RunBegins
<1>2. ASSUME NEW k \in Keys, KeyAdded(k) PROVE TypeOK'
  BY <1>2 DEF KeyAdded
<1>3. ASSUME AppendDone PROVE TypeOK'
  BY <1>3 DEF AppendDone
<1>4. ASSUME KeySkipped PROVE TypeOK'
  BY <1>4, NextKeyCases DEF KeySkipped
<1>5. ASSUME KeyCopied PROVE TypeOK'
  <2>1. FillOrder[at] \in Keys
    BY Orders
  <2>2. NewValue(FillOrder[at]) \in Line
    BY <2>1, Distinct DEF NewValue
  <2> QED
    BY <1>5, <2>1, <2>2 DEF KeyCopied
<1>6. ASSUME Emptied PROVE TypeOK'
  BY <1>6 DEF Emptied, NoLines
<1>7. ASSUME Rewritten PROVE TypeOK'
  BY <1>7, NextKeyCases DEF Rewritten, NoLines
<1>8. ASSUME Opened PROVE TypeOK'
  BY <1>8 DEF Opened
<1>9. ASSUME Echoed PROVE TypeOK'
  <2>1. ProjectOrder[at] \in AllKeys
    BY Orders DEF AllKeys
  <2>2. secrets[ProjectOrder[at]] \in Line
    BY Orders
  <2>3. pc' \in {"idle", "echo", "open"} /\ at' \in 1..4
    BY <1>9, Orders DEF Echoed
  <2>4. given' \in [AllKeys -> Line \cup {NoFile}]
    BY <1>9, <2>1, <2>2 DEF Echoed
  <2> QED
    BY <1>9, <2>3, <2>4 DEF Echoed
<1>10. ASSUME Killed PROVE TypeOK'
  BY <1>10 DEF Killed, NoLines
<1>11. ASSUME NEW k \in Keys, NEW v \in {Blank, unused}, Edit(k, v) PROVE TypeOK'
  BY <1>11, Distinct DEF Edit
<1>12. ASSUME EditRoot \/ Render PROVE TypeOK'
  BY <1>12 DEF EditRoot, Render, AllKeys
<1>13. ASSUME StartBegins \/ StartEnds \/ StartFails \/ Stop PROVE TypeOK'
  <2>1. Nothing \in [AllKeys -> Line \cup {NoFile}]
    BY DEF Nothing
  <2>2. CASE StartBegins
    BY <2>2 DEF StartBegins
  <2>3. CASE StartEnds
    BY <2>1, <2>3 DEF StartEnds
  <2>4. CASE StartFails
    <3>1. todo' \in SUBSET Services /\ up' \in BOOLEAN /\ applied' = "no"
      BY <2>4 DEF StartFails
    <3>2. seen' \in [AllKeys -> Line \cup {NoFile}]
      BY <2>1, <2>4 DEF StartFails
    <3>3. troubles' \in 0..MaxTroubles
      BY <2>4 DEF StartFails
    <3> QED
      BY <2>4, <3>1, <3>2, <3>3 DEF StartFails
  <2>5. CASE Stop
    BY <2>1, <2>5 DEF Stop
  <2> QED
    BY <1>13, <2>2, <2>3, <2>4, <2>5
<1>14. ASSUME NEW s \in Services, Creates(s) PROVE TypeOK'
  <2>1. seen[Pg] \in Line \cup {NoFile}
    BY Distinct
  <2>2. volume' \in Value \cup {NoFile}
    BY <1>14, <2>1 DEF Creates, IsSet
  <2> QED
    BY <1>14, <2>2 DEF Creates
<1>15. CASE UNCHANGED vars
  BY <1>15 DEF vars
<1> QED
  BY <1>1, <1>2, <1>3, <1>4, <1>5, <1>6, <1>7, <1>8, <1>9, <1>10, <1>11, <1>12, <1>13,
     <1>14, <1>15
     DEF Next, Run

(* Type correctness.                                                       *)
THEOREM TypeCorrect == Spec => []TypeOK
<1>1. Init => TypeOK
  <2>1. Nothing \in [AllKeys -> Line \cup {NoFile}] /\ NoLines \in [Keys -> Line]
    BY DEF Nothing, NoLines, Line
  <2>2. 0 \in Value /\ 0 \in 0..MaxTroubles
    BY MaxTroublesAssumption DEF Value
  <2>3. \A S : {} \in SUBSET S
    OBVIOUS
  <2> SUFFICES ASSUME Init PROVE TypeOK
    OBVIOUS
  <2>4. todo \in SUBSET Services /\ loose \in SUBSET Keys
    BY <2>3 DEF Init
  <2> QED
    <3>1. secrets \in [Keys -> Line] /\ root \in Value /\ given \in [AllKeys -> Line \cup {NoFile}]
      BY <2>1, <2>2 DEF Init
    <3>2. seen \in [AllKeys -> Line \cup {NoFile}] /\ env \in [AllKeys -> Line \cup {NoFile}]
      BY <2>1, <2>2 DEF Init
    <3>3. pc \in {"idle", "append", "fill", "copied", "emptied", "open", "echo"} /\ at \in 1..4
      BY <2>1, <2>2 DEF Init
    <3>4. up \in BOOLEAN /\ torn \in BOOLEAN
      BY <2>1, <2>2 DEF Init
    <3>5. volume \in Value \cup {NoFile} /\ unused \in Nat \ {0} /\ troubles \in 0..MaxTroubles
      BY <2>1, <2>2 DEF Init
    <3>6. tmp \in [Keys -> Line] /\ kept \in [Keys -> Line]
      BY <2>1, <2>2 DEF Init
    <3>7. complete \in {"no", "running", "yes"} /\ applied \in {"no", "running", "yes"}
      BY <2>1, <2>2 DEF Init
    <3> QED
      BY <2>4, <3>1, <3>2, <3>3, <3>4, <3>5, <3>6, <3>7 DEF TypeOK
<1> QED
  BY <1>1, NextType, PTL DEF Spec
-----------------------------------------------------------------------------

LEMMA FileInvStep == TypeOK /\ FileInv /\ [Next]_vars => FileInv'
<1> SUFFICES ASSUME TypeOK, FileInv, [Next]_vars PROVE FileInv'
  OBVIOUS
<1> USE DEF FileInv, files, run, start, stack, counts, history
<1>1. ASSUME UNCHANGED <<secrets, run>> PROVE FileInv'
  BY <1>1
<1>2. ASSUME pc' \in {"idle", "append"} PROVE FileInv'
  BY <1>2
<1>3. CASE AppendDone
  BY <1>3 DEF AppendDone
<1>4. CASE KeySkipped
  BY <1>4, NextKeyCases DEF KeySkipped, TypeOK
<1>5. CASE KeyCopied
  <2>1. FillOrder[at] \in Keys /\ NewValue(FillOrder[at]) # Missing
    BY Orders, Distinct DEF TypeOK, NewValue, IsSet, Blank, Missing, Line, Value
  <2> QED
    BY <1>5, <2>1 DEF KeyCopied, TypeOK
<1>6. CASE Emptied
  BY <1>6 DEF Emptied
<1>7. CASE Rewritten
  BY <1>7, NextKeyCases DEF Rewritten, TypeOK
<1>8. CASE Opened \/ Echoed
  BY <1>8 DEF Opened, Echoed
<1>9. ASSUME NEW k \in Keys, NEW v \in {Blank, unused}, Edit(k, v) PROVE FileInv'
  BY <1>9 DEF Edit, TypeOK, Blank, Missing
<1> QED
  BY <1>1, <1>2, <1>3, <1>4, <1>5, <1>6, <1>7, <1>8, <1>9
     DEF Next, Run, RunBegins, KeyAdded, Killed, EditRoot, Render, StartBegins, StartEnds,
         StartFails, Stop, Creates, vars

LEMMA SurviveInvStep == TypeOK /\ SurviveInv /\ [Next]_vars => SurviveInv'
<1> SUFFICES ASSUME TypeOK, SurviveInv, [Next]_vars PROVE SurviveInv'
  OBVIOUS
<1> USE DEF SurviveInv, files, run, start, stack, counts, history
<1>1. ASSUME UNCHANGED <<secrets, kept, torn>>, pc' # "emptied",
             pc' = "copied" => pc = "copied" /\ tmp' = tmp, pc # "emptied"
      PROVE  SurviveInv'
  BY <1>1
<1>2. ASSUME UNCHANGED <<secrets, run, kept, torn>> PROVE SurviveInv'
  BY <1>2
<1>3. ASSUME NEW k \in Keys, KeyAdded(k) PROVE SurviveInv'
  BY <1>3 DEF KeyAdded, TypeOK, IsSet
<1>4. CASE KeySkipped
  BY <1>1, <1>4, NextKeyCases DEF KeySkipped, TypeOK
<1>5. CASE KeyCopied
  <2>1. FillOrder[at] \in Keys
    BY Orders DEF TypeOK
  <2>2. ~torn => ~IsSet(kept[FillOrder[at]])
    BY <1>5, <2>1 DEF KeyCopied, IsSet
  <2> QED
    BY <1>5, <2>1, <2>2 DEF KeyCopied, TypeOK
<1>6. CASE Emptied
  BY <1>6 DEF Emptied
<1>7. CASE Rewritten
  BY <1>7, NextKeyCases DEF Rewritten, TypeOK
<1>8. CASE Opened
  BY <1>1, <1>8 DEF Opened
<1>9. CASE Echoed
  BY <1>1, <1>9 DEF Echoed
<1>10. CASE Killed
  BY <1>10 DEF Killed
<1>11. ASSUME NEW k \in Keys, NEW v \in {Blank, unused}, Edit(k, v) PROVE SurviveInv'
  BY <1>11 DEF Edit, TypeOK
<1>12. CASE RunBegins \/ AppendDone
  BY <1>1, <1>12 DEF RunBegins, AppendDone
<1> QED
  BY <1>2, <1>3, <1>4, <1>5, <1>6, <1>7, <1>8, <1>9, <1>10, <1>11, <1>12
     DEF Next, Run, EditRoot, Render, StartBegins, StartEnds, StartFails, Stop, Creates, vars

(* A value that is set stays, for any number of edits and kills.           *)
THEOREM ValuesSurvive == Spec => []SetValuesSurvive
<1>1. Init => SurviveInv
  BY DEF Init, SurviveInv, NoLines, IsSet
<1>2. SurviveInv => SetValuesSurvive
  BY DEF SurviveInv, SetValuesSurvive
<1> QED
  BY TypeCorrect, <1>1, <1>2, SurviveInvStep, PTL DEF Spec

-----------------------------------------------------------------------------

LEMMA UrlInvStep ==
    TypeOK /\ FileInv /\ SurviveInv /\ UrlInv /\ [Next]_vars => UrlInv'
<1> SUFFICES ASSUME TypeOK, FileInv, SurviveInv, UrlInv, [Next]_vars,
                    ~torn', {Pg, Url} \cap loose' = {}
             PROVE  UrlInv'
  BY DEF UrlInv
<1> USE DEF files, run, start, stack, counts, history
\* the sources and the copies of the password
<1> DEFINE Fit ==
        \A x \in {given[Pg], seen[Pg], env[Pg], volume,
                 kept[Url], given[Url], seen[Url], env[Url]} : IsSet(x) => x = kept[Pg]
<1>0. ~torn /\ {Pg, Url} \cap loose = {}
  <2>1. ASSUME NEW k \in Keys, NEW v \in {Blank, unused}, Edit(k, v)
        PROVE  ~torn /\ {Pg, Url} \cap loose = {}
    BY <2>1, Distinct DEF Edit
  <2>2. CASE UNCHANGED loose /\ (torn => torn')
    BY <2>2
  <2>3. CASE Killed
    BY <2>3 DEF Killed
  <2> QED
    BY <2>1, <2>2, <2>3 DEF Next, Run, RunBegins, KeyAdded, AppendDone, KeySkipped, KeyCopied,
       Emptied, Rewritten, Opened, Echoed, EditRoot, Render, StartBegins, StartEnds, StartFails,
       Stop, Creates, vars
<1>00. Pg \in Keys /\ Url \in Keys /\ Pg # Url /\ Pg \in AllKeys /\ Url \in AllKeys
  BY Distinct
<1>a. Fit
  BY <1>0 DEF UrlInv
<1>1. ASSUME Fit', pc' \notin {"copied", "emptied"},
             pc' = "fill" /\ at' > 2 => IsSet(secrets'[Pg])
      PROVE  UrlInv'
  <2>1. \A v : IsSet(v)' <=> IsSet(v)
    BY DEF IsSet
  <2> QED
    BY <1>1, <2>1 DEF UrlInv
<1>2. ASSUME Fit', UNCHANGED <<secrets, run, kept>> PROVE UrlInv'
  BY <1>0, <1>2 DEF UrlInv
<1>3. CASE RunBegins \/ (\E k \in Keys : KeyAdded(k)) \/ Killed \/ Opened \/ Echoed
  <2>1. UNCHANGED <<kept, seen, env, volume>> /\ pc' \notin {"fill", "copied", "emptied"}
    BY <1>3 DEF RunBegins, KeyAdded, Killed, Opened, Echoed
  <2>2. \A k \in {Pg, Url} :
           given'[k] = given[k] \/ ~IsSet(given'[k]) \/ (given'[k] = secrets[k] /\ pc = "echo")
    <3>1. CASE Opened
      <4>1. \A k \in AllKeys : given'[k] \in {Missing, given[k]}
        BY <3>1 DEF Opened
      <4> QED
        BY <1>00, <4>1 DEF IsSet
    <3>2. CASE Echoed
      <4>1. ProjectOrder[at] \in Keys
        BY Orders DEF TypeOK
      <4>2. given'[ProjectOrder[at]] = secrets[ProjectOrder[at]]
              \/ ~IsSet(given'[ProjectOrder[at]])
        BY <3>2, <4>1 DEF Echoed, TypeOK, AllKeys, IsSet
      <4>3. pc = "echo" /\ \A k \in AllKeys : k # ProjectOrder[at] => given'[k] = given[k]
        BY <3>2 DEF Echoed, TypeOK
      <4> QED
        BY <1>00, <4>2, <4>3
    <3>3. CASE RunBegins \/ (\E k \in Keys : KeyAdded(k)) \/ Killed
      <4>1. UNCHANGED given
        BY <3>3 DEF RunBegins, KeyAdded, Killed
      <4> QED
        BY <4>1
    <3> QED
      BY <1>3, <3>1, <3>2, <3>3
  <2>3. \A k \in {Pg, Url} : IsSet(secrets[k]) /\ pc = "echo" => kept[k] = secrets[k]
    BY <1>0, <1>00 DEF SurviveInv
  <2>4. Fit'
    BY <1>a, <2>1, <2>2, <2>3
  <2> QED
    BY <1>1, <2>1, <2>4
<1>4. CASE AppendDone
  <2>1. Fit' /\ pc' = "fill" /\ at' = 1
    BY <1>4, <1>a DEF AppendDone
  <2> QED
    BY <1>1, <2>1
<1>5. CASE KeySkipped
  <2>1. Fit'
    BY <1>5, <1>a DEF KeySkipped
  <2>2. at' > 2 /\ pc' = "fill" => IsSet(secrets[Pg])
    <3>1. CASE at = 2
      BY <1>00, <1>5, <3>1, Orders DEF KeySkipped, FileInv, TypeOK, IsSet, Line, Value, NoFile,
            Blank, Missing
    <3>2. CASE at # 2
      BY <1>0, <1>5, <3>2, NextKeyCases DEF KeySkipped, UrlInv, TypeOK
    <3> QED
      BY <3>1, <3>2
  <2>3. pc' \in {"fill", "open"}
    BY <1>5, NextKeyCases DEF KeySkipped, TypeOK
  <2>4. UNCHANGED secrets
    BY <1>5 DEF KeySkipped
  <2> QED
    BY <1>1, <2>1, <2>2, <2>3, <2>4
<1>6. CASE KeyCopied
  <2>1. Fit' /\ pc' = "copied" /\ at' = at /\ UNCHANGED kept
    BY <1>6, <1>a DEF KeyCopied
  <2>2. FillOrder[at] \in Keys /\ pc = "fill"
    BY <1>6, Orders DEF TypeOK, KeyCopied
  <2>3. \A k \in {Pg, Url} : IsSet(secrets[k]) => kept[k] = secrets[k]
    BY <1>0, <1>00, <2>2 DEF SurviveInv
  <2>4. at >= 2 => IsSet(tmp'[Pg])
    <3>1. CASE at = 2
      <4>1. tmp'[Pg] = unused
        BY <1>00, <1>6, <3>1, Orders, Distinct DEF KeyCopied, NewValue, TypeOK
      <4> QED
        BY <4>1 DEF TypeOK, IsSet, Blank, Missing, NoFile
    <3>2. CASE at # 2
      <4>1. tmp'[Pg] = secrets[Pg]
        BY <1>00, <1>6, <3>2, Orders, Distinct DEF KeyCopied, TypeOK
      <4> QED
        BY <1>0, <1>6, <3>2, <4>1 DEF UrlInv, TypeOK, KeyCopied
    <3> QED
      BY <3>1, <3>2
  <2>5. IsSet(tmp'[Url]) => tmp'[Url] = kept[Pg]
    <3>1. CASE at = 3
      <4>1. IsSet(secrets[Pg])
        BY <1>0, <2>2, <3>1 DEF UrlInv
      <4>2. tmp'[Url] = secrets[Pg]
        BY <1>00, <1>6, <3>1, <4>1, Orders, Distinct DEF KeyCopied, NewValue, TypeOK
      <4> QED
        BY <2>3, <4>1, <4>2
    <3>2. CASE at # 3
      <4>1. tmp'[Url] = secrets[Url]
        BY <1>00, <1>6, <3>2, Orders, Distinct DEF KeyCopied, TypeOK
      <4> QED
        BY <1>a, <2>3, <4>1
    <3> QED
      BY <3>1, <3>2
  <2> QED
    BY <2>1, <2>4, <2>5 DEF UrlInv
<1>7. CASE Emptied
  BY <1>0, <1>7 DEF Emptied, UrlInv
<1>8. CASE Rewritten
  <2>1. /\ secrets' = tmp /\ pc = "emptied" /\ pc' \in {"fill", "open"}
        /\ kept'[Pg] = IF IsSet(kept[Pg]) THEN kept[Pg] ELSE tmp[Pg]
        /\ kept'[Url] = IF IsSet(kept[Url]) THEN kept[Url] ELSE tmp[Url]
        /\ UNCHANGED <<given, seen, env, volume>>
    BY <1>00, <1>8, NextKeyCases DEF Rewritten, TypeOK
  <2>2. at' > 2 /\ pc' = "fill" => IsSet(tmp[Pg])
    BY <1>0, <1>8, <2>1, NextKeyCases DEF Rewritten, UrlInv, TypeOK
  <2>3. Fit'
    BY <1>0, <1>a, <2>1 DEF UrlInv
  <2> QED
    BY <2>1, <2>2, <2>3 DEF UrlInv
<1>9. ASSUME NEW k \in Keys, NEW v \in {Blank, unused}, Edit(k, v) PROVE UrlInv'
  <2>1. /\ pc \notin {"copied", "emptied"} /\ UNCHANGED <<run, given, seen, env, volume>>
        /\ secrets' = [secrets EXCEPT ![k] = v] /\ kept' = [kept EXCEPT ![k] = v]
    BY <1>9 DEF Edit
  <2>2. k = Pg => ~IsSet(kept[Pg]) /\ ~IsSet(kept[Url])
    BY <1>9, Distinct DEF Edit, SourceOf
  <2>3. k = Url => v = Blank
    BY <1>9, Distinct DEF Edit
  <2>4. ~IsSet(Blank)
    BY DEF IsSet
  <2>5. Fit'
    BY <1>00, <1>a, <2>1, <2>2, <2>3, <2>4 DEF TypeOK
  <2>6. pc' = "fill" /\ at' > 2 => IsSet(secrets'[Pg])
    BY <1>0, <1>00, <2>1, <2>2 DEF UrlInv, SurviveInv, TypeOK
  <2> QED
    BY <2>1, <2>5, <2>6 DEF UrlInv
<1>10. CASE EditRoot \/ StartBegins \/ StartEnds \/ StartFails \/ Stop
  <2>1. Nothing \in [AllKeys -> {NoFile}] /\ ~IsSet(NoFile)
    BY DEF Nothing, IsSet
  <2>2. /\ UNCHANGED <<secrets, run, kept, given, volume>>
        /\ seen' \in {seen, given, Nothing} /\ env' \in {env, Nothing}
    BY <1>10 DEF EditRoot, StartBegins, StartEnds, StartFails, Stop
  <2>3. Fit'
    BY <1>00, <1>a, <2>1, <2>2
  <2> QED
    BY <1>2, <2>2, <2>3
<1>11. CASE Render
  <2>1. Fit'
    BY <1>11, <1>a, Distinct DEF Render, TypeOK
  <2> QED
    BY <1>2, <1>11, <2>1 DEF Render
<1>12. ASSUME NEW s \in Services, Creates(s) PROVE UrlInv'
  <2>1. /\ UNCHANGED <<secrets, run, kept, given, seen>>
        /\ \A k \in AllKeys : env'[k] \in {seen[k], env[k]}
        /\ volume' \in {volume, seen[Pg]}
    BY <1>12 DEF Creates
  <2>2. Fit'
    BY <1>00, <1>a, <2>1
  <2> QED
    BY <1>2, <2>1, <2>2
<1>13. CASE UNCHANGED vars
  BY <1>0, <1>13 DEF vars, UrlInv
<1> QED
  BY <1>3, <1>4, <1>5, <1>6, <1>7, <1>8, <1>9, <1>10, <1>11, <1>12, <1>13 DEF Next, Run

(* LiteLLM's URL opens the database, for any number of edits and kills.    *)
THEOREM DatabaseStaysOpen == Spec => []DatabaseOpens
<1>1. Init => FileInv /\ SurviveInv /\ UrlInv
  <2>1. Pg \in AllKeys /\ Url \in AllKeys /\ Url \in Keys
    BY Distinct
  <2> QED
    BY <2>1 DEF Init, FileInv, SurviveInv, UrlInv, NoLines, Nothing, IsSet
<1>2. TypeOK /\ UrlInv => DatabaseOpens
  <2> SUFFICES ASSUME TypeOK, UrlInv, ~torn, {Pg, Url} \cap loose = {}, volume # NoFile,
                      IsSet(env[Url])
               PROVE  env[Url] = volume
    BY DEF DatabaseOpens
  <2>1. IsSet(volume)
    BY DEF TypeOK, Value, IsSet, Blank, Missing, NoFile
  <2> QED
    BY <2>1 DEF UrlInv
<1> QED
  BY TypeCorrect, <1>1, <1>2, FileInvStep, SurviveInvStep, UrlInvStep, PTL DEF Spec
-----------------------------------------------------------------------------

LEMMA ApiInvStep ==
    TypeOK /\ SurviveInv /\ ApiInv /\ [Next]_vars => ApiInv'
<1> SUFFICES ASSUME TypeOK, SurviveInv, ApiInv, [Next]_vars, ~torn', Api \notin loose'
             PROVE  ApiInv'
  BY DEF ApiInv
<1> USE DEF files, run, start, stack, counts, history
<1>00. Api \in Keys /\ Master \in Keys /\ Api # Master
  BY Distinct
<1>1. ASSUME NEW k \in Keys, NEW v \in {Blank, unused}, Edit(k, v) PROVE ApiInv'
  <2>1. /\ ~torn /\ pc' \notin {"copied", "emptied"}
        /\ kept' = [kept EXCEPT ![k] = v]
        /\ k = Api \/ Api \notin loose
    BY <1>1, Distinct DEF Edit
  <2>2. k = Api => v = Blank
    BY <1>1, Distinct DEF Edit
  <2>3. k = Master => ~IsSet(kept[Api])
    BY <1>1, Distinct DEF Edit, SourceOf
  <2>4. ~IsSet(Blank)
    BY DEF IsSet
  <2>5. IsSet(kept'[Api]) => kept'[Api] = kept'[Master]
    BY <1>00, <2>1, <2>2, <2>3, <2>4 DEF ApiInv, TypeOK
  <2> QED
    BY <2>1, <2>5 DEF ApiInv, IsSet
<1>2. ASSUME UNCHANGED <<kept, tmp, loose>>, torn => torn',
             pc' \in {"copied", "emptied"} => pc \in {"copied", "emptied"}
      PROVE  ApiInv'
  BY <1>2 DEF ApiInv
<1>3. CASE KeyCopied
  <2>1. /\ UNCHANGED <<kept, loose, torn>> /\ pc = "fill" /\ ~torn /\ Api \notin loose
        /\ FillOrder[at] \in Keys
    BY <1>3, Orders DEF KeyCopied, TypeOK
  <2>2. IsSet(kept[Api]) => kept[Api] = kept[Master]
    BY <2>1 DEF ApiInv
  <2>3. \A k \in {Api, Master} : (IsSet(kept[k]) => secrets[k] = kept[k])
                                 /\ (IsSet(secrets[k]) => kept[k] = secrets[k])
    BY <1>00, <2>1 DEF SurviveInv
  <2>4. IsSet(tmp'[Api]) => tmp'[Api] = tmp'[Master]
    <3>1. CASE at = 1
      <4>1. tmp'[Api] = secrets[Api] /\ secrets[Master] = Blank
        BY <1>00, <1>3, <3>1, Orders DEF KeyCopied, TypeOK
      <4>2. ~IsSet(Blank)
        BY DEF IsSet
      <4> QED
        BY <2>2, <2>3, <4>1, <4>2
    <3>2. CASE at = 4
      <4>1. /\ tmp'[Master] = secrets[Master]
            /\ tmp'[Api] = IF IsSet(secrets[Master]) THEN secrets[Master] ELSE Blank
        BY <1>00, <1>3, <3>2, Orders, Distinct DEF KeyCopied, NewValue, TypeOK
      <4>2. ~IsSet(Blank)
        BY DEF IsSet
      <4> QED
        BY <4>1, <4>2
    <3>3. CASE at \in {2, 3}
      <4>1. tmp'[Api] = secrets[Api] /\ tmp'[Master] = secrets[Master]
        BY <1>00, <1>3, <3>3, Orders, Distinct DEF KeyCopied, TypeOK
      <4> QED
        BY <2>2, <2>3, <4>1
    <3> QED
      BY <3>1, <3>2, <3>3 DEF TypeOK
  <2> QED
    BY <2>1, <2>2, <2>4 DEF ApiInv
<1>4. CASE Rewritten
  <2>1. /\ pc = "emptied" /\ pc' \in {"fill", "open"} /\ ~torn /\ Api \notin loose
        /\ kept'[Api] = IF IsSet(kept[Api]) THEN kept[Api] ELSE tmp[Api]
        /\ kept'[Master] = IF IsSet(kept[Master]) THEN kept[Master] ELSE tmp[Master]
    BY <1>00, <1>4, NextKeyCases DEF Rewritten, TypeOK
  <2>2. IsSet(kept[Master]) => tmp[Master] = kept[Master]
    BY <1>00, <2>1 DEF SurviveInv
  <2>3. IsSet(kept'[Api]) => kept'[Api] = kept'[Master]
    BY <2>1, <2>2 DEF ApiInv
  <2> QED
    BY <2>1, <2>3 DEF ApiInv
<1>5. CASE Emptied
  BY <1>2, <1>5 DEF Emptied
<1>6. CASE KeySkipped
  BY <1>2, <1>6, NextKeyCases DEF KeySkipped, TypeOK
<1>7. CASE Killed
  BY <1>7 DEF Killed, ApiInv
<1>8. CASE Echoed \/ Opened \/ RunBegins \/ AppendDone \/ (\E k \in Keys : KeyAdded(k))
  BY <1>2, <1>8 DEF Echoed, Opened, RunBegins, AppendDone, KeyAdded
<1> QED
  BY <1>1, <1>2, <1>3, <1>4, <1>5, <1>6, <1>7, <1>8
     DEF Next, Run, EditRoot, Render, StartBegins, StartEnds, StartFails, Stop, Creates, vars

LEMMA RunInvStep ==
    TypeOK /\ FileInv /\ RunInv /\ [Next]_vars => RunInv'
<1> SUFFICES ASSUME TypeOK, FileInv, RunInv, [Next]_vars PROVE RunInv'
  OBVIOUS
<1> USE DEF files, run, start, stack, counts, history
<1>a. \A k \in Keys : secrets[k] \notin {Blank, Missing} => IsSet(secrets[k])
  BY DEF TypeOK, Line, Value, IsSet, Blank, Missing, NoFile
<1>1. ASSUME UNCHANGED <<secrets, run, complete>>, \A k \in Keys : given'[k] = given[k]
      PROVE  RunInv'
  <2>1. \A i \in 1..4 : ProjectOrder[i] \in Keys
    BY Orders
  <2> QED
    BY <1>1, <2>1 DEF RunInv
<1>2. ASSUME pc' # "open", complete' = "no" PROVE RunInv'
  BY <1>2 DEF RunInv
<1>3. CASE RunBegins \/ (\E k \in Keys : KeyAdded(k)) \/ AppendDone
  <2>1. /\ pc' \in {"append", "fill"} /\ complete' \in {"running", complete}
        /\ pc' = "fill" => at' = 1 /\ (complete' = "yes" => pc = "idle" /\ pc' = "idle")
    BY <1>3 DEF RunBegins, KeyAdded, AppendDone, RunInv
  <2>2. complete' # "yes"
    BY <1>3 DEF RunBegins, KeyAdded, AppendDone, RunInv
  <2> QED
    BY <2>1, <2>2 DEF RunInv
<1>4. CASE KeySkipped
  <2>1. /\ pc = "fill" /\ UNCHANGED <<secrets, given, complete>> /\ FillOrder[at] \in Keys
        /\ IsSet(secrets[FillOrder[at]])
    BY <1>4, <1>a, Orders DEF KeySkipped, FileInv, TypeOK
  <2>2. complete # "yes"
    BY <2>1 DEF RunInv
  <2>3. complete = "running" => \A i \in 1..4 : i <= at => IsSet(secrets[FillOrder[i]])
    BY <2>1 DEF RunInv, TypeOK
  <2>4. CASE at # 4
    BY <1>4, <2>1, <2>2, <2>3, <2>4, NextKeyCases DEF KeySkipped, RunInv, TypeOK
  <2>5. CASE at = 4
    <3>1. pc' = "open" /\ at' = 1
      BY <1>4, <2>5, NextKeyCases DEF KeySkipped, TypeOK
    <3>2. complete = "running" => \A k \in Keys : IsSet(secrets[k])
      BY <2>3, <2>5, Orders, Distinct
    <3> QED
      BY <2>1, <2>2, <3>1, <3>2 DEF RunInv
  <2> QED
    BY <2>4, <2>5
<1>5. CASE KeyCopied
  <2>1. /\ pc = "fill" /\ pc' = "copied" /\ UNCHANGED <<at, complete>> /\ FillOrder[at] \in Keys
        /\ tmp' = [secrets EXCEPT ![FillOrder[at]] = NewValue(FillOrder[at])]
    BY <1>5, Orders DEF KeyCopied, TypeOK
  <2>2. complete # "yes"
    BY <2>1 DEF RunInv
  <2>3. complete = "running" => IsSet(NewValue(FillOrder[at]))
    <3>1. CASE at = 4
      <4>1. complete = "running" => IsSet(secrets[Master])
        BY <2>1, <3>1, Orders DEF RunInv
      <4> QED
        BY <3>1, <4>1, Orders, Distinct DEF NewValue
    <3>2. CASE at = 3
      BY <3>2, Orders, Distinct, Values DEF NewValue, Value
    <3>3. CASE at \in {1, 2}
      <4>1. IsSet(unused)
        BY Values DEF TypeOK, Value
      <4> QED
        BY <3>3, <4>1, Orders, Distinct DEF NewValue
    <3> QED
      BY <3>1, <3>2, <3>3 DEF TypeOK
  <2>4. complete = "running" => \A i \in 1..4 : i <= at => IsSet(tmp'[FillOrder[i]])
    <3> SUFFICES ASSUME complete = "running", NEW i \in 1..4, i <= at
                 PROVE  IsSet(tmp'[FillOrder[i]])
      OBVIOUS
    <3>1. CASE FillOrder[i] = FillOrder[at]
      BY <2>1, <2>3, <3>1 DEF TypeOK
    <3>2. CASE FillOrder[i] # FillOrder[at]
      <4>1. tmp'[FillOrder[i]] = secrets[FillOrder[i]] /\ i < at
        BY <2>1, <3>2, Orders DEF TypeOK
      <4> QED
        BY <2>1, <4>1 DEF RunInv
    <3> QED
      BY <3>1, <3>2
  <2> QED
    BY <2>1, <2>2, <2>4 DEF RunInv
<1>6. CASE Emptied
  BY <1>6 DEF Emptied, RunInv
<1>7. CASE Rewritten
  <2>1. pc = "emptied" /\ secrets' = tmp /\ UNCHANGED <<given, complete>>
    BY <1>7 DEF Rewritten
  <2>2. complete # "yes"
    BY <2>1 DEF RunInv
  <2>3. complete = "running" => \A i \in 1..4 : i <= at => IsSet(secrets'[FillOrder[i]])
    BY <2>1 DEF RunInv
  <2>4. CASE at # 4
    BY <1>7, <2>1, <2>2, <2>3, <2>4, NextKeyCases DEF Rewritten, RunInv, TypeOK
  <2>5. CASE at = 4
    <3>1. pc' = "open" /\ at' = 1
      BY <1>7, <2>5, NextKeyCases DEF Rewritten, TypeOK
    <3>2. complete = "running" => \A k \in Keys : IsSet(secrets'[k])
      BY <2>3, <2>5, Orders, Distinct
    <3> QED
      BY <2>1, <2>2, <3>1, <3>2 DEF RunInv
  <2> QED
    BY <2>4, <2>5
<1>8. CASE Opened
  <2>1. pc = "open" /\ pc' = "echo" /\ UNCHANGED <<secrets, at, complete>>
        /\ \A k \in AllKeys : ServiceOf(k) # ServiceOf(ProjectOrder[at]) => given'[k] = given[k]
    BY <1>8 DEF Opened
  <2>2. at \in 1..3 /\ complete # "yes"
    BY <2>1 DEF RunInv, TypeOK
  <2>3. \A i \in 1..4 : i < at => ServiceOf(ProjectOrder[i]) # ServiceOf(ProjectOrder[at])
    BY <2>2, Orders, ServicesOf
  <2>4. \A i \in 1..4 : i < at => given'[ProjectOrder[i]] = given[ProjectOrder[i]]
    BY <2>1, <2>3, Orders, Distinct
  <2> QED
    BY <2>1, <2>2, <2>4 DEF RunInv
<1>9. CASE Echoed
  <2>1. /\ pc = "echo" /\ UNCHANGED secrets /\ ProjectOrder[at] \in AllKeys
        /\ given' = [given EXCEPT ![ProjectOrder[at]] =
                       IF IsSet(secrets[ProjectOrder[at]]) THEN secrets[ProjectOrder[at]] ELSE Blank]
    BY <1>9, Orders, Distinct DEF Echoed, TypeOK
  <2>2. complete # "yes"
    BY <2>1 DEF RunInv
  <2>3. complete = "running" =>
          /\ \A k \in Keys : IsSet(secrets'[k])
          /\ \A i \in 1..4 : i <= at => given'[ProjectOrder[i]] = secrets'[ProjectOrder[i]]
    <3> SUFFICES ASSUME complete = "running"
                 PROVE  /\ \A k \in Keys : IsSet(secrets'[k])
                        /\ \A i \in 1..4 : i <= at =>
                               given'[ProjectOrder[i]] = secrets'[ProjectOrder[i]]
      OBVIOUS
    <3>1. \A k \in Keys : IsSet(secrets[k])
      BY <2>1 DEF RunInv
    <3>2. \A i \in 1..4 : i < at => given[ProjectOrder[i]] = secrets[ProjectOrder[i]]
      BY <2>1 DEF RunInv
    <3>3. \A i \in 1..4 : i < at => ProjectOrder[i] # ProjectOrder[at]
      BY Orders, Distinct DEF TypeOK
    <3>4. given'[ProjectOrder[at]] = secrets[ProjectOrder[at]]
      BY <2>1, <3>1, Orders DEF TypeOK
    <3>5. \A i \in 1..4 : i < at => given'[ProjectOrder[i]] = given[ProjectOrder[i]]
      BY <2>1, <3>3, Orders, Distinct DEF TypeOK
    <3> QED
      BY <2>1, <3>1, <3>2, <3>4, <3>5 DEF TypeOK
  <2>4. CASE at = 4
    <3>1. pc' = "idle" /\ complete' \in {"yes", complete} /\ (complete' = "yes" => complete = "running")
          /\ complete' # "running"
      BY <1>9, <2>2, <2>4, Orders DEF Echoed, TypeOK
    <3>2. complete' = "yes" => \A k \in Keys : IsSet(secrets'[k]) /\ given'[k] = secrets'[k]
      BY <2>3, <2>4, <3>1, Orders, Distinct
    <3> QED
      BY <3>1, <3>2 DEF RunInv
  <2>5. CASE at # 4
    <3>1. at' = at + 1 /\ pc' \in {"echo", "open"} /\ complete' = complete
      BY <1>9, <2>5, Orders DEF Echoed, TypeOK
    <3>2. at = 3 => pc' = "echo"
      BY <1>9, Orders, ServicesOf DEF Echoed, TypeOK
    <3> QED
      BY <2>2, <2>3, <2>5, <3>1, <3>2 DEF RunInv, TypeOK
  <2> QED
    BY <2>4, <2>5
<1>10. CASE Killed
  BY <1>2, <1>10 DEF Killed
<1>11. ASSUME NEW k \in Keys, NEW v \in {Blank, unused}, Edit(k, v) PROVE RunInv'
  BY <1>11 DEF Edit, RunInv
<1>12. CASE Render
  BY <1>1, <1>12, Distinct DEF Render, TypeOK
<1> QED
  BY <1>1, <1>3, <1>4, <1>5, <1>6, <1>7, <1>8, <1>9, <1>10, <1>11, <1>12
     DEF Next, Run, EditRoot, StartBegins, StartEnds, StartFails, Stop, Creates, vars

LEMMA ApplyInvStep ==
    TypeOK /\ SurviveInv /\ RunInv /\ ApplyInv /\ [Next]_vars => ApplyInv'
<1> SUFFICES ASSUME TypeOK, SurviveInv, RunInv, ApplyInv, [Next]_vars, ~torn' PROVE ApplyInv'
  BY DEF ApplyInv
<1> USE DEF files, run, start, stack, counts, history
<1>1. ASSUME UNCHANGED <<root, start, env, kept>>, torn => torn', pc' = pc \/ pc # "idle",
             applied' = applied
      PROVE  ApplyInv'
  BY <1>1 DEF ApplyInv
<1>2. ASSUME applied' = "no" PROVE ApplyInv'
  BY <1>2 DEF ApplyInv
<1>3. CASE RunBegins
  <2>1. UNCHANGED <<root, start, env, kept, torn>>
        /\ applied' = IF applied = "running" THEN "no" ELSE applied
    BY <1>3 DEF RunBegins
  <2> QED
    BY <2>1 DEF ApplyInv
<1>4. CASE \/ (\E k \in Keys : KeyAdded(k)) \/ AppendDone \/ KeySkipped \/ KeyCopied
           \/ Emptied \/ Opened \/ Echoed \/ Render
  <2>1. UNCHANGED <<root, start, env, kept, torn, applied>> /\ (pc' = pc \/ pc # "idle")
    BY <1>4 DEF KeyAdded, AppendDone, KeySkipped, KeyCopied, Emptied, Opened, Echoed, Render
  <2> QED
    BY <1>1, <2>1
<1>5. CASE Killed
  <2>1. UNCHANGED <<root, start, env, kept, applied>> /\ pc # "idle" /\ ~torn
    BY <1>5 DEF Killed
  <2> QED
    BY <1>1, <2>1
<1>6. CASE Rewritten
  <2>1. /\ UNCHANGED <<root, start, env, torn, applied>> /\ pc = "emptied" /\ ~torn
        /\ \A k \in Keys : IsSet(kept[k]) => kept'[k] = kept[k]
    BY <1>6 DEF Rewritten
  <2> QED
    BY <2>1 DEF ApplyInv
<1>7. CASE StartBegins
  <2>1. /\ up' /\ todo' = Services /\ seen' = given /\ applied' \in {"running", "no"}
        /\ UNCHANGED <<root, pc, kept, torn>>
        /\ applied' = "running" => pc = "idle" /\ complete = "yes" /\ given[Root] = root
    BY <1>7 DEF StartBegins
  <2>2. complete = "yes" => \A k \in Keys : IsSet(secrets[k]) /\ given[k] = secrets[k]
    BY DEF RunInv
  <2>3. pc = "idle" => \A k \in Keys : IsSet(secrets[k]) => kept[k] = secrets[k]
    BY <2>1 DEF SurviveInv
  <2> QED
    BY <2>1, <2>2, <2>3, ServicesOf DEF ApplyInv
<1>8. CASE StartEnds
  <2>1. /\ up /\ todo = {} /\ ~up' /\ UNCHANGED <<root, pc, env, kept, torn>>
        /\ applied' = IF applied = "running" THEN "yes" ELSE applied
    BY <1>8 DEF StartEnds
  <2>2. applied # "yes"
    BY <2>1 DEF ApplyInv
  <2>3. applied = "running" => env[Root] = root
                                 /\ \A k \in Keys : IsSet(kept[k]) /\ env[k] = kept[k]
    BY <2>1, Distinct DEF ApplyInv
  <2> QED
    BY <2>1, <2>2, <2>3 DEF ApplyInv
<1>9. ASSUME NEW s \in Services, Creates(s) PROVE ApplyInv'
  <2>1. /\ up /\ UNCHANGED <<root, pc, up, seen, kept, torn, applied>>
        /\ todo' = todo \ {s}
        /\ \A k \in AllKeys : env'[k] = IF ServiceOf(k) = s THEN seen[k] ELSE env[k]
    BY <1>9 DEF Creates
  <2>2. applied # "yes"
    BY <2>1 DEF ApplyInv
  <2>3. applied = "running" => \A k \in AllKeys : ServiceOf(k) \notin todo' => env'[k] = seen[k]
    BY <2>1 DEF ApplyInv
  <2> QED
    BY <2>1, <2>2, <2>3 DEF ApplyInv
<1>10. CASE EditRoot \/ StartFails \/ Stop
  BY <1>2, <1>10 DEF EditRoot, StartFails, Stop
<1>11. ASSUME NEW k \in Keys, NEW v \in {Blank, unused}, Edit(k, v) PROVE ApplyInv'
  BY <1>2, <1>11 DEF Edit
<1>12. CASE UNCHANGED vars
  BY <1>1, <1>12 DEF vars
<1> QED
  BY <1>3, <1>4, <1>5, <1>6, <1>7, <1>8, <1>9, <1>10, <1>11, <1>12 DEF Next, Run

(* What a start relies on holds throughout.                                *)
LEMMA StartInvariance == Spec => [](ApplyInv /\ ApiInv)
<1>1. Init => FileInv /\ SurviveInv /\ ApiInv /\ RunInv /\ ApplyInv
  <2>1. Api \in Keys
    BY Distinct
  <2> QED
    BY <2>1 DEF Init, FileInv, SurviveInv, ApiInv, RunInv, ApplyInv, NoLines, IsSet
<1> QED
  BY TypeCorrect, <1>1, FileInvStep, SurviveInvStep, ApiInvStep, RunInvStep,
     ApplyInvStep, PTL DEF Spec

(* A start after a complete run of the script and a render, with no edit   *)
(* since, leaves every service with what the files say.                    *)
THEOREM StartIsComplete == Spec => []StartApplies
<1>1. ApplyInv => StartApplies
  BY DEF ApplyInv, StartApplies
<1> QED BY <1>1, StartInvariance, PTL

(* After it Open WebUI and LiteLLM have the same key.                      *)
THEOREM KeysStayEqual == Spec => []KeysAgree
<1>1. ApplyInv /\ ApiInv => KeysAgree
  BY Distinct DEF ApplyInv, ApiInv, KeysAgree
<1> QED BY <1>1, StartInvariance, PTL
=============================================================================
