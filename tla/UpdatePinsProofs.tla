-------------------------- MODULE UpdatePinsProofs --------------------------
(***************************************************************************)
(* Proofs about UpdatePins: what is recorded was built, llama-swap never   *)
(* goes back, `docker compose up -d` makes a successful update live, and   *)
(* one that rebuilt vllm-node leaves its records in agreement.             *)
(***************************************************************************)
EXTENDS UpdatePins, TLAPS

LEMMA Distinct ==
    /\ LlamaSwap \in Components \cap Tagged /\ LlamaSwap \notin Images \cup FromSource
    /\ LlamaCpp \in Components \cap FromSource /\ LlamaCpp \notin Images
    /\ Vllm \in Components \cap FromSource /\ Vllm \notin Images
    /\ LlamaSwap # LlamaCpp /\ LlamaSwap # Vllm /\ LlamaCpp # Vllm
    /\ Images \subseteq Components /\ FromSource \subseteq Tagged
    /\ Tagged \subseteq Components
    /\ 0 \in Versions
BY UpdateAssumption DEF Components, Tagged, Versions, LlamaSwap, LlamaCpp, Vllm,
   FromSource

(***************************************************************************)
(* Types.  A target is a version upstream offered, and a component is      *)
(* tried only if it was named.                                             *)
(***************************************************************************)
LEMMA TypeInit == Init => TypeOK
<1>. SUFFICES ASSUME Init PROVE TypeOK
  OBVIOUS
<1>. USE Distinct DEF Init
<1>1. WorldOK
  BY DEF WorldOK
<1>2. FilesOK
  BY DEF FilesOK
<1>3. StoreOK
  BY DEF StoreOK
<1>4. UpdateOK
  BY DEF UpdateOK, NoTarget, NotFound, PCs
<1>5. QED
  BY <1>1, <1>2, <1>3, <1>4 DEF TypeOK

LEMMA TypeEnd ==
    ASSUME UpdateOK, NEW how \in {"failed", "up-to-date", "ok"}, End(how),
           advised' \subseteq Components
    PROVE  UpdateOK'
BY Distinct DEF UpdateOK, End, NoTarget, NotFound, PCs

LEMMA TypeStep == TypeOK /\ [Next]_vars => TypeOK'
<1>. SUFFICES ASSUME TypeOK, [Next]_vars PROVE TypeOK'
  OBVIOUS
<1>. USE Distinct, UpdateAssumption
<1>0. WorldOK /\ FilesOK /\ StoreOK /\ UpdateOK
  BY DEF TypeOK
<1>w. ASSUME UNCHANGED world PROVE WorldOK'
  BY <1>0, <1>w DEF WorldOK, world
<1>f. ASSUME UNCHANGED files PROVE FilesOK'
  BY <1>0, <1>f DEF FilesOK, files
<1>s. ASSUME UNCHANGED store PROVE StoreOK'
  BY <1>0, <1>s DEF StoreOK, store
<1>u. ASSUME UNCHANGED update PROVE UpdateOK'
  BY <1>0, <1>u DEF UpdateOK, update
<1>q. ASSUME WorldOK', FilesOK', StoreOK', UpdateOK' PROVE TypeOK'
  BY <1>q DEF TypeOK
<1>1. ASSUME NEW names \in Calls, NEW w \in BOOLEAN, Begin(names, w) PROVE TypeOK'
  <2>1. UpdateOK'
    BY <1>0, <1>1 DEF Begin, UpdateOK, PCs
  <2>2. QED
    BY <1>1, <1>w, <1>f, <1>s, <1>q, <2>1 DEF Begin
<1>2. CASE Plan
  <2>1. newer' \subseteq Images \cup {LlamaSwap}
    BY <1>2 DEF Plan
  <2>2. target' \in [Components -> Versions]
    BY <1>0, <1>2 DEF Plan, UpdateOK, WorldOK
  <2>3. UpdateOK'
    BY <1>0, <1>2, <2>1, <2>2 DEF Plan, UpdateOK, Goto, PCs
  <2>4. QED
    BY <1>2, <1>w, <1>f, <1>s, <1>q, <2>3 DEF Plan
<1>3. CASE ResolveHead(LlamaCpp, "llamacpp", "lcpp_build", "vllm")
  <2>1. UpdateOK'
    BY <1>0, <1>3 DEF ResolveHead, UpdateOK, WorldOK, Goto, Explicit, PCs
  <2>2. QED
    BY <1>3, <1>w, <1>f, <1>s, <1>q, <2>1 DEF ResolveHead
<1>31. CASE ResolveHead(Vllm, "vllm", "vllm_build", "decide")
  <2>1. UpdateOK'
    BY <1>0, <1>31 DEF ResolveHead, UpdateOK, WorldOK, Goto, Explicit, PCs
  <2>2. QED
    BY <1>31, <1>w, <1>f, <1>s, <1>q, <2>1 DEF ResolveHead
<1>4. ASSUME NEW c \in FromSource, NEW v \in Versions, Built(c, v) PROVE StoreOK'
  BY <1>0, <1>4 DEF Built, StoreOK
<1>5. CASE BuildLlamaCpp
  <2>1. StoreOK'
    <3>1. CASE Built(LlamaCpp, target[LlamaCpp])
      BY <1>0, <1>4, <3>1 DEF UpdateOK
    <3>2. QED
      BY <1>5, <1>s, <3>1 DEF BuildLlamaCpp
  <2>2. UpdateOK'
    BY <1>0, <1>5 DEF BuildLlamaCpp, UpdateOK, Goto, PCs
  <2>3. QED
    BY <1>5, <1>w, <1>f, <1>q, <2>1, <2>2 DEF BuildLlamaCpp
<1>6. CASE PinLlamaCpp
  <2>1. FilesOK'
    BY <1>0, <1>6 DEF PinLlamaCpp, FilesOK, UpdateOK
  <2>2. UpdateOK'
    BY <1>0, <1>6 DEF PinLlamaCpp, UpdateOK, Goto, PCs
  <2>3. QED
    BY <1>6, <1>w, <1>s, <1>q, <2>1, <2>2 DEF PinLlamaCpp
<1>7. CASE BuildVllm
  <2>1. StoreOK' /\ found' \in [ref : Versions \cup {NoRef}, dated : BOOLEAN]
    <3>1. CASE UNCHANGED <<found, store>>
      BY <1>0, <1>s, <3>1 DEF UpdateOK
    <3>2. ASSUME NEW v \in (IF wheels THEN 0..upstream[Vllm] ELSE {target[Vllm]}),
                 NEW a \in Artifacts, Built(Vllm, v),
                 found' = [ref |-> IF a.commit THEN v ELSE NoRef, dated |-> a.dated]
          PROVE  StoreOK' /\ found' \in [ref : Versions \cup {NoRef}, dated : BOOLEAN]
      <4>1. v \in Versions
        BY <1>0 DEF UpdateOK, WorldOK, Versions
      <4>2. a.dated \in BOOLEAN
        BY DEF ArtifactKinds
      <4>3. QED
        BY <1>4, <3>2, <4>1, <4>2
    <3>3. QED
      BY <1>7, <3>1, <3>2 DEF BuildVllm
  <2>2. UpdateOK'
    <3>1. tried' \subseteq FromSource \cap scope'
      BY <1>0, <1>7 DEF BuildVllm, UpdateOK, Goto
    <3>2. QED
      BY <1>0, <1>7, <2>1, <3>1 DEF BuildVllm, UpdateOK, Goto, PCs
  <2>3. QED
    BY <1>7, <1>w, <1>f, <1>q, <2>1, <2>2 DEF BuildVllm
<1>8. CASE WriteLocalRef
  <2>1. LandedRef \in Versions
    BY <1>0 DEF LandedRef, UpdateOK
  <2>2. FilesOK'
    BY <1>0, <1>8, <2>1 DEF WriteLocalRef, FilesOK
  <2>3. UpdateOK'
    BY <1>0, <1>8 DEF WriteLocalRef, UpdateOK, Goto, PCs
  <2>4. QED
    BY <1>8, <1>w, <1>s, <1>q, <2>2, <2>3 DEF WriteLocalRef
<1>9. CASE WriteDefaultRef
  <2>1. LandedRef \in Versions
    BY <1>0 DEF LandedRef, UpdateOK
  <2>2. FilesOK'
    BY <1>0, <1>9, <2>1 DEF WriteDefaultRef, FilesOK
  <2>3. UpdateOK'
    BY <1>0, <1>9 DEF WriteDefaultRef, UpdateOK, Goto, PCs
  <2>4. QED
    BY <1>9, <1>w, <1>s, <1>q, <2>2, <2>3 DEF WriteDefaultRef
<1>10. CASE WriteProvenance
  <2>1. FilesOK'
    BY <1>0, <1>10 DEF WriteProvenance, FilesOK, UpdateOK
  <2>2. UpdateOK'
    <3>1. CASE provenance.dated
      BY <1>0, <1>10, <3>1 DEF WriteProvenance, UpdateOK, Goto, PCs
    <3>2. CASE ~provenance.dated
      BY <1>0, <1>10, <3>2, TypeEnd DEF WriteProvenance, UpdateOK
    <3>3. QED
      BY <3>1, <3>2
  <2>3. QED
    BY <1>10, <1>w, <1>s, <1>q, <2>1, <2>2 DEF WriteProvenance
<1>11. CASE Decide
  <2>1. UpdateOK'
    <3>1. CASE newer = {} /\ tried = {}
      BY <1>0, <1>11, <3>1, TypeEnd DEF Decide, UpdateOK
    <3>2. CASE ~(newer = {} /\ tried = {})
      BY <1>0, <1>11, <3>2 DEF Decide, UpdateOK, Goto, PCs
    <3>3. QED
      BY <3>1, <3>2
  <2>2. QED
    BY <1>11, <1>w, <1>f, <1>s, <1>q, <2>1 DEF Decide
<1>12. CASE WriteCompose
  <2>1. FilesOK'
    BY <1>0, <1>12 DEF WriteCompose, FilesOK, UpdateOK
  <2>2. UpdateOK'
    BY <1>0, <1>12 DEF WriteCompose, UpdateOK, Goto, PCs
  <2>3. QED
    BY <1>12, <1>w, <1>s, <1>q, <2>1, <2>2 DEF WriteCompose
<1>13. CASE WriteDockerfile
  <2>1. FilesOK'
    BY <1>0, <1>13 DEF WriteDockerfile, FilesOK, UpdateOK
  <2>2. UpdateOK'
    BY <1>0, <1>13 DEF WriteDockerfile, UpdateOK, Goto, PCs
  <2>3. QED
    BY <1>13, <1>w, <1>s, <1>q, <2>1, <2>2 DEF WriteDockerfile
<1>14. CASE BuildLlamaSwap
  <2>1. StoreOK'
    BY <1>0, <1>14 DEF BuildLlamaSwap, StoreOK, FilesOK
  <2>2. UpdateOK'
    BY <1>0, <1>14 DEF BuildLlamaSwap, UpdateOK, Goto, PCs
  <2>3. QED
    BY <1>14, <1>w, <1>f, <1>q, <2>1, <2>2 DEF BuildLlamaSwap
<1>15. CASE PullImages
  <2>1. StoreOK'
    BY <1>0, <1>15 DEF PullImages, StoreOK, FilesOK
  <2>2. UpdateOK'
    BY <1>0, <1>15 DEF PullImages, UpdateOK, Goto, PCs
  <2>3. QED
    BY <1>15, <1>w, <1>f, <1>q, <2>1, <2>2 DEF PullImages
<1>16. CASE Report
  <2>1. UpdateOK'
    BY <1>0, <1>16, TypeEnd DEF Report, UpdateOK
  <2>2. WorldOK'
    BY <1>0, <1>16 DEF Report, WorldOK
  <2>3. QED
    BY <1>16, <1>f, <1>s, <1>q, <2>1, <2>2 DEF Report
<1>17. CASE Interrupted
  <2>1. UpdateOK'
    BY <1>0, <1>17, TypeEnd DEF Interrupted, UpdateOK
  <2>2. QED
    BY <1>17, <1>w, <1>f, <1>s, <1>q, <2>1 DEF Interrupted
<1>18. ASSUME NEW c \in Moving, Publish(c) PROVE TypeOK'
  <2>1. WorldOK'
    BY <1>0, <1>18 DEF Publish, WorldOK, Versions
  <2>2. QED
    BY <1>18, <1>f, <1>s, <1>u, <1>q, <2>1 DEF Publish
<1>19. CASE Withdraw
  <2>1. WorldOK'
    BY <1>0, <1>19 DEF Withdraw, WorldOK, Versions
  <2>2. QED
    BY <1>19, <1>f, <1>s, <1>u, <1>q, <2>1 DEF Withdraw
<1>20. CASE Build
  <2>1. StoreOK'
    BY <1>0, <1>20 DEF Build, StoreOK, FilesOK
  <2>2. QED
    BY <1>20, <1>w, <1>f, <1>u, <1>q, <2>1 DEF Build
<1>21. CASE Start
  <2>1. StoreOK'
    BY <1>0, <1>21 DEF Start, StoreOK, FilesOK
  <2>2. WorldOK'
    BY <1>0, <1>21 DEF Start, WorldOK, StoreOK, FilesOK, Services, FromSource, Tagged
  <2>3. QED
    BY <1>21, <1>f, <1>u, <1>q, <2>1, <2>2 DEF Start
<1>22. CASE Reload
  <2>1. WorldOK'
    BY <1>0, <1>22 DEF Reload, WorldOK
  <2>2. QED
    BY <1>22, <1>f, <1>s, <1>u, <1>q, <2>1 DEF Reload
<1>23. CASE Stop
  <2>1. WorldOK'
    BY <1>0, <1>23 DEF Stop, WorldOK
  <2>2. QED
    BY <1>23, <1>f, <1>s, <1>u, <1>q, <2>1 DEF Stop
<1>24. CASE UNCHANGED vars
  BY <1>24, <1>w, <1>f, <1>s, <1>u, <1>q DEF vars
<1>25. QED
  BY <1>1, <1>2, <1>3, <1>31, <1>5, <1>6, <1>7, <1>8, <1>9, <1>10, <1>11, <1>12,
     <1>13, <1>14, <1>15, <1>16, <1>17, <1>18, <1>19, <1>20, <1>21, <1>22, <1>23,
     <1>24 DEF Next, UpdateStep

(* Every variable of the model keeps its type.                             *)
THEOREM TypeCorrect == Spec => []TypeOK
BY TypeInit, TypeStep, PTL DEF Spec

-----------------------------------------------------------------------------
(***************************************************************************)
(* What is recorded was built.  Between a build and the writes that follow *)
(* it, the ref to be written is one that was built.                        *)
(***************************************************************************)
RefInv ==
    /\ RecordedRefsWereBuilt
    /\ pc = "lcpp_write" => target[LlamaCpp] \in built[LlamaCpp]
    /\ pc \in {"local", "default", "provenance"} =>
         /\ LandedRef \in built[Vllm]
         /\ found.ref \in built[Vllm]

LEMMA RefStep ==
    ASSUME \A a \in Artifacts : a.commit
    PROVE  TypeOK /\ RefInv /\ [Next]_vars => RefInv'
<1>. SUFFICES ASSUME TypeOK, RefInv, [Next]_vars PROVE RefInv'
  OBVIOUS
<1>. USE Distinct DEF RefInv, RecordedRefsWereBuilt
<1>0. FilesOK /\ StoreOK /\ UpdateOK
  BY DEF TypeOK
<1>e. ASSUME UNCHANGED <<files, built>>, pc' \notin {"lcpp_write", "local", "default", "provenance"}
      PROVE  RefInv'
  BY <1>e DEF files
<1>u. ASSUME UNCHANGED <<files, built, update>> PROVE RefInv'
  BY <1>u DEF files, update, LandedRef
<1>1. ASSUME NEW names \in Calls, NEW w \in BOOLEAN, Begin(names, w) PROVE RefInv'
  BY <1>1, <1>e DEF Begin, store
<1>2. CASE Plan
  BY <1>2, <1>e DEF Plan, Goto, store
<1>3. CASE ResolveHead(LlamaCpp, "llamacpp", "lcpp_build", "vllm")
  BY <1>3, <1>e DEF ResolveHead, Goto, store
<1>4. CASE ResolveHead(Vllm, "vllm", "vllm_build", "decide")
  BY <1>4, <1>e DEF ResolveHead, Goto, store
<1>5. CASE BuildLlamaCpp
  <2>1. CASE Built(LlamaCpp, target[LlamaCpp])
    <3>1. built' = [built EXCEPT ![LlamaCpp] = @ \cup {target[LlamaCpp]}]
      BY <2>1 DEF Built
    <3>2. built'[LlamaCpp] = built[LlamaCpp] \cup {target[LlamaCpp]}
          /\ built'[Vllm] = built[Vllm]
      BY <1>0, <3>1 DEF StoreOK
    <3>3. QED
      BY <1>5, <3>2 DEF BuildLlamaCpp, Goto, files
  <2>2. CASE UNCHANGED store /\ pc' = "vllm"
    BY <1>5, <1>e, <2>2 DEF BuildLlamaCpp, store
  <2>3. QED
    BY <1>5, <2>1, <2>2 DEF BuildLlamaCpp, Goto
<1>6. CASE PinLlamaCpp
  BY <1>0, <1>6 DEF PinLlamaCpp, FilesOK, Goto, store
<1>7. CASE BuildVllm
  <2>1. ASSUME NEW v \in (IF wheels THEN 0..upstream[Vllm] ELSE {target[Vllm]}),
               NEW a \in Artifacts, Built(Vllm, v),
               found' = [ref |-> IF a.commit THEN v ELSE NoRef, dated |-> a.dated]
        PROVE  RefInv'
    <3>1. found'.ref = v
      BY <2>1
    <3>2. built' = [built EXCEPT ![Vllm] = @ \cup {v}]
      BY <2>1 DEF Built
    <3>3. built'[Vllm] = built[Vllm] \cup {v} /\ built'[LlamaCpp] = built[LlamaCpp]
      BY <1>0, <3>2 DEF StoreOK
    <3>4. UNCHANGED <<wheels, target, files>> /\ pc' # "lcpp_write"
      BY <1>7 DEF BuildVllm, Goto
    <3>5. LandedRef' = v
      <4>1. wheels => v # NoRef
        BY <1>0 DEF UpdateOK, TypeOK, WorldOK, Versions, NoRef
      <4>2. ~wheels => v = target[Vllm]
        OBVIOUS
      <4>3. QED
        BY <1>0, <3>1, <3>4, <4>1, <4>2 DEF LandedRef, UpdateOK
    <3>6. QED
      BY <3>1, <3>3, <3>4, <3>5 DEF files
  <2>2. CASE UNCHANGED store /\ pc' = "decide"
    BY <1>7, <1>e, <2>2 DEF BuildVllm, store
  <2>3. QED
    BY <1>7, <2>1, <2>2 DEF BuildVllm, Goto
<1>8. CASE WriteLocalRef
  <2>1. LandedRef' = LandedRef
    BY <1>8 DEF WriteLocalRef, LandedRef, Goto
  <2>2. QED
    BY <1>0, <1>8, <2>1 DEF WriteLocalRef, FilesOK, Goto, store
<1>9. CASE WriteDefaultRef
  <2>1. LandedRef' = LandedRef
    BY <1>9 DEF WriteDefaultRef, LandedRef, Goto
  <2>2. QED
    BY <1>0, <1>9, <2>1 DEF WriteDefaultRef, FilesOK, Goto, store
<1>10. CASE WriteProvenance
  BY <1>0, <1>10 DEF WriteProvenance, FilesOK, Goto, End, store
<1>11. CASE Decide
  BY <1>11, <1>e DEF Decide, Goto, End, store
<1>12. CASE WriteCompose
  BY <1>0, <1>12 DEF WriteCompose, FilesOK, Goto, store
<1>13. CASE WriteDockerfile
  BY <1>0, <1>13 DEF WriteDockerfile, FilesOK, Goto, store
<1>14. CASE BuildLlamaSwap
  BY <1>14, <1>e DEF BuildLlamaSwap, Goto
<1>15. CASE PullImages
  BY <1>15, <1>e DEF PullImages, Goto
<1>16. CASE Report
  BY <1>16, <1>e DEF Report, End, store
<1>17. CASE Interrupted
  BY <1>17, <1>e DEF Interrupted, End, store
<1>18. ASSUME NEW c \in Moving, Publish(c) PROVE RefInv'
  BY <1>18, <1>u DEF Publish, store
<1>19. CASE Withdraw \/ Build \/ Start \/ Reload \/ Stop
  BY <1>19, <1>u DEF Withdraw, Build, Start, Reload, Stop, store
<1>20. CASE UNCHANGED vars
  BY <1>20, <1>u DEF vars, store
<1>21. QED
  BY <1>1, <1>2, <1>3, <1>4, <1>5, <1>6, <1>7, <1>8, <1>9, <1>10, <1>11, <1>12,
     <1>13, <1>14, <1>15, <1>16, <1>17, <1>18, <1>19, <1>20 DEF Next, UpdateStep

(* Provided a finished build says which commit it built, every recorded    *)
(* ref was built here.                                                     *)
THEOREM RefsWereBuilt ==
    ASSUME \A a \in Artifacts : a.commit
    PROVE  Spec => []RecordedRefsWereBuilt
<1>1. Init => RefInv
  BY Distinct DEF Init, RefInv, RecordedRefsWereBuilt
<1>2. TypeOK /\ RefInv /\ [Next]_vars => RefInv'
  BY RefStep
<1>3. RefInv => RecordedRefsWereBuilt
  BY DEF RefInv
<1>4. QED
  BY <1>1, <1>2, <1>3, TypeCorrect, PTL DEF Spec

-----------------------------------------------------------------------------
(***************************************************************************)
(* llama-swap never goes back: the release that was found newer stays      *)
(* newer than the pin until it is written, whatever upstream does.         *)
(***************************************************************************)
TargetIsNewer ==
    /\ pc = "dockerfile" => LlamaSwap \in newer
    /\ LlamaSwap \in newer /\ pc \notin {"build", "pull", "report"} =>
         target[LlamaSwap] >= pin[LlamaSwap]

LEMMA TargetStep == TypeOK /\ TargetIsNewer /\ [Next]_vars => TargetIsNewer'
<1>. SUFFICES ASSUME TypeOK, TargetIsNewer, [Next]_vars PROVE TargetIsNewer'
  OBVIOUS
<1>. USE Distinct DEF TargetIsNewer
<1>0. FilesOK /\ UpdateOK
  BY DEF TypeOK
<1>e. ASSUME newer' = {}, pc' = "idle" PROVE TargetIsNewer'
  BY <1>e
<1>k. ASSUME UNCHANGED newer, pc \notin {"build", "pull", "report"},
             pc' # "dockerfile", target'[LlamaSwap] = target[LlamaSwap], pin'[LlamaSwap] = pin[LlamaSwap]
      PROVE  TargetIsNewer'
  BY <1>k
<1>1. ASSUME NEW names \in Calls, NEW w \in BOOLEAN, Begin(names, w) PROVE TargetIsNewer'
  BY <1>1, <1>k DEF Begin, files, Goto
<1>2. CASE Plan
  <2>1. ASSUME LlamaSwap \in newer'
        PROVE  target'[LlamaSwap] = upstream[LlamaSwap] /\ upstream[LlamaSwap] > pin[LlamaSwap]
    BY <1>2, <2>1 DEF Plan, Newer
  <2>2. upstream[LlamaSwap] \in Int /\ pin[LlamaSwap] \in Int /\ pin' = pin
    BY <1>0, <1>2 DEF FilesOK, TypeOK, WorldOK, Versions, Plan, files
  <2>3. QED
    BY <1>2, <2>1, <2>2 DEF Plan, Goto
<1>3. CASE ResolveHead(LlamaCpp, "llamacpp", "lcpp_build", "vllm")
  BY <1>0, <1>3, <1>k DEF ResolveHead, UpdateOK, files, Goto
<1>4. CASE ResolveHead(Vllm, "vllm", "vllm_build", "decide")
  BY <1>0, <1>4, <1>k DEF ResolveHead, UpdateOK, files, Goto
<1>5. CASE BuildLlamaCpp \/ BuildVllm
  BY <1>5, <1>k DEF BuildLlamaCpp, BuildVllm, files, Goto
<1>6. CASE PinLlamaCpp
  BY <1>0, <1>6, <1>k DEF PinLlamaCpp, FilesOK, Goto
<1>7. CASE WriteLocalRef
  BY <1>0, <1>7, <1>k DEF WriteLocalRef, FilesOK, Goto
<1>8. CASE WriteDefaultRef
  BY <1>8, <1>k DEF WriteDefaultRef, Goto
<1>9. CASE WriteProvenance
  BY <1>9, <1>e, <1>k DEF WriteProvenance, End, Goto
<1>10. CASE Decide
  BY <1>10, <1>e, <1>k DEF Decide, End, files, Goto
<1>11. CASE WriteCompose
  BY <1>0, <1>11, <1>k DEF WriteCompose, Goto
<1>12. CASE WriteDockerfile \/ BuildLlamaSwap \/ PullImages
  BY <1>12 DEF WriteDockerfile, BuildLlamaSwap, PullImages, Goto
<1>13. CASE Report \/ Interrupted
  BY <1>13, <1>e DEF Report, Interrupted, End
<1>14. ASSUME UNCHANGED <<files, update>> PROVE TargetIsNewer'
  BY <1>14 DEF files, update
<1>15. ASSUME NEW c \in Moving, Publish(c) PROVE TargetIsNewer'
  BY <1>14, <1>15 DEF Publish
<1>16. CASE Withdraw \/ Build \/ Start \/ Reload \/ Stop
  BY <1>14, <1>16 DEF Withdraw, Build, Start, Reload, Stop
<1>17. CASE UNCHANGED vars
  BY <1>14, <1>17 DEF vars
<1>18. QED
  BY <1>1, <1>2, <1>3, <1>4, <1>5, <1>6, <1>7, <1>8, <1>9, <1>10, <1>11, <1>12,
     <1>13, <1>15, <1>16, <1>17 DEF Next, UpdateStep

LEMMA NoStepBack ==
    TypeOK /\ TargetIsNewer /\ [Next]_vars => pin'[LlamaSwap] >= pin[LlamaSwap]
<1>. SUFFICES ASSUME TypeOK, TargetIsNewer, [Next]_vars
              PROVE  pin'[LlamaSwap] >= pin[LlamaSwap]
  OBVIOUS
<1>. USE Distinct
<1>0. pin \in [Components -> Versions] /\ pin[LlamaSwap] \in Int
  BY DEF TypeOK, FilesOK, Versions
<1>1. CASE WriteDockerfile
  BY <1>0, <1>1 DEF WriteDockerfile, TargetIsNewer
<1>2. ASSUME pin'[LlamaSwap] = pin[LlamaSwap] PROVE pin'[LlamaSwap] >= pin[LlamaSwap]
  BY <1>0, <1>2
<1>3. CASE UNCHANGED files
  BY <1>2, <1>3 DEF files
<1>4. CASE PinLlamaCpp \/ WriteLocalRef \/ WriteCompose
  BY <1>0, <1>2, <1>4 DEF PinLlamaCpp, WriteLocalRef, WriteCompose
<1>5. CASE UNCHANGED pin
  BY <1>2, <1>5
<1>6. QED
  BY <1>1, <1>3, <1>4, <1>5 DEF Next, UpdateStep, Begin, Plan, ResolveHead,
     BuildLlamaCpp, BuildVllm, WriteDefaultRef, WriteProvenance, Decide,
     BuildLlamaSwap, PullImages, Report, Interrupted, Publish, Withdraw, Build,
     Start, Reload, Stop, vars

(* llama-swap's pin never goes back, whatever upstream takes back.         *)
THEOREM NeverDowngraded == Spec => LlamaSwapNeverDowngraded
<1>1. Init => TargetIsNewer
  BY DEF Init, TargetIsNewer
<1>2. TypeOK /\ TargetIsNewer /\ [Next]_vars => TargetIsNewer'
  BY TargetStep
<1>3. TypeOK /\ TargetIsNewer /\ [Next]_vars => [pin'[LlamaSwap] >= pin[LlamaSwap]]_vars
  BY NoStepBack
<1>4. QED
  BY <1>1, <1>2, <1>3, TypeCorrect, PTL DEF Spec, LlamaSwapNeverDowngraded

-----------------------------------------------------------------------------
(***************************************************************************)
(* `docker compose up -d` makes a successful update live.  The tags of the *)
(* two built services follow their pins from the build on, unless it       *)
(* failed; nothing moves a pin while advice stands.                        *)
(***************************************************************************)
PastLlamaCpp == {"vllm", "vllm_build", "local", "default", "provenance", "decide",
                 "compose", "dockerfile", "build", "pull", "report"}

TagsFollow ==
    /\ pc = "lcpp_write" => image[LlamaCpp] = target[LlamaCpp]
    /\ pc \in PastLlamaCpp /\ LlamaCpp \in tried /\ ~failed =>
         image[LlamaCpp] = pin[LlamaCpp]
    /\ pc \in {"pull", "report"} /\ LlamaSwap \in newer /\ ~failed =>
         image[LlamaSwap] = pin[LlamaSwap]

AdviceHolds ==
    /\ pc # "idle" => advised = {}
    /\ \A c \in advised \cap {LlamaSwap, LlamaCpp} : image[c] = pin[c]
    /\ UpGoesLive

LEMMA TagsStep == TypeOK /\ TagsFollow /\ [Next]_vars => TagsFollow'
<1>. SUFFICES ASSUME TypeOK, TagsFollow, [Next]_vars PROVE TagsFollow'
  OBVIOUS
<1>. USE Distinct DEF TagsFollow, PastLlamaCpp
<1>0. FilesOK /\ StoreOK /\ UpdateOK
  BY DEF TypeOK
<1>k. ASSUME pc \in PastLlamaCpp, pc' \in PastLlamaCpp, pc' \notin {"pull", "report"},
             tried' \cap {LlamaCpp} = tried \cap {LlamaCpp}, failed => failed',
             image'[LlamaCpp] = image[LlamaCpp], pin'[LlamaCpp] = pin[LlamaCpp]
      PROVE  TagsFollow'
  BY <1>k
<1>u. ASSUME UNCHANGED <<files, store, update>> PROVE TagsFollow'
  BY <1>u DEF files, store, update
<1>1. ASSUME NEW names \in Calls, NEW w \in BOOLEAN, Begin(names, w) PROVE TagsFollow'
  BY <1>1 DEF Begin
<1>2. CASE Plan
  BY <1>2 DEF Plan, Goto
<1>3. CASE ResolveHead(LlamaCpp, "llamacpp", "lcpp_build", "vllm")
  BY <1>0, <1>3 DEF ResolveHead, Goto, UpdateOK
<1>4. CASE ResolveHead(Vllm, "vllm", "vllm_build", "decide")
  BY <1>4, <1>k DEF ResolveHead, Goto, files, store
<1>5. CASE BuildLlamaCpp
  BY <1>0, <1>5 DEF BuildLlamaCpp, Built, Goto, StoreOK
<1>6. CASE PinLlamaCpp
  BY <1>0, <1>6 DEF PinLlamaCpp, Goto, FilesOK, store
<1>7. CASE BuildVllm
  <2>1. image'[LlamaCpp] = image[LlamaCpp]
    BY <1>0, <1>7 DEF BuildVllm, Built, StoreOK, store
  <2>2. QED
    BY <1>7, <1>k, <2>1 DEF BuildVllm, Goto, files
<1>8. CASE WriteLocalRef
  BY <1>0, <1>8, <1>k DEF WriteLocalRef, Goto, FilesOK, store
<1>9. CASE WriteDefaultRef
  BY <1>9, <1>k DEF WriteDefaultRef, Goto, store
<1>10. CASE WriteProvenance
  BY <1>10, <1>k DEF WriteProvenance, Goto, End, store
<1>11. CASE Decide
  BY <1>11, <1>k DEF Decide, Goto, End, files, store
<1>12. CASE WriteCompose
  <2>1. pin'[LlamaCpp] = pin[LlamaCpp]
    BY <1>0, <1>12 DEF WriteCompose
  <2>2. pc' \in {"pull", "report"} => LlamaSwap \notin newer'
    BY <1>12 DEF WriteCompose, Goto
  <2>3. QED
    BY <1>12, <2>1, <2>2 DEF WriteCompose, Goto, store
<1>13. CASE WriteDockerfile
  BY <1>0, <1>13, <1>k DEF WriteDockerfile, Goto, FilesOK, store
<1>14. CASE BuildLlamaSwap
  BY <1>0, <1>14 DEF BuildLlamaSwap, Goto, StoreOK, files
<1>15. CASE PullImages
  BY <1>15 DEF PullImages, Goto, files
<1>16. CASE Report \/ Interrupted
  BY <1>16 DEF Report, Interrupted, End
<1>17. ASSUME NEW c \in Moving, Publish(c) PROVE TagsFollow'
  BY <1>17, <1>u DEF Publish
<1>18. CASE Build
  BY <1>18 DEF Build, update
<1>19. CASE Start
  BY <1>19 DEF Start, files, update
<1>20. CASE Withdraw \/ Reload \/ Stop
  BY <1>20, <1>u DEF Withdraw, Reload, Stop
<1>21. CASE UNCHANGED vars
  BY <1>21, <1>u DEF vars
<1>22. QED
  BY <1>1, <1>2, <1>3, <1>4, <1>5, <1>6, <1>7, <1>8, <1>9, <1>10, <1>11, <1>12,
     <1>13, <1>14, <1>15, <1>16, <1>17, <1>18, <1>19, <1>20, <1>21
     DEF Next, UpdateStep

LEMMA AdviceStep ==
    TypeOK /\ TagsFollow /\ AdviceHolds /\ [Next]_vars => AdviceHolds'
<1>. SUFFICES ASSUME TypeOK, TagsFollow, AdviceHolds, [Next]_vars PROVE AdviceHolds'
  OBVIOUS
<1>. USE Distinct DEF AdviceHolds, UpGoesLive
<1>0. FilesOK /\ StoreOK /\ UpdateOK
  BY DEF TypeOK
<1>e. ASSUME advised' = {} PROVE AdviceHolds'
  BY <1>e
<1>b. ASSUME pc # "idle", UNCHANGED advised PROVE AdviceHolds'
  BY <1>b
<1>1. ASSUME NEW names \in Calls, NEW w \in BOOLEAN, Begin(names, w) PROVE AdviceHolds'
  BY <1>1, <1>e DEF Begin
<1>2. CASE UpdateStep /\ ~Report
  BY <1>2, <1>b DEF UpdateStep, Plan, ResolveHead, BuildLlamaCpp, PinLlamaCpp,
     BuildVllm, WriteLocalRef, WriteDefaultRef, WriteProvenance, Decide,
     WriteCompose, WriteDockerfile, BuildLlamaSwap, PullImages, Interrupted, Goto
<1>3. CASE Report
  <2>1. pc' = "idle" /\ followed' = "none" /\ UNCHANGED <<pin, image>>
    BY <1>3 DEF Report, End, files, store
  <2>2. CASE failed
    BY <1>3, <1>e, <2>2 DEF Report
  <2>3. CASE ~failed
    <3>1. advised' = newer \cup tried
      BY <1>3, <2>3 DEF Report
    <3>2. LlamaSwap \in advised' => image[LlamaSwap] = pin[LlamaSwap]
      BY <1>0, <1>3, <2>3, <3>1 DEF Report, TagsFollow, UpdateOK
    <3>3. LlamaCpp \in advised' => image[LlamaCpp] = pin[LlamaCpp]
      BY <1>0, <1>3, <2>3, <3>1 DEF Report, TagsFollow, PastLlamaCpp, UpdateOK
    <3>4. QED
      BY <2>1, <3>2, <3>3
  <2>4. QED
    BY <2>2, <2>3
<1>4. ASSUME UNCHANGED <<advised, pc, pin, image, followed, running>> PROVE AdviceHolds'
  BY <1>4
<1>5. ASSUME NEW c \in Moving, Publish(c) PROVE AdviceHolds'
  BY <1>4, <1>5 DEF Publish, files, store, update
<1>6. CASE Withdraw
  BY <1>4, <1>6 DEF Withdraw, files, store, update
<1>7. CASE Build
  <2>1. \A c \in {LlamaSwap, LlamaCpp} : image[c] = pin[c] => image'[c] = pin[c]
    BY <1>0, <1>7 DEF Build
  <2>2. UNCHANGED <<advised, pc, pin, followed, running>>
    BY <1>7 DEF Build, files, world, update
  <2>3. QED
    BY <2>1, <2>2
<1>8. CASE Start
  <2>1. UNCHANGED <<advised, pc, pin, image>>
    BY <1>8 DEF Start, files, update
  <2>2. \A c \in advised \cap Services : running'[c] = pin[c]
    BY <1>8 DEF Start, Services
  <2>3. QED
    BY <2>1, <2>2
<1>9. CASE Reload \/ Stop
  BY <1>9 DEF Reload, Stop, files, store, update
<1>10. CASE UNCHANGED vars
  BY <1>4, <1>10 DEF vars, files, store, update, world
<1>11. QED
  BY <1>1, <1>2, <1>3, <1>5, <1>6, <1>7, <1>8, <1>9, <1>10 DEF Next

(* After an update that reported success, `up -d` runs what is pinned.     *)
THEOREM UpMakesLive == Spec => []UpGoesLive
<1>1. Init => TagsFollow /\ AdviceHolds
  BY DEF Init, TagsFollow, AdviceHolds, UpGoesLive, PastLlamaCpp
<1>2. TypeOK /\ TagsFollow /\ [Next]_vars => TagsFollow'
  BY TagsStep
<1>3. TypeOK /\ TagsFollow /\ AdviceHolds /\ [Next]_vars => AdviceHolds'
  BY AdviceStep
<1>4. AdviceHolds => UpGoesLive
  BY DEF AdviceHolds
<1>5. QED
  BY <1>1, <1>2, <1>3, <1>4, TypeCorrect, PTL DEF Spec

-----------------------------------------------------------------------------
(***************************************************************************)
(* The three records of vLLM's ref agree after a success: the ref that is  *)
(* written to one place after the other stays the same, and an update that *)
(* stops in between does not report success.                               *)
(***************************************************************************)
BeforeVllm == {"plan", "llamacpp", "lcpp_build", "lcpp_write", "vllm", "vllm_build"}
AfterVllm  == {"decide", "compose", "dockerfile", "build", "pull", "report"}
Writing    == {"local", "default", "provenance"}

RecordsAgree == pin[Vllm] = defaultRef /\ defaultRef = provenance.ref

AgreeInv ==
    /\ pc # "idle" => outcome = "none"
    /\ pc \in BeforeVllm => Vllm \notin tried
    /\ pc \in Writing => found.ref = LandedRef
    /\ pc \in {"default", "provenance"} => pin[Vllm] = LandedRef
    /\ pc = "provenance" => defaultRef = LandedRef
    /\ pc \in AfterVllm /\ Vllm \in tried /\ ~failed => RecordsAgree
    /\ SuccessRecordsAgree

LEMMA AgreeStep ==
    ASSUME \A a \in Artifacts : a.commit
    PROVE  TypeOK /\ AgreeInv /\ [Next]_vars => AgreeInv'
<1>. SUFFICES ASSUME TypeOK, AgreeInv, [Next]_vars PROVE AgreeInv'
  OBVIOUS
<1>. USE Distinct DEF AgreeInv, BeforeVllm, AfterVllm, Writing, RecordsAgree, SuccessRecordsAgree
<1>0. FilesOK /\ UpdateOK
  BY DEF TypeOK
<1>e. ASSUME pc' = "idle", outcome' # "ok" PROVE AgreeInv'
  BY <1>e
<1>b. ASSUME outcome' = "none", pc' \in BeforeVllm, Vllm \notin tried' PROVE AgreeInv'
  BY <1>b
<1>a. ASSUME UNCHANGED <<tried, outcome, defaultRef, provenance>>, pin'[Vllm] = pin[Vllm],
             failed => failed', pc \in AfterVllm, pc' \in AfterVllm
      PROVE  AgreeInv'
  BY <1>a
<1>u. ASSUME UNCHANGED <<files, update>> PROVE AgreeInv'
  BY <1>u DEF files, update, LandedRef
<1>1. ASSUME NEW names \in Calls, NEW w \in BOOLEAN, Begin(names, w) PROVE AgreeInv'
  BY <1>0, <1>1, <1>b DEF Begin, UpdateOK
<1>2. CASE Plan
  BY <1>2, <1>b DEF Plan, Goto
<1>3. CASE ResolveHead(LlamaCpp, "llamacpp", "lcpp_build", "vllm")
  BY <1>3, <1>b DEF ResolveHead, Goto
<1>4. CASE ResolveHead(Vllm, "vllm", "vllm_build", "decide")
  BY <1>4, <1>b DEF ResolveHead, Goto
<1>5. CASE BuildLlamaCpp
  BY <1>5, <1>b DEF BuildLlamaCpp, Goto
<1>6. CASE PinLlamaCpp
  BY <1>6, <1>b DEF PinLlamaCpp, Goto
<1>7. CASE BuildVllm
  <2>1. ASSUME NEW v \in (IF wheels THEN 0..upstream[Vllm] ELSE {target[Vllm]}),
               NEW a \in Artifacts,
               found' = [ref |-> IF a.commit THEN v ELSE NoRef, dated |-> a.dated],
               pc' = "local"
        PROVE  AgreeInv'
    <3>1. found'.ref = v
      BY <2>1
    <3>2. UNCHANGED <<wheels, target, outcome>> /\ outcome = "none"
      BY <1>7 DEF BuildVllm, Goto
    <3>3. LandedRef' = v
      <4>1. wheels => v # NoRef
        BY DEF TypeOK, WorldOK, Versions, NoRef
      <4>2. ~wheels => v = target[Vllm]
        OBVIOUS
      <4>3. QED
        BY <1>0, <3>1, <3>2, <4>1, <4>2 DEF LandedRef, UpdateOK
    <3>4. QED
      BY <2>1, <3>1, <3>2, <3>3
  <2>2. CASE failed' = TRUE /\ pc' = "decide"
    BY <1>7, <2>2 DEF BuildVllm, Goto
  <2>3. QED
    BY <1>7, <2>1, <2>2 DEF BuildVllm, Goto
<1>8. CASE WriteLocalRef
  <2>1. LandedRef' = LandedRef
    BY <1>8 DEF WriteLocalRef, LandedRef, Goto
  <2>2. QED
    BY <1>0, <1>8, <2>1 DEF WriteLocalRef, FilesOK, Goto
<1>9. CASE WriteDefaultRef
  <2>1. LandedRef' = LandedRef
    BY <1>9 DEF WriteDefaultRef, LandedRef, Goto
  <2>2. QED
    BY <1>0, <1>9, <2>1 DEF WriteDefaultRef, FilesOK, Goto
<1>10. CASE WriteProvenance
  <2>1. CASE provenance.dated
    <3>1. /\ provenance' = found /\ pc' = "decide"
          /\ UNCHANGED <<pin, defaultRef, outcome>>
      BY <1>10, <2>1 DEF WriteProvenance, Goto
    <3>2. /\ found.ref = LandedRef /\ pin[Vllm] = LandedRef /\ defaultRef = LandedRef
          /\ outcome = "none"
      BY <1>10 DEF WriteProvenance
    <3>3. QED
      BY <3>1, <3>2
  <2>2. CASE ~provenance.dated
    BY <1>10, <1>e, <2>2 DEF WriteProvenance, End
  <2>3. QED
    BY <2>1, <2>2
<1>11. CASE Decide
  BY <1>11, <1>a, <1>e DEF Decide, Goto, End, files
<1>12. CASE WriteCompose
  BY <1>0, <1>12, <1>a DEF WriteCompose, FilesOK, Goto
<1>13. CASE WriteDockerfile
  BY <1>0, <1>13, <1>a DEF WriteDockerfile, FilesOK, Goto
<1>14. CASE BuildLlamaSwap \/ PullImages
  BY <1>14, <1>a DEF BuildLlamaSwap, PullImages, Goto, files
<1>15. CASE Report
  <2>1. Vllm \in advised' => Vllm \in tried /\ ~failed
    BY <1>0, <1>15 DEF Report, UpdateOK
  <2>2. pc' = "idle" /\ UNCHANGED files
    BY <1>15 DEF Report, End
  <2>3. Vllm \in advised' => RecordsAgree
    BY <1>15, <2>1 DEF Report
  <2>4. QED
    BY <2>2, <2>3 DEF files
<1>16. CASE Interrupted
  BY <1>16, <1>e DEF Interrupted, End
<1>17. ASSUME NEW c \in Moving, Publish(c) PROVE AgreeInv'
  BY <1>17, <1>u DEF Publish
<1>18. CASE Withdraw \/ Build \/ Start \/ Reload \/ Stop
  BY <1>18, <1>u DEF Withdraw, Build, Start, Reload, Stop
<1>19. CASE UNCHANGED vars
  BY <1>19, <1>u DEF vars
<1>20. QED
  BY <1>1, <1>2, <1>3, <1>4, <1>5, <1>6, <1>7, <1>8, <1>9, <1>10, <1>11, <1>12,
     <1>13, <1>14, <1>15, <1>16, <1>17, <1>18, <1>19 DEF Next, UpdateStep

(* Provided a finished build says which commit it built, an update that    *)
(* succeeds in rebuilding vllm-node leaves one ref in all three places,    *)
(* whatever was half written before.                                       *)
THEOREM RecordsAgreeAfterSuccess ==
    ASSUME \A a \in Artifacts : a.commit
    PROVE  Spec => []SuccessRecordsAgree
<1>1. Init => AgreeInv
  BY DEF Init, AgreeInv, BeforeVllm, AfterVllm, Writing, SuccessRecordsAgree
<1>2. TypeOK /\ AgreeInv /\ [Next]_vars => AgreeInv'
  BY AgreeStep
<1>3. AgreeInv => SuccessRecordsAgree
  BY DEF AgreeInv
<1>4. QED
  BY <1>1, <1>2, <1>3, TypeCorrect, PTL DEF Spec
=============================================================================
