-------------------------- MODULE ModelFilesProofs --------------------------
(***************************************************************************)
(* What a finished download and a finished sync leave on the two nodes,    *)
(* for any models, shards and revisions.                                   *)
(***************************************************************************)
EXTENDS ModelFiles, TLAPS

\* the worker has what the head has of m
Copied(m) == \A f \in Has(head[m]) : worker[m][f] = head[m][f]

(* What a sync has done so far for a target whose side of the head has not *)
(* changed since it began.                                                 *)
SyncInv ==
    /\ spc \in {"image", "stream"} => squeue = targets
    /\ spc = "models" =>
         \A m \in steady :
            /\ headImage = workerImage
            /\ m \notin squeue /\ m # sitem => Copied(m)
            /\ m = sitem => \A f \in Has(head[m]) \ list : worker[m][f] = head[m][f]
    /\ \A m \in synced : SameImage /\ Copied(m)

(* What a download has done so far.  A two-node model's directory that is  *)
(* neither being fetched nor known to be half full is complete; and if     *)
(* nothing failed, so is what the download has dealt with.                 *)
DownloadInv ==
    /\ vouched # {} => asked = {}
    /\ VouchedIsComplete
    /\ item \notin queue
    /\ \A m \in (Tp \cap headDir) \ broken : m # item => Complete(m)
    /\ item # Nobody =>
         IF item \in Tp THEN \A f \in FilesOf(item, rev) \ need : head[item][f] = rev
                       ELSE Shards \ need \subseteq Has(head[item])
    /\ ~dfailed =>
         \A m \in asked \ queue : m # item => Complete(m) \/ m \in Tp \cap broken

-----------------------------------------------------------------------------

(* The initial state has the type. *)
LEMMA InitType == Init => TypeOK
<1> SUFFICES ASSUME Init PROVE TypeOK
  OBVIOUS
<1>1. Empty \in [Files -> Revs \cup {Absent}] /\ Has(Empty) = {}
  BY DEF Empty, Has
<1>2. 0 \in Revs
  BY FilesAssumption DEF Revs
<1>3. head \in [Models -> [Files -> Revs \cup {Absent}]]
  BY <1>1 DEF Init
<1>4. worker \in [Tp -> [Files -> Revs \cup {Absent}]]
  BY <1>1 DEF Init
<1>5. \A m \in Models \ headDir : Has(head[m]) = {}
  BY <1>1 DEF Init
<1>6. upstream \in [Models -> Revs]
  BY <1>2 DEF Init
<1> QED
  BY <1>2, <1>3, <1>4, <1>5, <1>6 DEF Init, TypeOK, Files

(* Every step keeps the type. *)
LEMMA NextType == TypeOK /\ [Next]_vars => TypeOK'
<1> SUFFICES ASSUME TypeOK, [Next]_vars PROVE TypeOK'
  OBVIOUS
<1> USE FilesAssumption
<1> USE DEF TypeOK, nodes, download, sync, history, Changed, SnapshotEnd, DownloadOver,
            SyncOver, Absent, Has, Empty
<1>0. 0 \in Revs
  BY DEF Revs
<1>1. ASSUME NEW ms \in SUBSET Models, DownloadBegin(ms) PROVE TypeOK'
  BY <1>1 DEF DownloadBegin
<1>2. ASSUME NEW m \in queue, Skip(m) PROVE TypeOK'
  BY <1>2 DEF Skip
<1>3. ASSUME NEW m \in queue, StartSnapshot(m) PROVE TypeOK'
  BY <1>3 DEF StartSnapshot, FilesOf, Files, Models
<1>4. CASE FetchFile
  <2>1. PICK f \in need : head' = [head EXCEPT ![item][f] = rev] /\ need' = need \ {f}
    BY <1>4 DEF FetchFile
  <2>2. item \in Models /\ f \in Files
    BY <2>1, FilesAssumption
  <2>3. head' \in [Models -> [Files -> Revs \cup {Absent}]]
    BY <2>1, <2>2
  <2>4. \A m \in Models \ headDir' : Has(head'[m]) = {}
    BY <1>4, <2>1, <2>2 DEF FetchFile
  <2> QED
    BY <1>4, <2>1, <2>2, <2>3, <2>4 DEF FetchFile
<1>5. CASE SnapshotDone
  BY <1>0, <1>5 DEF SnapshotDone
<1>6. CASE SnapshotFails
  <2>1. headDir \subseteq headDir' /\ headDir' \subseteq Models
    BY <1>6, FilesAssumption DEF SnapshotFails, BreaksOff
  <2>2. \A m \in Models \ headDir' : Has(head'[m]) = {}
    BY <1>6, <2>1 DEF SnapshotFails
  <2> QED
    BY <1>0, <1>6, <2>1, <2>2 DEF SnapshotFails, BreaksOff
<1>7. CASE DownloadEnd
  BY <1>0, <1>7 DEF DownloadEnd
<1>8. CASE DownloadKilled
  <2>1. headDir \subseteq headDir' /\ headDir' \subseteq Models
    BY <1>8, FilesAssumption DEF DownloadKilled, BreaksOff
  <2>2. \A m \in Models \ headDir' : Has(head'[m]) = {}
    BY <1>8, <2>1 DEF DownloadKilled
  <2> QED
    BY <1>0, <1>8, <2>1, <2>2 DEF DownloadKilled, BreaksOff
<1>9. ASSUME NEW ms \in SUBSET Tp, SyncBegin(ms) PROVE TypeOK'
  BY <1>9 DEF SyncBegin
<1>10. CASE CompareImage
  BY <1>10 DEF CompareImage
<1>11. CASE StreamImage
  BY <1>11 DEF StreamImage
<1>12. ASSUME NEW m \in squeue, StartRsync(m) PROVE TypeOK'
  BY <1>12 DEF StartRsync
<1>13. CASE RsyncFile
  <2>1. PICK f \in list : /\ head[sitem][f] # Absent
                          /\ worker' = [worker EXCEPT ![sitem][f] = head[sitem][f]]
                          /\ list' = list \ {f}
    BY <1>13 DEF RsyncFile
  <2>2. sitem \in Tp /\ f \in Files /\ head[sitem][f] \in Revs \cup {Absent}
    BY <2>1, FilesAssumption DEF Models
  <2>3. worker' \in [Tp -> [Files -> Revs \cup {Absent}]]
    BY <2>1, <2>2
  <2> QED
    BY <1>13, <2>1, <2>2, <2>3 DEF RsyncFile
<1>14. CASE RsyncDone
  BY <1>14 DEF RsyncDone
<1>15. CASE SyncComplete
  BY <1>15 DEF SyncComplete
<1>16. CASE SyncFails
  BY <1>16 DEF SyncFails
<1>17. ASSUME NEW m \in Tp, Publish(m) PROVE TypeOK'
  BY <1>17 DEF Publish, Models, Revs
<1>18. ASSUME NEW m \in Models, RemoveModel(m) PROVE TypeOK'
  <2>1. Empty \in [Files -> Revs \cup {Absent}] /\ Has(Empty) = {}
    OBVIOUS
  <2>2. head' = [head EXCEPT ![m] = Empty] /\ headDir' = headDir \ {m}
    BY <1>18 DEF RemoveModel
  <2>3. head' \in [Models -> [Files -> Revs \cup {Absent}]]
    BY <2>1, <2>2
  <2>4. \A n \in Models \ headDir' : Has(head'[n]) = {}
    BY <2>1, <2>2
  <2> QED
    BY <1>18, <2>2, <2>3, <2>4 DEF RemoveModel
<1>19. CASE BuildImage
  BY <1>19 DEF BuildImage, Revs
<1>20. CASE UNCHANGED vars
  BY <1>20 DEF vars
<1> QED
  BY <1>1, <1>2, <1>3, <1>4, <1>5, <1>6, <1>7, <1>8, <1>9, <1>10, <1>11, <1>12, <1>13,
     <1>14, <1>15, <1>16, <1>17, <1>18, <1>19, <1>20
     DEF Next, DownloadStep, SyncStep, Models

(* Type correctness, for any models and bounds. *)
THEOREM TypeCorrect == Spec => []TypeOK
  BY InitType, NextType, PTL DEF Spec
-----------------------------------------------------------------------------

(* SyncInv looks at none of the download's variables. *)
LEMMA SyncInvFrame ==
    ASSUME SyncInv, UNCHANGED <<head, headImage, worker, workerImage, sync, history>>
    PROVE  SyncInv'
BY DEF SyncInv, sync, history, SameImage, Copied, Has

LEMMA SyncInvFetch == TypeOK /\ SyncInv /\ FetchFile => SyncInv'
<1> SUFFICES ASSUME TypeOK, SyncInv, FetchFile PROVE SyncInv'
  OBVIOUS
<1> USE DEF FetchFile, Changed, sync, TypeOK, SameImage, Copied, Has
<1>1. item \in Models /\ item \notin steady' /\ item \notin synced'
  BY FilesAssumption
<1>2. \A m \in Models : m # item => head'[m] = head[m]
  BY <1>1
<1>3. steady' \subseteq Models \ {item} /\ synced' \subseteq Models \ {item}
  BY <1>1 DEF Models
<1> QED
  BY <1>2, <1>3 DEF SyncInv

LEMMA SyncInvRemove ==
    ASSUME TypeOK, SyncInv, NEW n \in Models, RemoveModel(n) PROVE SyncInv'
<1> USE DEF RemoveModel, Changed, sync, TypeOK, SameImage, Copied, Has
<1>1. \A m \in Models : m # n => head'[m] = head[m]
  OBVIOUS
<1>2. steady' \subseteq Models \ {n} /\ synced' \subseteq Models \ {n}
  BY DEF Models
<1> QED
  BY <1>1, <1>2 DEF SyncInv

LEMMA SyncInvRsync == TypeOK /\ SyncInv /\ RsyncFile => SyncInv'
<1> SUFFICES ASSUME TypeOK, SyncInv, RsyncFile PROVE SyncInv'
  OBVIOUS
<1> USE DEF RsyncFile, download, history
<1>1. PICK f \in list : /\ head[sitem][f] # Absent
                        /\ worker' = [worker EXCEPT ![sitem][f] = head[sitem][f]]
                        /\ list' = list \ {f}
  OBVIOUS
<1>2. sitem \in Tp /\ f \in Files
  BY <1>1 DEF TypeOK
<1>3. \A m \in Tp : Copied(m) => Copied(m)'
  BY <1>1, <1>2 DEF Copied, Has, TypeOK, Models
<1>4. \A g \in Has(head[sitem]) \ list' :
        (g \notin list /\ worker[sitem][g] = head[sitem][g]) \/ g = f
          => worker'[sitem][g] = head[sitem][g]
  BY <1>1, <1>2 DEF Has, TypeOK
<1>5. steady \subseteq Tp /\ synced \subseteq Tp
  BY DEF TypeOK
<1> QED
  BY <1>1, <1>3, <1>4, <1>5 DEF SyncInv, SameImage, Has

LEMMA SyncInvStep == TypeOK /\ SyncInv /\ [Next]_vars => SyncInv'
<1> SUFFICES ASSUME TypeOK, SyncInv, [Next]_vars PROVE SyncInv'
  OBVIOUS
<1> USE FilesAssumption
<1> USE DEF nodes, download, sync, history, SyncOver
<1>0. Nobody \notin steady /\ steady \subseteq targets
  BY DEF TypeOK, Models
<1>1. CASE UNCHANGED <<head, headImage, worker, workerImage, sync, history>>
  BY <1>1, SyncInvFrame
<1>2. ASSUME NEW ms, SyncBegin(ms) PROVE SyncInv'
  BY <1>2 DEF SyncBegin, SyncInv, TypeOK, SameImage, Copied, Has
<1>3. CASE CompareImage
  BY <1>0, <1>3 DEF CompareImage, SyncInv, TypeOK, SameImage, Copied, Has
<1>4. CASE StreamImage
  BY <1>0, <1>4 DEF StreamImage, SyncInv, TypeOK, SameImage, Copied, Has
<1>5. ASSUME NEW m \in squeue, StartRsync(m) PROVE SyncInv'
  BY <1>5 DEF StartRsync, SyncInv, TypeOK, SameImage, Copied, Has
<1>6. CASE RsyncDone
  BY <1>0, <1>6 DEF RsyncDone, SyncInv, TypeOK, SameImage, Copied, Has
<1>7. CASE SyncComplete
  <2>1. \A m \in steady : SameImage /\ Copied(m)
    BY <1>0, <1>7 DEF SyncComplete, SyncInv, TypeOK, SameImage
  <2> QED
    BY <1>7, <2>1 DEF SyncComplete, SyncInv, SameImage, Copied, Has
<1>8. CASE SyncFails
  BY <1>8 DEF SyncFails, SyncInv, SameImage, Copied, Has
<1>9. CASE BuildImage
  BY <1>9 DEF BuildImage, Changed, SyncInv, TypeOK
<1>10. CASE DownloadStep \/ \E ms \in SUBSET Models : DownloadBegin(ms)
  BY <1>1, <1>10, SyncInvFetch
     DEF DownloadStep, DownloadBegin, Skip, StartSnapshot, SnapshotDone, SnapshotFails,
         DownloadEnd, DownloadKilled
<1>11. ASSUME NEW m \in Tp, Publish(m) PROVE SyncInv'
  BY <1>1, <1>11 DEF Publish
<1>12. CASE UNCHANGED vars
  BY <1>1, <1>12 DEF vars
<1> QED
  BY <1>2, <1>3, <1>4, <1>5, <1>6, <1>7, <1>8, <1>9, <1>10, <1>11, <1>12,
     SyncInvRemove, SyncInvRsync
     DEF Next, SyncStep, Models

(* After a complete sync, and whatever broke off or changed before, the    *)
(* worker has every file of the head's and its image, and a preflight      *)
(* finds what it looks for, for any models, shards and revisions.          *)
THEOREM SyncIsFaithful == Spec => []SyncedMatchesHead
<1>1. Init => SyncInv
  BY DEF Init, SyncInv
<1>2. TypeOK /\ SyncInv => SyncedMatchesHead
  BY DEF TypeOK, SyncInv, SyncedMatchesHead, Copied, PreflightPasses, Has
<1> QED
  BY TypeCorrect, <1>1, <1>2, SyncInvStep, PTL DEF Spec

-----------------------------------------------------------------------------

(* A model whose files do not change stays complete. *)
LEMMA CompleteFrame ==
    ASSUME NEW m \in Models, head'[m] = head[m] PROVE Complete(m)' <=> Complete(m)
BY DEF Complete, FilesOf, Has

(* Every step keeps what a download has done so far. *)
LEMMA DownloadInvStep == TypeOK /\ DownloadInv /\ [Next]_vars => DownloadInv'
<1> SUFFICES ASSUME TypeOK, DownloadInv, [Next]_vars PROVE DownloadInv'
  OBVIOUS
<1> USE FilesAssumption
<1> USE DEF nodes, download, sync, history, SnapshotEnd, DownloadOver
<1>0. asked \subseteq Models /\ queue \subseteq asked /\ item \in asked \cup {Nobody}
      /\ Nobody \notin Models /\ vouched \subseteq Models /\ Tp \subseteq Models
  BY DEF TypeOK, Models
<1>1. ASSUME head' = head PROVE \A m : Complete(m)' <=> Complete(m)
  BY <1>1 DEF Complete, FilesOf, Has
<1>2. CASE UNCHANGED <<headDir, head, download>>
  BY <1>2 DEF DownloadInv, VouchedIsComplete, Complete, FilesOf, Has
<1>3. ASSUME NEW ms \in SUBSET Models, DownloadBegin(ms) PROVE DownloadInv'
  BY <1>0, <1>1, <1>3 DEF DownloadBegin, DownloadInv, VouchedIsComplete
<1>4. ASSUME NEW m \in queue, Skip(m) PROVE DownloadInv'
  <2>1. Complete(m) \/ m \in Tp \cap broken
    BY <1>0, <1>4 DEF Skip, OnDisk, DownloadInv, Complete
  <2> QED
    BY <1>0, <1>1, <1>4, <2>1 DEF Skip, DownloadInv, VouchedIsComplete
<1>5. ASSUME NEW m \in queue, StartSnapshot(m) PROVE DownloadInv'
  <2>1. item = Nobody /\ item' = m /\ m \in Models
        /\ UNCHANGED <<headDir, head, asked, dfailed, vouched, broken>>
    BY <1>0, <1>5 DEF StartSnapshot
  <2>2. vouched = {}
    BY <1>0 DEF DownloadInv
  <2>3. FilesOf(m, rev') \ need' = {} /\ (m \notin Tp => need' = Shards)
    BY <1>5 DEF StartSnapshot, FilesOf
  <2>4. queue' = queue \ {m}
    BY <1>5 DEF StartSnapshot
  <2>5. \A f \in (FilesOf(item, rev) \ need)' : FALSE
    BY <2>1, <2>3 DEF FilesOf
  <2>6. \A n \in (Tp \cap headDir') \ broken' : n # item' => Complete(n)'
    BY <1>0, <1>1, <2>1 DEF DownloadInv
  <2>7. ASSUME ~dfailed', NEW n \in asked' \ queue', n # item'
        PROVE  Complete(n)' \/ n \in Tp \cap broken'
    BY <1>0, <1>1, <2>1, <2>4, <2>7 DEF DownloadInv
  <2>8. item' \notin queue' /\ VouchedIsComplete'
    BY <2>1, <2>2, <2>4 DEF VouchedIsComplete
  <2>9. item' \notin Tp => Shards \ need' \subseteq Has(head'[item'])
    BY <2>1, <2>3
  <2> QED
    BY <2>1, <2>2, <2>5, <2>6, <2>7, <2>8, <2>9 DEF DownloadInv
<1>6. CASE FetchFile
  <2>1. PICK f \in need : head' = [head EXCEPT ![item][f] = rev] /\ need' = need \ {f}
    BY <1>6 DEF FetchFile
  <2>2. item \in Models /\ f \in Files /\ rev # Absent
    BY <2>1 DEF TypeOK, Revs, Absent
  <2>3. UNCHANGED <<asked, queue, item, rev, dfailed, vouched, broken>>
        /\ headDir' = headDir \cup {item}
    BY <1>6 DEF FetchFile
  <2>4. \A m \in Models : m # item => head'[m] = head[m]
    BY <2>1, <2>2 DEF TypeOK
  <2>5. \A m \in Models : m # item => (Complete(m)' <=> Complete(m))
    BY <2>4, CompleteFrame
  <2>6. head'[item][f] = rev /\ \A g \in Files : g # f => head'[item][g] = head[item][g]
    BY <2>1, <2>2 DEF TypeOK
  <2>7. IF item \in Tp THEN \A g \in (FilesOf(item, rev) \ need)' : head'[item][g] = rev
                      ELSE Shards \ need' \subseteq Has(head'[item])
    <3>1. CASE item \in Tp
      <4>1. FilesOf(item, rev)' = FilesOf(item, rev) /\ FilesOf(item, rev) \subseteq Files
        BY <2>3, <3>1 DEF FilesOf, Files, TypeOK
      <4> QED
        BY <2>1, <2>2, <2>6, <3>1, <4>1 DEF DownloadInv, FilesOf
    <3>2. CASE item \notin Tp
      BY <1>0, <2>1, <2>2, <2>6, <3>2 DEF DownloadInv, Has, Files
    <3> QED
      BY <3>1, <3>2
  <2>8. vouched = {}
    BY <1>0, <2>2 DEF DownloadInv
  <2>9. \A m \in (Tp \cap headDir') \ broken' : m # item' => Complete(m)'
    BY <1>0, <2>3, <2>5 DEF DownloadInv
  <2>10. ~dfailed' => \A m \in asked' \ queue' :
            m # item' => Complete(m)' \/ m \in Tp \cap broken'
    BY <1>0, <2>3, <2>5 DEF DownloadInv
  <2> QED
    BY <2>3, <2>7, <2>8, <2>9, <2>10 DEF DownloadInv, VouchedIsComplete
<1>7. CASE SnapshotDone
  <2>1. item # Nobody /\ need = {} /\ item' = Nobody /\ broken' = broken \ {item}
        /\ UNCHANGED <<headDir, head, asked, queue, dfailed, vouched>>
    BY <1>7 DEF SnapshotDone
  <2>2. vouched = {}
    BY <1>0, <2>1 DEF DownloadInv
  <2>3. Complete(item)
    BY <2>1 DEF DownloadInv, Complete, TypeOK
  <2> QED
    BY <1>0, <1>1, <2>1, <2>2, <2>3 DEF DownloadInv, VouchedIsComplete
<1>8. CASE SnapshotFails
  <2>1. item # Nobody /\ item' = Nobody /\ dfailed' /\ broken' = broken \cup {item}
        /\ headDir' \subseteq headDir \cup {item}
        /\ UNCHANGED <<head, asked, queue, vouched>>
    BY <1>8 DEF SnapshotFails, BreaksOff
  <2>2. vouched = {}
    BY <1>0, <2>1 DEF DownloadInv
  <2> QED
    BY <1>0, <1>1, <2>1, <2>2 DEF DownloadInv, VouchedIsComplete
<1>9. CASE DownloadEnd
  <2>1. \A m \in vouched' : Complete(m) \/ m \in Tp \cap broken
    BY <1>0, <1>9 DEF DownloadEnd, DownloadInv
  <2> QED
    BY <1>0, <1>1, <1>9, <2>1 DEF DownloadEnd, DownloadInv, VouchedIsComplete
<1>10. CASE DownloadKilled
  <2>1. asked # {} /\ item' = Nobody /\ asked' = {} /\ queue' = {}
        /\ broken' = broken \cup ({item} \ {Nobody})
        /\ headDir' \subseteq headDir \cup ({item} \ {Nobody})
        /\ UNCHANGED <<head, vouched>>
    BY <1>10 DEF DownloadKilled, BreaksOff
  <2>2. vouched = {}
    BY <2>1 DEF DownloadInv
  <2> QED
    BY <1>0, <1>1, <2>1, <2>2 DEF DownloadInv, VouchedIsComplete
<1>11. ASSUME NEW n \in Models, RemoveModel(n) PROVE DownloadInv'
  <2>1. n \notin asked /\ headDir' = headDir \ {n} /\ broken' = broken \ {n}
        /\ vouched' = vouched \ {n} /\ UNCHANGED <<asked, queue, item, rev, need, dfailed>>
    BY <1>11 DEF RemoveModel
  <2>2. \A m \in Models : m # n => head'[m] = head[m]
    BY <1>11 DEF RemoveModel, TypeOK
  <2>3. \A m \in Models : m # n => (Complete(m)' <=> Complete(m))
    BY <2>2, CompleteFrame
  <2>4. item # n /\ (item # Nobody => head'[item] = head[item])
    BY <1>0, <2>1, <2>2
  <2>5. item # Nobody =>
          IF item \in Tp THEN \A f \in (FilesOf(item, rev) \ need)' : head'[item][f] = rev
                        ELSE Shards \ need' \subseteq Has(head'[item])
    BY <2>1, <2>4 DEF DownloadInv, FilesOf
  <2>6. VouchedIsComplete'
    BY <1>0, <2>1, <2>3 DEF DownloadInv, VouchedIsComplete
  <2>7. ~dfailed => \A m \in asked \ queue :
            m # item => Complete(m)' \/ m \in Tp \cap broken'
    BY <1>0, <2>1, <2>3 DEF DownloadInv
  <2>8. \A m \in (Tp \cap headDir') \ broken' : m # item => Complete(m)'
    BY <1>0, <2>1, <2>3 DEF DownloadInv
  <2> QED
    BY <2>1, <2>5, <2>6, <2>7, <2>8 DEF DownloadInv
<1>12. CASE SyncStep \/ (\E ms \in SUBSET Tp : SyncBegin(ms)) \/ BuildImage
  BY <1>2, <1>12
     DEF SyncStep, SyncBegin, CompareImage, StreamImage, StartRsync, RsyncFile,
         RsyncDone, SyncComplete, SyncFails, BuildImage
<1>13. ASSUME NEW m \in Tp, Publish(m) PROVE DownloadInv'
  BY <1>2, <1>13 DEF Publish
<1>14. CASE UNCHANGED vars
  BY <1>2, <1>14 DEF vars
<1> QED
  BY <1>3, <1>4, <1>5, <1>6, <1>7, <1>8, <1>9, <1>10, <1>11, <1>12, <1>13, <1>14
     DEF Next, DownloadStep, Models

(* What a download reports to be on disk is complete, but for a directory  *)
(* that an earlier snapshot left half full, for any models and shards.     *)
THEOREM DownloadIsComplete == Spec => []VouchedIsComplete
<1>1. Init => DownloadInv
  BY FilesAssumption DEF Init, DownloadInv, VouchedIsComplete
<1>2. DownloadInv => VouchedIsComplete
  BY DEF DownloadInv
<1> QED
  BY TypeCorrect, <1>1, <1>2, DownloadInvStep, PTL DEF Spec
=============================================================================
