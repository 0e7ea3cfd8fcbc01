------------------------ MODULE CrawlLifecycleProofs ------------------------
(***************************************************************************)
(* Safety of the crawls of a site for every number of Jobs, kills and      *)
(* failed calls.                                                           *)
(***************************************************************************)
EXTENDS CrawlLifecycle, FiniteSetTheorems, TLAPS

(***************************************************************************)
(* Types.                                                                  *)
(***************************************************************************)
LEMMA FaultType ==
    ASSUME TypeOK, NEW works \in BOOLEAN, Fault(works)
    PROVE  faults' \in 0 .. MaxFaults /\ (faults' = 0 => faults = 0)
BY JobAssumption DEF JobAssumption, TypeOK, Fault

LEMMA CallType ==
    ASSUME TypeOK, NEW works \in BOOLEAN, Call(works)
    PROVE  /\ silent' \subseteq Jobs /\ faults' \in 0 .. MaxFaults
           /\ ~works => faults' # 0
           /\ faults' = 0 => faults = 0
BY JobAssumption DEF JobAssumption, TypeOK, Call, Fault

LEMMA RowSetToType ==
    ASSUME TypeOK, NEW j, NEW status \in Verdicts
    PROVE  RowSetTo(j, status) \in [Jobs -> RowStates]
BY DEF TypeOK, RowSetTo, RowStates

LEMMA TypeInit == Init => TypeOK
BY JobAssumption DEF JobAssumption, Init, TypeOK, JobStates, Kinds, PodStates,
   RowStates, JobOrNone, ReconcileOff, CancelIdle

LEMMA ClusterType ==
    ASSUME TypeOK, NEW j \in Jobs, Cluster(j) \/ CrawlNow(j)
    PROVE  TypeOK'
<1>1. CASE CronFires(j)
  BY <1>1 DEF TypeOK, CronFires, NewJob, JobStates, Kinds, PodStates, crawls,
     bounds
<1>2. CASE JobFinishes(j)
  BY <1>2 DEF TypeOK, JobFinishes, JobStates, crawls, bounds
<1>3. CASE PodTerminates(j)
  BY <1>3 DEF TypeOK, PodTerminates, PodStates, cluster, crawls, bounds
<1>4. CASE PodKilled(j)
  BY <1>4, JobAssumption DEF JobAssumption, TypeOK, PodKilled, EndsSilently,
     PodStates, cluster, crawls
<1>5. CASE CrawlNow(j)
  BY <1>5 DEF TypeOK, CrawlNow, NewJob, JobStates, Kinds, PodStates, crawls,
     bounds
<1> QED
  BY <1>1, <1>2, <1>3, <1>4, <1>5 DEF Cluster

LEMMA PodType ==
    ASSUME TypeOK, NEW j \in Jobs, Pod(j)
    PROVE  TypeOK'
<1>1. CASE StartCrawl(j)
  BY <1>1 DEF TypeOK, StartCrawl, PodStates, RowStates, JobOrNone, cluster,
     bounds
<1>2. CASE StartFails(j)
  <2>1. silent' \subseteq Jobs /\ faults' \in 0 .. MaxFaults
    BY <1>2, CallType DEF StartFails
  <2> QED
    BY <1>2, <2>1 DEF TypeOK, StartFails, PodStates, cluster, crawls
<1>3. ASSUME NEW verdict \in Verdicts, NEW works \in BOOLEAN,
             CrawlEnds(j, verdict, works)
      PROVE  TypeOK'
  <2>1. silent' \subseteq Jobs /\ faults' \in 0 .. MaxFaults
    BY <1>3, FaultType DEF CrawlEnds, FinishCrawl, TypeOK
  <2>2. row' \in [Jobs -> RowStates]
    BY <1>3, RowSetToType DEF CrawlEnds, FinishCrawl, TypeOK
  <2> QED
    BY <1>3, <2>1, <2>2 DEF TypeOK, CrawlEnds, FinishCrawl, PodStates, cluster
<1>4. CASE StartUnheard(j)
  <2>1. silent' \subseteq Jobs /\ faults' \in 0 .. MaxFaults
    BY <1>4, FaultType DEF StartUnheard, EndsSilently, TypeOK
  <2> QED
    BY <1>4, <2>1 DEF TypeOK, StartUnheard, EndsSilently, PodStates, RowStates,
       JobOrNone, cluster
<1> QED
  BY <1>1, <1>2, <1>3, <1>4 DEF Pod

LEMMA PortalType ==
    ASSUME TypeOK,
           \/ \E works \in BOOLEAN : PortalStarts(works)
           \/ ReconcileStep \/ StartupLost
    PROVE  TypeOK'
<1>1. ASSUME NEW works \in BOOLEAN, PortalStarts(works)
      PROVE  TypeOK'
  <2>1. silent' \subseteq Jobs /\ faults' \in 0 .. MaxFaults
    BY <1>1, CallType DEF PortalStarts
  <2> QED
    BY <1>1, <2>1 DEF TypeOK, PortalStarts, RunningRows, cluster, crawls
<1>2. ASSUME NEW works \in BOOLEAN, NEW j \in Jobs, ReconcileCheck(j, works)
      PROVE  TypeOK'
  <2>1. silent' \subseteq Jobs /\ faults' \in 0 .. MaxFaults
    BY <1>2, CallType DEF ReconcileCheck
  <2> DEFINE left == [reconcile EXCEPT !.todo = reconcile.todo \ {j}]
  <2>2. \/ reconcile' = left
        \/ reconcile' = [left EXCEPT !.pc = "fail", !.current = j]
    BY <1>2 DEF ReconcileCheck
  <2>3. reconcile' \in [pc : {"off", "check", "fail"},
                        todo : SUBSET Jobs, current : JobOrNone]
    <3> DEFINE R == [pc : {"off", "check", "fail"},
                     todo : SUBSET Jobs, current : JobOrNone]
    <3>1. left \in R
      BY DEF TypeOK
    <3>2. j \in JobOrNone
      BY DEF JobOrNone
    <3> HIDE DEF left
    <3> QED
      BY <2>2, <3>1, <3>2
  <2> QED
    BY <1>2, <2>1, <2>3 DEF TypeOK, ReconcileCheck, cluster, crawls
<1>3. ASSUME NEW works \in BOOLEAN, ReconcileFail(works)
      PROVE  TypeOK'
  <2>1. silent' \subseteq Jobs /\ faults' \in 0 .. MaxFaults
    BY <1>3, CallType DEF ReconcileFail
  <2>2. row' \in [Jobs -> RowStates]
    BY <1>3, RowSetToType DEF ReconcileFail, TypeOK, OrphanStatus, Verdicts
  <2> QED
    BY <1>3, <2>1, <2>2 DEF TypeOK, ReconcileFail, JobOrNone, cluster
<1>4. CASE PortalServes \/ StartupLost
  BY <1>4 DEF TypeOK, PortalServes, StartupLost, ReconcileOff, JobOrNone,
     cluster, crawls, bounds
<1> QED
  BY <1>1, <1>2, <1>3, <1>4 DEF ReconcileStep

LEMMA CancelType ==
    ASSUME TypeOK, NEW works \in BOOLEAN,
           \/ CancelRead(works) \/ CancelList(works) \/ CancelFinish(works)
           \/ \E j \in Jobs : CancelDelete(j, works)
    PROVE  TypeOK'
<1>1. silent' \subseteq Jobs /\ faults' \in 0 .. MaxFaults
  BY CallType DEF CancelRead, CancelList, CancelFinish, CancelDelete
<1>2. CASE CancelRead(works)
  BY <1>1, <1>2 DEF TypeOK, CancelRead, JobOrNone, cluster, crawls
<1>3. CASE CancelList(works)
  BY <1>1, <1>3 DEF TypeOK, CancelList, JobsByLabel, cluster, crawls
<1>4. CASE CancelFinish(works)
  <2>1. row' \in [Jobs -> RowStates]
    BY <1>4, RowSetToType DEF CancelFinish, TypeOK, Verdicts
  <2> QED
    BY <1>1, <1>4, <2>1 DEF TypeOK, CancelFinish, CancelIdle, JobOrNone, cluster
<1>5. ASSUME NEW j \in Jobs, CancelDelete(j, works)
      PROVE  TypeOK'
  BY <1>1, <1>5 DEF TypeOK, CancelDelete, JobStates, crawls
<1> QED
  BY <1>2, <1>3, <1>4, <1>5

LEMMA SiteType ==
    ASSUME TypeOK,
           \/ \E works \in BOOLEAN : TogglePause(works) \/ DeleteSite(works)
           \/ HandlersLost
    PROVE  TypeOK'
<1>1. ASSUME NEW works \in BOOLEAN, TogglePause(works)
      PROVE  TypeOK'
  <2>1. silent' \subseteq Jobs /\ faults' \in 0 .. MaxFaults
    BY <1>1, CallType DEF TogglePause
  <2> QED
    BY <1>1, <2>1 DEF TypeOK, TogglePause, crawls
<1>2. ASSUME NEW works \in BOOLEAN, DeleteSite(works)
      PROVE  TypeOK'
  <2>1. silent' \subseteq Jobs /\ faults' \in 0 .. MaxFaults
    BY <1>2, CallType DEF DeleteSite
  <2> QED
    BY <1>2, <2>1 DEF TypeOK, DeleteSite, JobStates, RowStates, JobOrNone
<1>3. CASE HandlersLost
  BY <1>3 DEF TypeOK, HandlersLost, CancelIdle, JobOrNone, cluster, crawls,
     bounds
<1> QED
  BY <1>1, <1>2, <1>3

LEMMA TypeStep == TypeOK /\ [Next]_vars => TypeOK'
<1> SUFFICES ASSUME TypeOK, [Next]_vars PROVE TypeOK'
  OBVIOUS
<1>1. CASE Next
  BY <1>1, ClusterType, PodType, PortalType, CancelType, SiteType DEF Next,
     Handlers
<1>2. CASE UNCHANGED vars
  BY <1>2 DEF TypeOK, vars, cluster, crawls, bounds
<1> QED
  BY <1>1, <1>2

\* Every state of every execution is well typed: a row never has a status
\* that the portal does not know, and no counter passes its bound.
THEOREM TypeCorrect == Spec => []TypeOK
BY TypeInit, TypeStep, PTL DEF Spec

(***************************************************************************)
(* The inductive invariant.                                                *)
(***************************************************************************)
\* Job, pod and row come into being in this order.
JobInv ==
    \A j \in Jobs :
        /\ pod[j] = "none" <=> job[j] = "none"
        /\ job[j] = "none" => kind[j] = "manual" /\ row[j] = "absent"

\* Forbid keeps the active Jobs of the CronJob down to one.
CronInv ==
    \A i, j \in Jobs :
        /\ kind[i] = "cron" /\ job[i] = "active"
        /\ kind[j] = "cron" /\ job[j] = "active"
        => i = j

\* What a starting portal has listed has a Job, and what it is about to fail
\* had one that is gone.
ReconcileInv ==
    /\ \A j \in reconcile.todo : job[j] # "none"
    /\ reconcile.pc = "fail" =>
          reconcile.current \in Jobs /\ job[reconcile.current] = "gone"

\* The Job of the row that Cancel will close is gone or about to go.
CancelInv ==
    /\ \A j \in cancelling.victims : job[j] # "none"
    /\ cancelling.target # NoJob =>
          /\ job[cancelling.target] # "none"
          /\ cancelling.pc = "delete" /\ faults = 0 =>
                \/ job[cancelling.target] = "gone"
                \/ cancelling.target \in cancelling.victims

IInv == /\ TypeOK /\ JobInv /\ CronInv /\ ReconcileInv /\ CancelInv
        /\ OpenRowWhileCrawling

LEMMA InvInit == Init => IInv
BY TypeInit DEF Init, IInv, JobInv, CronInv, ReconcileInv, CancelInv,
   OpenRowWhileCrawling, AtWork, ReconcileOff, CancelIdle

\* Jobs are made and go, and never come back.
LEMMA JobsGo ==
    ASSUME IInv, [Next]_vars, NEW j \in Jobs
    PROVE  /\ job[j] # "none" => job'[j] # "none"
           /\ job[j] = "gone" => job'[j] = "gone"
<1>1. CASE job' = job
  BY <1>1
<1>2. ASSUME NEW i \in Jobs, NEW k, NewJob(i, k)
      PROVE  /\ job[j] # "none" => job'[j] # "none"
             /\ job[j] = "gone" => job'[j] = "gone"
  BY <1>2 DEF NewJob, IInv, TypeOK
<1>3. ASSUME NEW i \in Jobs, job' = [job EXCEPT ![i] = "gone"]
      PROVE  /\ job[j] # "none" => job'[j] # "none"
             /\ job[j] = "gone" => job'[j] = "gone"
  BY <1>3 DEF IInv, TypeOK
<1>4. ASSUME NEW works \in BOOLEAN, DeleteSite(works)
      PROVE  /\ job[j] # "none" => job'[j] # "none"
             /\ job[j] = "gone" => job'[j] = "gone"
  BY <1>4 DEF DeleteSite
<1>5. CASE UNCHANGED vars
  BY <1>1, <1>5 DEF vars, cluster
<1>6. ASSUME NEW i \in Jobs, Cluster(i) \/ Pod(i) \/ CrawlNow(i)
      PROVE  /\ job[j] # "none" => job'[j] # "none"
             /\ job[j] = "gone" => job'[j] = "gone"
  BY <1>1, <1>2, <1>3, <1>6 DEF Cluster, Pod, CrawlNow, CronFires, JobFinishes,
     PodTerminates, PodKilled, EndsSilently, StartCrawl, StartFails,
     StartUnheard, CrawlEnds, FinishCrawl, cluster
<1>7. CASE \/ \E works \in BOOLEAN : PortalStarts(works)
           \/ ReconcileStep \/ StartupLost \/ HandlersLost
  BY <1>1, <1>7 DEF PortalStarts, ReconcileStep, ReconcileCheck, ReconcileFail,
     PortalServes, StartupLost, HandlersLost, cluster
<1>8. CASE Handlers
  BY <1>1, <1>3, <1>4, <1>8 DEF Handlers, CancelRead, CancelList, CancelFinish,
     CancelDelete, TogglePause, cluster
<1> QED
  BY <1>5, <1>6, <1>7, <1>8 DEF Next

LEMMA JobInvStep ==
    ASSUME IInv, [Next]_vars
    PROVE  JobInv'
<1> USE DEF IInv, TypeOK, JobInv
<1>1. ASSUME NEW j \in Jobs, NEW k, NewJob(j, k), row' = row
      PROVE  JobInv'
  BY <1>1 DEF NewJob
<1>2. ASSUME NEW j \in Jobs, Cluster(j) \/ CrawlNow(j)
      PROVE  JobInv'
  BY <1>1, <1>2 DEF Cluster, CronFires, JobFinishes, PodTerminates, PodKilled,
     EndsSilently, CrawlNow, cluster, crawls
<1>3. ASSUME NEW j \in Jobs, Pod(j)
      PROVE  JobInv'
  <2>1. CASE StartCrawl(j) \/ StartFails(j)
    BY <2>1 DEF StartCrawl, StartFails, cluster, crawls
  <2>2. CASE StartUnheard(j)
    BY <2>2 DEF StartUnheard, EndsSilently, cluster
  <2>3. ASSUME NEW verdict \in Verdicts, NEW works \in BOOLEAN,
               CrawlEnds(j, verdict, works)
        PROVE  JobInv'
    BY <2>3 DEF CrawlEnds, FinishCrawl, AtWork, RowSetTo, cluster
  <2> QED
    BY <1>3, <2>1, <2>2, <2>3 DEF Pod
<1>4. CASE \/ \E works \in BOOLEAN : PortalStarts(works)
           \/ ReconcileStep \/ StartupLost \/ HandlersLost
  BY <1>4 DEF PortalStarts, ReconcileStep, ReconcileCheck, ReconcileFail,
     PortalServes, StartupLost, HandlersLost, RowSetTo, cluster, crawls
<1>5. ASSUME NEW works \in BOOLEAN,
             \/ CancelRead(works) \/ CancelList(works) \/ TogglePause(works)
             \/ CancelFinish(works)
      PROVE  JobInv'
  BY <1>5 DEF CancelRead, CancelList, CancelFinish, TogglePause, RowSetTo,
     cluster, crawls
<1>6. ASSUME NEW works \in BOOLEAN, NEW j \in Jobs, CancelDelete(j, works)
      PROVE  JobInv'
  <2>1. job[j] # "none"
    BY <1>6 DEF CancelDelete, CancelInv
  <2> QED
    BY <1>6, <2>1 DEF CancelDelete, crawls
<1>7. ASSUME NEW works \in BOOLEAN, DeleteSite(works)
      PROVE  JobInv'
  BY <1>7 DEF DeleteSite
<1>8. CASE UNCHANGED vars
  BY <1>8 DEF vars, cluster, crawls
<1> QED
  BY <1>2, <1>3, <1>4, <1>5, <1>6, <1>7, <1>8 DEF Next, Handlers

LEMMA CronInvStep ==
    ASSUME IInv, [Next]_vars
    PROVE  CronInv'
<1> USE DEF IInv, TypeOK, CronInv
<1>1. ASSUME NEW j \in Jobs, CronFires(j)
      PROVE  CronInv'
  BY <1>1 DEF CronFires, NewJob, MayFire
<1>2. ASSUME NEW j \in Jobs, CrawlNow(j)
      PROVE  CronInv'
  BY <1>2 DEF CrawlNow, NewJob
<1>3. ASSUME kind' = kind,
             \A j \in Jobs : job'[j] = "active" => job[j] = "active"
      PROVE  CronInv'
  BY <1>3
<1>4. ASSUME NEW j \in Jobs,
             \/ JobFinishes(j) \/ PodTerminates(j) \/ PodKilled(j) \/ Pod(j)
      PROVE  CronInv'
  BY <1>3, <1>4 DEF JobFinishes, PodTerminates, PodKilled, EndsSilently, Pod,
     StartCrawl, StartFails, StartUnheard, CrawlEnds, FinishCrawl, cluster
<1>5. CASE \/ \E works \in BOOLEAN : PortalStarts(works)
           \/ ReconcileStep \/ StartupLost \/ HandlersLost
  BY <1>3, <1>5 DEF PortalStarts, ReconcileStep, ReconcileCheck, ReconcileFail,
     PortalServes, StartupLost, HandlersLost, cluster
<1>6. CASE Handlers
  BY <1>3, <1>6 DEF Handlers, CancelRead, CancelList, CancelFinish,
     CancelDelete, TogglePause, DeleteSite, cluster
<1>7. CASE UNCHANGED vars
  BY <1>3, <1>7 DEF vars, cluster
<1> QED
  BY <1>1, <1>2, <1>4, <1>5, <1>6, <1>7 DEF Next, Cluster

LEMMA ReconcileInvStep ==
    ASSUME IInv, [Next]_vars
    PROVE  ReconcileInv'
<1> USE DEF IInv, TypeOK, ReconcileInv
<1>1. ASSUME reconcile' = reconcile
      PROVE  ReconcileInv'
  BY <1>1, JobsGo
<1>2. ASSUME NEW works \in BOOLEAN, PortalStarts(works)
      PROVE  ReconcileInv'
  BY <1>2 DEF PortalStarts, RunningRows, JobInv, cluster
<1>3. ASSUME NEW works \in BOOLEAN, NEW j \in Jobs, ReconcileCheck(j, works)
      PROVE  ReconcileInv'
  <2>1. job' = job /\ reconcile'.todo \subseteq reconcile.todo
    BY <1>3 DEF ReconcileCheck, cluster
  <2>2. reconcile'.pc = "fail" => reconcile'.current = j /\ job[j] = "gone"
    BY <1>3 DEF ReconcileCheck, HasRunningJob, JobStates
  <2> QED
    BY <2>1, <2>2
<1>4. ASSUME \/ \E works \in BOOLEAN : ReconcileFail(works)
             \/ PortalServes \/ StartupLost
      PROVE  ReconcileInv'
  <2>1. CASE \E works \in BOOLEAN : ReconcileFail(works)
    <3>1. /\ reconcile'.todo = reconcile.todo /\ reconcile'.pc = "check"
          /\ job' = job
      BY <2>1 DEF ReconcileFail, cluster
    <3> QED
      BY <3>1
  <2>2. CASE PortalServes \/ StartupLost
    BY <2>2 DEF PortalServes, StartupLost, ReconcileOff
  <2> QED
    BY <1>4, <2>1, <2>2
<1>5. ASSUME NEW j \in Jobs, Cluster(j) \/ Pod(j) \/ CrawlNow(j)
      PROVE  reconcile' = reconcile
  BY <1>5 DEF Cluster, CronFires, JobFinishes, PodTerminates, PodKilled,
     EndsSilently, Pod, StartCrawl, StartFails, StartUnheard, CrawlEnds,
     FinishCrawl, CrawlNow
<1>6. ASSUME Handlers \/ HandlersLost \/ UNCHANGED vars
      PROVE  reconcile' = reconcile
  BY <1>6 DEF Handlers, CancelRead, CancelList, CancelFinish, CancelDelete,
     TogglePause, DeleteSite, HandlersLost, vars
<1> QED
  BY <1>1, <1>2, <1>3, <1>4, <1>5, <1>6 DEF Next, ReconcileStep

LEMMA CancelInvStep ==
    ASSUME IInv, [Next]_vars
    PROVE  CancelInv'
<1> USE DEF IInv, TypeOK, CancelInv
<1>1. ASSUME cancelling' = cancelling, faults' = 0 => faults = 0
      PROVE  CancelInv'
  <2>1. cancelling.target # NoJob => cancelling.target \in Jobs
    BY DEF JobOrNone
  <2> QED
    BY <1>1, <2>1, JobsGo
<1>2. ASSUME NEW works \in BOOLEAN, CancelRead(works)
      PROVE  CancelInv'
  BY <1>2 DEF CancelRead, LatestRunning, JobInv, JobOrNone, cluster
<1>3. ASSUME NEW works \in BOOLEAN, CancelList(works)
      PROVE  CancelInv'
  <2>1. ~works => faults' # 0
    BY <1>3, CallType DEF CancelList
  <2>2. cancelling.target # NoJob => cancelling.target \in Jobs
    BY DEF JobOrNone
  <2> QED
    BY <1>3, <2>1, <2>2 DEF CancelList, JobsByLabel, JobStates, cluster
<1>4. ASSUME NEW works \in BOOLEAN, NEW j \in Jobs, CancelDelete(j, works)
      PROVE  CancelInv'
  <2>1. (~works => faults' # 0) /\ (faults' = 0 => faults = 0)
    BY <1>4, CallType DEF CancelDelete
  <2>2. cancelling.target # NoJob => cancelling.target \in Jobs
    BY DEF JobOrNone
  <2>3. CASE works
    <3>1. /\ job' = [job EXCEPT ![j] = "gone"]
          /\ cancelling'.victims = cancelling.victims \ {j}
          /\ cancelling'.target = cancelling.target
          /\ cancelling'.pc = cancelling.pc
      BY <1>4, <2>3 DEF CancelDelete
    <3> QED
      BY <2>1, <2>2, <3>1
  <2>4. CASE ~works
    BY <1>4, <2>1, <2>4 DEF CancelDelete
  <2> QED
    BY <2>3, <2>4
<1>5. ASSUME HandlersLost \/ \E works \in BOOLEAN : CancelFinish(works)
      PROVE  CancelInv'
  BY <1>5 DEF HandlersLost, CancelFinish, CancelIdle, cluster
<1>6. ASSUME NEW j \in Jobs, Cluster(j) \/ Pod(j) \/ CrawlNow(j)
      PROVE  cancelling' = cancelling /\ (faults' = 0 => faults = 0)
  <2>1. CASE Cluster(j) \/ StartCrawl(j) \/ CrawlNow(j)
    BY <2>1 DEF Cluster, CronFires, JobFinishes, PodTerminates, PodKilled,
       EndsSilently, StartCrawl, CrawlNow, bounds
  <2>2. CASE StartFails(j)
    BY <2>2, CallType DEF StartFails
  <2>3. ASSUME NEW verdict \in Verdicts, NEW works \in BOOLEAN,
               CrawlEnds(j, verdict, works)
        PROVE  cancelling' = cancelling /\ (faults' = 0 => faults = 0)
    BY <2>3, FaultType DEF CrawlEnds, FinishCrawl
  <2>4. CASE StartUnheard(j)
    BY <2>4, FaultType DEF StartUnheard
  <2> QED
    BY <1>6, <2>1, <2>2, <2>3, <2>4 DEF Pod
<1>7. ASSUME \/ \E works \in BOOLEAN :
                   PortalStarts(works) \/ TogglePause(works) \/ DeleteSite(works)
             \/ ReconcileStep \/ StartupLost \/ UNCHANGED vars
      PROVE  cancelling' = cancelling /\ (faults' = 0 => faults = 0)
  BY <1>7, CallType DEF PortalStarts, TogglePause, DeleteSite, ReconcileStep,
     ReconcileCheck, ReconcileFail, PortalServes, StartupLost, bounds, vars
<1> QED
  BY <1>1, <1>2, <1>3, <1>4, <1>5, <1>6, <1>7 DEF Next, Handlers

LEMMA OpenRowStep ==
    ASSUME IInv, [Next]_vars
    PROVE  OpenRowWhileCrawling'
<1> USE DEF IInv, TypeOK, OpenRowWhileCrawling
<1>1. ASSUME faults' = 0 => faults = 0, site = "deleted" => site' = "deleted",
             \A j \in AtWork' : /\ j \in AtWork
                               /\ \/ row'[j] = row[j] \/ row'[j] = "running"
                                  \/ job'[j] = "gone" \/ site' = "deleted"
      PROVE  OpenRowWhileCrawling'
  <2>1. AtWork' \subseteq Jobs
    BY DEF AtWork
  <2> QED
    BY <1>1, <2>1, JobsGo
<1>2. ASSUME NEW j \in Jobs, Cluster(j) \/ CrawlNow(j)
      PROVE  OpenRowWhileCrawling'
  <2>1. row' = row /\ site' = site /\ faults' = faults
    BY <1>2 DEF Cluster, CronFires, JobFinishes, PodTerminates, PodKilled,
       EndsSilently, CrawlNow, crawls, bounds
  <2>2. AtWork' \subseteq AtWork
    BY <1>2 DEF Cluster, CronFires, JobFinishes, PodTerminates, PodKilled,
       EndsSilently, CrawlNow, NewJob, cluster, AtWork
  <2> QED
    BY <1>1, <2>1, <2>2
<1>3. ASSUME NEW j \in Jobs, StartCrawl(j)
      PROVE  OpenRowWhileCrawling'
  <2>1. /\ row' = [row EXCEPT ![j] = "running"] /\ AtWork' = AtWork \union {j}
        /\ site' = site /\ faults' = faults /\ job' = job
    BY <1>3 DEF StartCrawl, AtWork, cluster, bounds
  <2> QED
    BY <2>1 DEF AtWork
<1>4. ASSUME NEW j \in Jobs, StartFails(j)
      PROVE  OpenRowWhileCrawling'
  <2>1. faults' = 0 => faults = 0
    BY <1>4, CallType DEF StartFails
  <2>2. row' = row /\ site' = site /\ AtWork' \subseteq AtWork
    BY <1>4 DEF StartFails, AtWork, crawls
  <2> QED
    BY <1>1, <2>1, <2>2
<1>13. ASSUME NEW j \in Jobs, StartUnheard(j)
       PROVE  OpenRowWhileCrawling'
  <2>1. faults' = 0 => faults = 0
    BY <1>13, FaultType DEF StartUnheard
  <2>2. /\ row' = [row EXCEPT ![j] = "running"] /\ site' = site
        /\ AtWork' \subseteq AtWork
    BY <1>13 DEF StartUnheard, EndsSilently, AtWork
  <2>3. \A i \in AtWork : row'[i] = row[i] \/ row'[i] = "running"
    BY <2>2 DEF AtWork
  <2> QED
    BY <1>1, <2>1, <2>2, <2>3
<1>5. ASSUME NEW j \in Jobs, NEW verdict \in Verdicts, NEW works \in BOOLEAN,
             CrawlEnds(j, verdict, works)
      PROVE  OpenRowWhileCrawling'
  <2>1. faults' = 0 => faults = 0
    BY <1>5, FaultType DEF CrawlEnds, FinishCrawl
  <2>2. site' = site /\ AtWork' = AtWork \ {j}
    BY <1>5 DEF CrawlEnds, FinishCrawl, AtWork
  <2>3. \A i \in AtWork' : row'[i] = row[i]
    BY <1>5, <2>2 DEF CrawlEnds, FinishCrawl, RowSetTo, AtWork
  <2> QED
    BY <1>1, <2>1, <2>2, <2>3
<1>6. ASSUME NEW works \in BOOLEAN, ReconcileFail(works)
      PROVE  OpenRowWhileCrawling'
  <2>1. (faults' = 0 => faults = 0) /\ site' = site /\ AtWork' = AtWork
    BY <1>6, CallType DEF ReconcileFail, AtWork
  <2>2. job[reconcile.current] = "gone" /\ job' = job
    BY <1>6 DEF ReconcileFail, ReconcileInv, cluster
  <2>3. \A j \in AtWork : row'[j] = row[j] \/ j = reconcile.current
    BY <1>6 DEF ReconcileFail, RowSetTo, AtWork
  <2> QED
    BY <1>1, <2>1, <2>2, <2>3
<1>7. ASSUME NEW works \in BOOLEAN, CancelFinish(works), faults' = 0
      PROVE  OpenRowWhileCrawling'
  <2>1. faults = 0 /\ site' = site /\ AtWork' = AtWork /\ job' = job
    BY <1>7, CallType DEF CancelFinish, AtWork, cluster
  <2>2. cancelling.target # NoJob => job[cancelling.target] = "gone"
    BY <1>7, <2>1 DEF CancelFinish, CancelInv
  <2>3. \A j \in AtWork :
           \/ row'[j] = row[j]
           \/ cancelling.target # NoJob /\ j = cancelling.target
    BY <1>7 DEF CancelFinish, RowSetTo, AtWork
  <2> QED
    BY <1>1, <2>1, <2>2, <2>3
<1>8. ASSUME NEW works \in BOOLEAN, DeleteSite(works)
      PROVE  OpenRowWhileCrawling'
  BY <1>8 DEF DeleteSite
<1>9. ASSUME faults' = 0 => faults = 0, row' = row, pod' = pod,
             site = "deleted" => site' = "deleted"
      PROVE  OpenRowWhileCrawling'
  BY <1>1, <1>9 DEF AtWork
<1>10. ASSUME \/ \E works \in BOOLEAN :
                    \/ PortalStarts(works)
                    \/ \E j \in Jobs : ReconcileCheck(j, works)
              \/ PortalServes \/ StartupLost \/ HandlersLost
       PROVE  OpenRowWhileCrawling'
  BY <1>9, <1>10, CallType DEF PortalStarts, ReconcileCheck, PortalServes,
     StartupLost, HandlersLost, crawls, bounds
<1>11. ASSUME NEW works \in BOOLEAN,
              \/ CancelRead(works) \/ CancelList(works) \/ TogglePause(works)
              \/ \E j \in Jobs : CancelDelete(j, works)
       PROVE  OpenRowWhileCrawling'
  BY <1>9, <1>11, CallType DEF CancelRead, CancelList, CancelDelete,
     TogglePause, crawls
<1>12. CASE UNCHANGED vars
  BY <1>9, <1>12 DEF vars, crawls, bounds
<1> QED
  BY <1>2, <1>3, <1>4, <1>5, <1>6, <1>7, <1>8, <1>10, <1>11, <1>12,
     <1>13
  DEF Next, Pod, ReconcileStep, Handlers

LEMMA InvStep == IInv /\ [Next]_vars => IInv'
BY TypeStep, JobInvStep, CronInvStep, ReconcileInvStep, CancelInvStep,
   OpenRowStep DEF IInv

LEMMA Invariance == Spec => []IInv
BY InvInit, InvStep, PTL DEF Spec

(***************************************************************************)
(* The properties.                                                         *)
(***************************************************************************)
\* However many Jobs there are, two crawls are at work at the same time only
\* when one was started by hand or its Job has been deleted.
THEOREM ScheduleNeverOverlaps == Spec => []OverlapNeedsManualOrDelete
<1>1. IInv => OverlapNeedsManualOrDelete
  <2> SUFFICES ASSUME IInv, NEW i \in AtWork, NEW j \in AtWork, i # j,
                      kind[i] # "manual", kind[j] # "manual"
               PROVE  job[i] = "gone" \/ job[j] = "gone"
    BY DEF OverlapNeedsManualOrDelete
  <2>1. i \in Jobs /\ j \in Jobs /\ pod[i] # "none" /\ pod[j] # "none"
    BY DEF AtWork
  <2>2. kind[i] = "cron" /\ kind[j] = "cron"
    BY <2>1 DEF IInv, TypeOK, Kinds
  <2>3. job[i] \in {"active", "gone"} /\ job[j] \in {"active", "gone"}
    BY <2>1 DEF IInv, TypeOK, JobStates, JobInv
  <2> QED
    BY <2>1, <2>2, <2>3 DEF IInv, CronInv
<1> QED
  BY <1>1, Invariance, PTL

\* As long as every call works, the row of a crawl at work is open unless its
\* Job has been deleted or its site has.
THEOREM RowStaysOpen == Spec => []OpenRowWhileCrawling
<1>1. IInv => OpenRowWhileCrawling
  BY DEF IInv
<1> QED
  BY <1>1, Invariance, PTL

\* However many Jobs there are and whatever fails, a row that says "running" is
\* that of a crawl at work or of a pod that ended without a word to its row.
THEOREM RunningIsAtWork == Spec => []RunningMeansAtWork
<1>1. ASSUME IInv, RunningMeansAtWork, [Next]_vars
      PROVE  RunningMeansAtWork'
  <2> USE <1>1 DEF IInv, TypeOK, RunningMeansAtWork, AtWork
  <2>1. ASSUME \A j \in Jobs : row'[j] \in {row[j], "absent"} \union Verdicts,
               AtWork \union silent \subseteq AtWork' \union silent'
        PROVE  RunningMeansAtWork'
    BY <2>1 DEF Verdicts
  <2>2. ASSUME NEW j \in Jobs, Cluster(j) \/ CrawlNow(j)
        PROVE  RunningMeansAtWork'
    <3>1. row' = row /\ silent \subseteq silent'
      BY <2>2 DEF Cluster, CronFires, JobFinishes, PodTerminates, PodKilled,
         EndsSilently, CrawlNow, crawls, bounds
    <3>2. CASE CronFires(j) \/ CrawlNow(j)
      <4>1. pod[j] = "none" /\ pod' = [pod EXCEPT ![j] = "starting"]
        BY <3>2 DEF CronFires, CrawlNow, NewJob, JobInv
      <4> QED
        BY <2>1, <3>1, <4>1
    <3>3. CASE JobFinishes(j) \/ PodTerminates(j) \/ PodKilled(j)
      BY <2>1, <3>1, <3>3 DEF JobFinishes, PodTerminates, PodKilled, EndsSilently
    <3> QED
      BY <2>2, <3>2, <3>3 DEF Cluster
  <2>3. ASSUME NEW j \in Jobs, StartCrawl(j) \/ StartUnheard(j)
        PROVE  RunningMeansAtWork'
    BY <2>3 DEF StartCrawl, StartUnheard, EndsSilently, bounds
  <2>4. ASSUME NEW j \in Jobs, StartFails(j)
        PROVE  RunningMeansAtWork'
    BY <2>1, <2>4 DEF StartFails, Call, crawls
  <2>5. ASSUME NEW j \in Jobs, NEW verdict \in Verdicts, NEW works \in BOOLEAN,
               CrawlEnds(j, verdict, works)
        PROVE  RunningMeansAtWork'
    <3>1. \A i \in Jobs : row'[i] = "running" =>
             row[i] = "running" /\ (i = j => j \in silent')
      BY <2>5 DEF CrawlEnds, FinishCrawl, RowSetTo, Verdicts
    <3>2. \A i \in Jobs \ {j} : i \in AtWork => i \in AtWork'
      BY <2>5 DEF CrawlEnds
    <3>3. silent \subseteq silent'
      BY <2>5 DEF CrawlEnds
    <3> QED
      BY <3>1, <3>2, <3>3
  <2>6. ASSUME NEW works \in BOOLEAN,
               \/ ReconcileFail(works) \/ CancelFinish(works)
               \/ DeleteSite(works)
        PROVE  RunningMeansAtWork'
    BY <2>1, <2>6 DEF ReconcileFail, CancelFinish, DeleteSite, RowSetTo,
       OrphanStatus, Verdicts, Call
  <2>7. ASSUME NEW works \in BOOLEAN,
               \/ PortalStarts(works) \/ CancelRead(works) \/ CancelList(works)
               \/ TogglePause(works)
               \/ \E i \in Jobs : ReconcileCheck(i, works) \/ CancelDelete(i, works)
        PROVE  RunningMeansAtWork'
    BY <2>1, <2>7 DEF PortalStarts, CancelRead, CancelList, TogglePause,
       ReconcileCheck, CancelDelete, Call, crawls
  <2>8. CASE PortalServes \/ StartupLost \/ HandlersLost \/ UNCHANGED vars
    BY <2>1, <2>8 DEF PortalServes, StartupLost, HandlersLost, vars, crawls, bounds
  <2> QED
    BY <2>2, <2>3, <2>4, <2>5, <2>6, <2>7, <2>8 DEF Next, Pod, ReconcileStep,
       Handlers
<1>2. Init => RunningMeansAtWork
  BY DEF Init, RunningMeansAtWork
<1> QED
  BY <1>1, <1>2, Invariance, PTL DEF Spec

\* A starting portal fails no row whose Job is active, whatever happens
\* between its three calls and whichever of them fail.
THEOREM ReconcileSpares == Spec => ReconcileSparesActiveJobs
<1> DEFINE Failed(j) == /\ row[j] = "running" /\ row'[j] = "failed"
                        /\ pod[j] = pod'[j]
<1>1. ASSUME IInv, [Next]_vars, NEW j \in Jobs, Failed(j)
      PROVE  job[j] # "active"
  <2> USE DEF IInv, TypeOK
  <2>1. CASE row' = row
    BY <1>1, <2>1
  <2>2. ASSUME NEW works \in BOOLEAN, ReconcileFail(works)
        PROVE  job[j] # "active"
    <3>1. j = reconcile.current
      BY <1>1, <2>2 DEF ReconcileFail, RowSetTo
    <3> QED
      BY <1>1, <2>2, <3>1 DEF ReconcileFail, ReconcileInv
  <2>3. ASSUME NEW works \in BOOLEAN, CancelFinish(works) \/ DeleteSite(works)
        PROVE  FALSE
    <3>1. CASE CancelFinish(works)
      <4>1. row'[j] = row[j] \/ row'[j] = "cancelled"
        BY <1>1, <3>1 DEF CancelFinish, RowSetTo
      <4> QED
        BY <1>1, <4>1
    <3>2. CASE DeleteSite(works)
      BY <1>1, <3>2 DEF DeleteSite
    <3> QED
      BY <2>3, <3>1, <3>2
  <2>4. ASSUME NEW i \in Jobs, Pod(i), row' # row
        PROVE  FALSE
    <3>1. CASE StartCrawl(i)
      BY <1>1, <3>1 DEF StartCrawl
    <3>2. CASE StartFails(i)
      BY <2>4, <3>2 DEF StartFails, crawls
    <3>4. CASE StartUnheard(i)
      BY <1>1, <3>4 DEF StartUnheard
    <3>3. ASSUME NEW verdict \in Verdicts, NEW works \in BOOLEAN,
                 CrawlEnds(i, verdict, works)
          PROVE  FALSE
      <4>1. pod'[i] # pod[i]
        BY <1>1, <3>3 DEF CrawlEnds, FinishCrawl, AtWork
      <4>2. i # j
        BY <1>1, <4>1
      <4>3. row'[j] = row[j]
        BY <1>1, <3>3, <4>2 DEF CrawlEnds, FinishCrawl, RowSetTo
      <4> QED
        BY <1>1, <4>3
    <3> QED
      BY <2>4, <3>1, <3>2, <3>3, <3>4 DEF Pod
  <2>5. ASSUME NEW i \in Jobs, Cluster(i) \/ CrawlNow(i)
        PROVE  row' = row
    BY <2>5 DEF Cluster, CronFires, JobFinishes, PodTerminates, PodKilled,
       EndsSilently, CrawlNow, crawls
  <2>6. ASSUME NEW works \in BOOLEAN,
               \/ PortalStarts(works) \/ CancelRead(works) \/ CancelList(works)
               \/ TogglePause(works)
               \/ \E i \in Jobs : ReconcileCheck(i, works) \/ CancelDelete(i, works)
        PROVE  row' = row
    BY <2>6 DEF PortalStarts, CancelRead, CancelList, TogglePause,
       ReconcileCheck, CancelDelete, crawls
  <2>7. CASE PortalServes \/ StartupLost \/ HandlersLost \/ UNCHANGED vars
    BY <2>1, <2>7 DEF PortalServes, StartupLost, HandlersLost, vars, crawls
  <2> QED
    BY <1>1, <2>1, <2>2, <2>3, <2>4, <2>5, <2>6, <2>7 DEF Next, ReconcileStep,
       Handlers
<1>2. IInv /\ [Next]_vars =>
         [\A j \in Jobs : Failed(j) => job[j] # "active"]_vars
  BY <1>1
<1> QED
  BY <1>2, Invariance, PTL DEF Spec, ReconcileSparesActiveJobs

(***************************************************************************)
(* Each Job, with its pod and its row, is a CrawlProcess.                  *)
(***************************************************************************)
\* A pod has no row before it has opened one.
StartInv == \A j \in Jobs : pod[j] \in {"none", "starting"} => row[j] = "absent"

PodStage(j) == IF pod[j] = "none" THEN "starting" ELSE pod[j]

\* What a step may do to one Job.
StepOf(j) == [Process(j)!Next]_(Process(j)!vars)

LEMMA Unmoved ==
    ASSUME NEW j \in Jobs, row'[j] = row[j], pod'[j] = pod[j]
    PROVE  StepOf(j)
BY DEF StepOf, Process!vars

LEMMA RowClosedByOthers ==
    ASSUME TypeOK, NEW j \in Jobs, pod'[j] = pod[j],
           NEW i, NEW status \in {"failed", "cancelled"}, row' = RowSetTo(i, status)
    PROVE  StepOf(j)
<1>1. CASE row[i] # "absent" /\ i = j
  <2>1. row'[j] = status /\ row[j] # "absent"
    BY <1>1 DEF RowSetTo, TypeOK
  <2>2. Process(j)!OthersClose
    BY <2>1 DEF Process!OthersClose
  <2> QED
    BY <2>2 DEF StepOf, Process!Next
<1>2. CASE ~(row[i] # "absent" /\ i = j)
  <2>1. row'[j] = row[j]
    BY <1>2 DEF RowSetTo, TypeOK
  <2> QED
    BY <2>1, Unmoved
<1> QED
  BY <1>1, <1>2

LEMMA ClusterStepOf ==
    ASSUME TypeOK, JobInv, NEW i \in Jobs, Cluster(i) \/ CrawlNow(i),
           NEW j \in Jobs
    PROVE  StepOf(j)
<1>1. CASE CronFires(i) \/ CrawlNow(i)
  <2>1. row' = row /\ pod[i] = "none" /\ pod' = [pod EXCEPT ![i] = "starting"]
    BY <1>1 DEF CronFires, CrawlNow, NewJob, crawls, JobInv
  <2>2. PodStage(j)' = PodStage(j)
    BY <2>1 DEF TypeOK, PodStage
  <2> QED
    BY <2>1, <2>2 DEF StepOf, Process!vars, PodStage
<1>2. CASE JobFinishes(i)
  BY <1>2, Unmoved DEF JobFinishes, crawls
<1>3. CASE PodTerminates(i)
  <2>1. row' = row /\ pod[i] = "crawling" /\ pod' = [pod EXCEPT ![i] = "stopping"]
    BY <1>3 DEF PodTerminates, crawls
  <2>2. CASE i = j
    <3>1. Process(j)!Stop
      BY <2>1, <2>2 DEF TypeOK, Process!Stop
    <3> QED
      BY <3>1 DEF StepOf, Process!Next
  <2>3. CASE i # j
    BY <2>1, <2>3, Unmoved DEF TypeOK
  <2> QED
    BY <2>2, <2>3
<1>4. CASE PodKilled(i)
  <2>1. /\ row' = row /\ pod[i] \in {"starting", "crawling", "stopping"}
        /\ pod' = [pod EXCEPT ![i] = "ended"]
    BY <1>4 DEF PodKilled, EndsSilently, crawls
  <2>2. CASE i = j
    <3>1. Process(j)!NeverStart \/ Process(j)!Die
      BY <2>1, <2>2 DEF TypeOK, Process!NeverStart, Process!Die, Process!AtWork
    <3> QED
      BY <3>1 DEF StepOf, Process!Next
  <2>3. CASE i # j
    BY <2>1, <2>3, Unmoved DEF TypeOK
  <2> QED
    BY <2>2, <2>3
<1> QED
  BY <1>1, <1>2, <1>3, <1>4 DEF Cluster

LEMMA PodStepOf ==
    ASSUME TypeOK, StartInv, NEW i \in Jobs, Pod(i), NEW j \in Jobs
    PROVE  StepOf(j)
<1>1. ASSUME i # j PROVE StepOf(j)
  <2>1. row'[j] = row[j] /\ pod'[j] = pod[j]
    <3>1. CASE StartCrawl(i) \/ StartFails(i)
      BY <1>1, <3>1 DEF StartCrawl, StartFails, crawls, TypeOK
    <3>2. CASE StartUnheard(i)
      BY <1>1, <3>2 DEF StartUnheard, EndsSilently, TypeOK
    <3>3. ASSUME NEW verdict \in Verdicts, NEW works \in BOOLEAN,
                 CrawlEnds(i, verdict, works)
          PROVE  row'[j] = row[j] /\ pod'[j] = pod[j]
      BY <1>1, <3>3 DEF CrawlEnds, FinishCrawl, RowSetTo, TypeOK
    <3> QED
      BY <3>1, <3>2, <3>3 DEF Pod
  <2> QED
    BY <2>1, Unmoved
<1>2. ASSUME i = j, StartCrawl(i) PROVE StepOf(j)
  <2>1. Process(j)!Start
    BY <1>2 DEF StartCrawl, StartInv, TypeOK, Process!Start
  <2> QED
    BY <2>1 DEF StepOf, Process!Next
<1>3. ASSUME i = j, StartFails(i) PROVE StepOf(j)
  <2>1. Process(j)!NeverStart
    BY <1>3 DEF StartFails, crawls, TypeOK, Process!NeverStart
  <2> QED
    BY <2>1 DEF StepOf, Process!Next
<1>5. ASSUME i = j, StartUnheard(i) PROVE StepOf(j)
  <2>1. Process(j)!StartUnheard
    BY <1>5 DEF StartUnheard, EndsSilently, StartInv, TypeOK, Process!StartUnheard
  <2> QED
    BY <2>1 DEF StepOf, Process!Next
<1>4. ASSUME i = j, NEW verdict \in Verdicts, NEW works \in BOOLEAN,
             CrawlEnds(i, verdict, works)
      PROVE  StepOf(j)
  <2>1. /\ pod[j] \in {"crawling", "stopping"} /\ pod'[j] = "ended"
        /\ verdict = "cancelled" => pod[j] = "stopping"
    BY <1>4 DEF CrawlEnds, FinishCrawl, AtWork, TypeOK
  <2>2. CASE works
    <3>1. row'[j] = IF row[j] = "absent" THEN "absent" ELSE verdict
      BY <1>4, <2>2 DEF CrawlEnds, FinishCrawl, RowSetTo, TypeOK
    <3>2. Process(j)!End(verdict)
      BY <2>1, <3>1 DEF Process!End, Process!AtWork
    <3> QED
      BY <1>4, <3>2 DEF StepOf, Process!Next, Verdicts
  <2>3. CASE ~works
    <3>1. Process(j)!Die
      BY <1>4, <2>1, <2>3 DEF CrawlEnds, FinishCrawl, Process!Die,
         Process!AtWork
    <3> QED
      BY <3>1 DEF StepOf, Process!Next
  <2> QED
    BY <2>2, <2>3
<1> QED
  BY <1>1, <1>2, <1>3, <1>4, <1>5 DEF Pod

LEMMA PortalStepOf ==
    ASSUME TypeOK, NEW j \in Jobs,
           \/ \E works \in BOOLEAN : PortalStarts(works)
           \/ ReconcileStep \/ StartupLost \/ Handlers \/ HandlersLost
    PROVE  StepOf(j)
<1>1. pod' = pod
  BY DEF PortalStarts, ReconcileStep, ReconcileCheck, ReconcileFail,
     PortalServes, StartupLost, Handlers, CancelRead, CancelList, CancelFinish,
     CancelDelete, TogglePause, DeleteSite, HandlersLost
<1>2. CASE row' = row
  BY <1>1, <1>2, Unmoved
<1>3. ASSUME NEW works \in BOOLEAN, ReconcileFail(works), row' # row
      PROVE  StepOf(j)
  <2>1. row' = RowSetTo(reconcile.current, "failed")
    BY <1>3 DEF ReconcileFail, OrphanStatus
  <2> QED
    BY <1>1, <2>1, RowClosedByOthers
<1>4. ASSUME NEW works \in BOOLEAN, CancelFinish(works), row' # row
      PROVE  StepOf(j)
  <2>1. row' = RowSetTo(cancelling.target, "cancelled")
    BY <1>4 DEF CancelFinish
  <2> QED
    BY <1>1, <2>1, RowClosedByOthers
<1>5. ASSUME NEW works \in BOOLEAN, DeleteSite(works) PROVE StepOf(j)
  <2>1. Process(j)!OthersRemove
    BY <1>1, <1>5 DEF DeleteSite, Process!OthersRemove
  <2> QED
    BY <2>1 DEF StepOf, Process!Next
<1> QED
  BY <1>2, <1>3, <1>4, <1>5 DEF PortalStarts, ReconcileStep, ReconcileCheck,
     PortalServes, StartupLost, Handlers, CancelRead, CancelList, CancelDelete,
     TogglePause, HandlersLost, crawls

LEMMA ProcessesInit == Init => StartInv /\ \A j \in Jobs : Process(j)!Init
BY DEF Init, StartInv, Process!Init

LEMMA ProcessesStep ==
    TypeOK /\ JobInv /\ StartInv /\ [Next]_vars => \A j \in Jobs : StepOf(j)
<1> SUFFICES ASSUME TypeOK, JobInv, StartInv, [Next]_vars, NEW j \in Jobs
             PROVE  StepOf(j)
  OBVIOUS
<1>1. CASE UNCHANGED vars
  BY <1>1, Unmoved DEF vars, crawls
<1> QED
  BY <1>1, ClusterStepOf, PodStepOf, PortalStepOf DEF Next

\* A process that has not opened its row has none: this follows from what
\* each Job does alone.
LEMMA StartStep ==
    TypeOK /\ StartInv /\ (\A j \in Jobs : StepOf(j)) => StartInv'
<1> SUFFICES ASSUME TypeOK, StartInv, \A j \in Jobs : StepOf(j), NEW j \in Jobs
             PROVE  pod'[j] \in {"none", "starting"} => row'[j] = "absent"
  BY DEF StartInv
<1>1. PodStage(j) = "starting" => row[j] = "absent"
  BY DEF StartInv, PodStage
<1>2. StepOf(j)
  OBVIOUS
<1>3. PodStage(j)' = "starting" => row'[j] = "absent"
  BY <1>1, <1>2 DEF StepOf, PodStage, Process!vars, Process!Next, Process!Start,
     Process!StartUnheard, Process!NeverStart, Process!Stop, Process!End,
     Process!Die, Process!OthersClose, Process!OthersRemove, Process!AtWork
<1> QED
  BY <1>3 DEF PodStage

\* For any number of Jobs, kills and failures: a row is opened by its own pod
\* and once, only that pod says "ok", and no row comes back that was removed.
THEOREM JobsAreProcesses == Spec => EachJobIsAProcess
<1>1. IInv /\ StartInv /\ [Next]_vars => StartInv'
  BY ProcessesStep, StartStep DEF IInv
<1>2. IInv /\ StartInv /\ [Next]_vars =>
         [\A j \in Jobs : [Process(j)!Next]_(Process(j)!vars)]_vars
  BY ProcessesStep DEF IInv, StepOf
<1> QED
  BY <1>1, <1>2, ProcessesInit, Invariance, PTL DEF Spec, EachJobIsAProcess

(***************************************************************************)
(* To those who share the mirror, the crawls are SiteCrawls.               *)
(***************************************************************************)
NewestIsOpen == latest # NoJob /\ row[latest] = "running"

Seen == INSTANCE SiteCrawls WITH
            Crawls <- Jobs, working <- AtWork, open <- NewestIsOpen

SeenStep == [Seen!Next]_(Seen!vars)

LEMMA NoneIsNoJob == NoJob \notin Jobs
BY JobAssumption DEF JobAssumption

LEMMA NothingSeen ==
    ASSUME AtWork' = AtWork, NewestIsOpen' = NewestIsOpen PROVE SeenStep
BY DEF SeenStep, Seen!vars

\* The pods stay where they are and no row is opened.
LEMMA RowsSeen ==
    ASSUME pod' = pod, NewestIsOpen' => NewestIsOpen PROVE SeenStep
<1>1. AtWork' = AtWork
  BY DEF AtWork
<1>2. NewestIsOpen \in BOOLEAN /\ NewestIsOpen' \in BOOLEAN
  BY DEF NewestIsOpen
<1>3. CASE NewestIsOpen' = NewestIsOpen
  BY <1>1, <1>3, NothingSeen
<1>4. CASE NewestIsOpen /\ NewestIsOpen' = FALSE
  BY <1>1, <1>4 DEF SeenStep, Seen!Next, Seen!RowClosed
<1> QED
  BY <1>2, <1>3, <1>4

\* One that was at work has ended.
LEMMA EndSeen ==
    ASSUME TypeOK, NEW j \in Jobs, j \in AtWork,
           pod' = [pod EXCEPT ![j] = "ended"], NewestIsOpen' => NewestIsOpen
    PROVE  SeenStep
<1>1. AtWork' = AtWork \ {j}
  BY DEF TypeOK, AtWork
<1>2. NewestIsOpen' \in {NewestIsOpen, FALSE}
  BY DEF NewestIsOpen
<1>3. Seen!End(j)
  BY <1>1, <1>2 DEF Seen!End
<1> QED
  BY <1>3 DEF SeenStep, Seen!Next

LEMMA RowSetToSeen ==
    ASSUME TypeOK, NEW i, NEW status \in Verdicts, latest' = latest,
           row' = RowSetTo(i, status)
    PROVE  NewestIsOpen' => NewestIsOpen
<1>1. CASE latest = NoJob
  BY <1>1 DEF NewestIsOpen
<1>2. CASE latest # NoJob
  <2>1. latest \in Jobs
    BY <1>2 DEF TypeOK, JobOrNone
  <2>2. row'[latest] \in {row[latest], status}
    BY <2>1 DEF TypeOK, RowSetTo
  <2> QED
    BY <1>2, <2>2 DEF NewestIsOpen, Verdicts
<1> QED
  BY <1>1, <1>2

LEMMA ClusterSeen ==
    ASSUME TypeOK, JobInv, NEW j \in Jobs, Cluster(j) \/ CrawlNow(j)
    PROVE  SeenStep
<1>1. NewestIsOpen' = NewestIsOpen
  BY DEF Cluster, CronFires, JobFinishes, PodTerminates, PodKilled,
     EndsSilently, CrawlNow, crawls, NewestIsOpen
<1>2. CASE \/ CronFires(j) \/ CrawlNow(j) \/ JobFinishes(j)
           \/ PodTerminates(j) \/ (PodKilled(j) /\ j \notin AtWork)
  <2>1. AtWork' = AtWork
    BY <1>2 DEF CronFires, CrawlNow, NewJob, JobFinishes, PodTerminates,
       PodKilled, EndsSilently, AtWork, TypeOK, JobInv
  <2> QED
    BY <1>1, <2>1, NothingSeen
<1>3. CASE PodKilled(j) /\ j \in AtWork
  BY <1>1, <1>3, EndSeen DEF PodKilled, EndsSilently
<1> QED
  BY <1>2, <1>3 DEF Cluster

LEMMA PodSeen == ASSUME TypeOK, NEW j \in Jobs, Pod(j) PROVE SeenStep
<1>1. CASE StartCrawl(j)
  <2>1. j \notin AtWork /\ AtWork' = AtWork \union {j}
    BY <1>1 DEF StartCrawl, AtWork, TypeOK
  <2>2. NewestIsOpen' = TRUE
    BY <1>1, NoneIsNoJob DEF StartCrawl, NewestIsOpen, TypeOK
  <2>3. Seen!Start(j)
    BY <2>1, <2>2 DEF Seen!Start
  <2> QED
    BY <2>3 DEF SeenStep, Seen!Next
<1>2. CASE StartFails(j)
  <2>1. AtWork' = AtWork /\ NewestIsOpen' = NewestIsOpen
    BY <1>2 DEF StartFails, AtWork, TypeOK, NewestIsOpen, crawls
  <2> QED
    BY <2>1, NothingSeen
<1>3. ASSUME NEW verdict \in Verdicts, NEW works \in BOOLEAN,
             CrawlEnds(j, verdict, works)
      PROVE  SeenStep
  <2>1. NewestIsOpen' => NewestIsOpen
    <3>1. CASE works
      BY <1>3, <3>1, RowSetToSeen DEF CrawlEnds, FinishCrawl
    <3>2. CASE ~works
      BY <1>3, <3>2 DEF CrawlEnds, FinishCrawl, NewestIsOpen
    <3> QED
      BY <3>1, <3>2
  <2> QED
    BY <1>3, <2>1, EndSeen DEF CrawlEnds, FinishCrawl
<1>4. CASE StartUnheard(j)
  <2>1. AtWork' = AtWork
    BY <1>4 DEF StartUnheard, EndsSilently, AtWork, TypeOK
  <2>2. NewestIsOpen' = TRUE
    BY <1>4, NoneIsNoJob DEF StartUnheard, NewestIsOpen, TypeOK
  <2>3. Seen!RowOpened
    BY <2>1, <2>2 DEF Seen!RowOpened
  <2> QED
    BY <2>3 DEF SeenStep, Seen!Next
<1> QED
  BY <1>1, <1>2, <1>3, <1>4 DEF Pod

LEMMA PortalSeen ==
    ASSUME TypeOK,
           \/ \E works \in BOOLEAN : PortalStarts(works)
           \/ ReconcileStep \/ StartupLost \/ Handlers \/ HandlersLost
    PROVE  SeenStep
<1>1. pod' = pod
  BY DEF PortalStarts, ReconcileStep, ReconcileCheck, ReconcileFail,
     PortalServes, StartupLost, Handlers, CancelRead, CancelList, CancelFinish,
     CancelDelete, TogglePause, DeleteSite, HandlersLost
<1>2. CASE crawls' = crawls
  BY <1>1, <1>2, RowsSeen DEF crawls, NewestIsOpen
<1>3. ASSUME NEW works \in BOOLEAN, ReconcileFail(works) PROVE SeenStep
  <2>1. CASE works
    BY <1>1, <1>3, <2>1, RowSetToSeen, RowsSeen DEF ReconcileFail, OrphanStatus,
       Verdicts
  <2>2. CASE ~works
    BY <1>1, <1>3, <2>2, RowsSeen DEF ReconcileFail, NewestIsOpen
  <2> QED
    BY <2>1, <2>2
<1>4. ASSUME NEW works \in BOOLEAN, CancelFinish(works) PROVE SeenStep
  <2>1. CASE works /\ cancelling.target # NoJob
    BY <1>1, <1>4, <2>1, RowSetToSeen, RowsSeen DEF CancelFinish, Verdicts
  <2>2. CASE ~(works /\ cancelling.target # NoJob)
    BY <1>1, <1>4, <2>2, RowsSeen DEF CancelFinish, NewestIsOpen
  <2> QED
    BY <2>1, <2>2
<1>5. ASSUME NEW works \in BOOLEAN, DeleteSite(works) PROVE SeenStep
  BY <1>1, <1>5, RowsSeen DEF DeleteSite, NewestIsOpen
<1> QED
  BY <1>2, <1>3, <1>4, <1>5 DEF PortalStarts, ReconcileStep, ReconcileCheck,
     PortalServes, StartupLost, Handlers, CancelRead, CancelList, CancelDelete,
     TogglePause, HandlersLost, crawls

\* For any number of Jobs, kills and failures: the crawls of a site do what
\* MirrorFiles lets its crawls do, and their newest row what it takes it for.
THEOREM LifecycleIsSiteCrawls == Spec => Seen!Spec
<1>1. Init => Seen!Init
  BY DEF Init, Seen!Init, AtWork, NewestIsOpen
<1>2. IInv /\ [Next]_vars => SeenStep
  <2> SUFFICES ASSUME IInv, [Next]_vars PROVE SeenStep
    OBVIOUS
  <2>1. TypeOK /\ JobInv
    BY DEF IInv
  <2>2. CASE UNCHANGED vars
    BY <2>2, NothingSeen DEF vars, crawls, AtWork, NewestIsOpen
  <2> QED
    BY <2>1, <2>2, ClusterSeen, PodSeen, PortalSeen DEF Next
<1>3. IInv /\ [Next]_vars => [Seen!Next]_(Seen!vars)
  BY <1>2 DEF SeenStep
<1> QED
  BY <1>1, <1>3, Invariance, PTL DEF Spec, Seen!Spec

(***************************************************************************)
(* One crawl at a time, by the schedule alone.                             *)
(***************************************************************************)
\* Nobody asks for a crawl, and none is cancelled.
ScheduleOnly == \A j \in Jobs : ~CrawlNow(j) /\ ~CancelDelete(j, TRUE)

LivePods == {"starting", "crawling", "stopping"}

\* While there is a site the pods that live are those of active Jobs, of which
\* Forbid lets the CronJob have one; afterwards no crawl starts.
AloneInv ==
    /\ \A j \in Jobs : job[j] # "none" => kind[j] = "cron"
    /\ site # "deleted" =>
          \A j \in Jobs : pod[j] \in LivePods => job[j] = "active"
    /\ \A i, j \in AtWork : i = j

LEMMA AloneInit == Init => AloneInv
BY DEF Init, AloneInv, LivePods, AtWork

\* A step that starts no pod and no crawl and deletes no Job.
LEMMA StillAlone ==
    ASSUME AloneInv, UNCHANGED <<job, kind>>, site' = "deleted" => site = "deleted",
           site = "deleted" => site' = "deleted",
           \A j \in Jobs : pod'[j] = pod[j] \/ pod'[j] = "ended"
                           \/ (pod[j] = "crawling" /\ pod'[j] = "stopping")
    PROVE  AloneInv'
<1>1. AtWork' \subseteq AtWork
  BY DEF AtWork
<1> QED
  BY <1>1 DEF AloneInv, LivePods

LEMMA AloneStep ==
    TypeOK /\ JobInv /\ CronInv /\ AloneInv /\ [ScheduleOnly]_vars /\ [Next]_vars
    => AloneInv'
<1> SUFFICES ASSUME TypeOK, JobInv, CronInv, AloneInv, [ScheduleOnly]_vars,
                    [Next]_vars
             PROVE  AloneInv'
  OBVIOUS
<1>1. CASE UNCHANGED vars
  BY <1>1, StillAlone DEF vars, cluster
<1>2. ASSUME NEW j \in Jobs, CronFires(j) PROVE AloneInv'
  <2>1. /\ site' = site /\ pod[j] = "none"
        /\ kind' = [kind EXCEPT ![j] = "cron"]
        /\ job' = [job EXCEPT ![j] = "active"]
        /\ pod' = [pod EXCEPT ![j] = "starting"]
    BY <1>2 DEF CronFires, NewJob, JobInv
  <2>2. AtWork' = AtWork
    BY <2>1 DEF AtWork, TypeOK
  <2> QED
    BY <2>1, <2>2 DEF AloneInv, LivePods, TypeOK
<1>3. ASSUME NEW j \in Jobs, JobFinishes(j) PROVE AloneInv'
  <2>1. /\ UNCHANGED <<site, kind, pod>> /\ job[j] = "active" /\ pod[j] = "ended"
        /\ job' = [job EXCEPT ![j] = "gone"]
    BY <1>3 DEF JobFinishes
  <2>2. AtWork' = AtWork
    BY <2>1 DEF AtWork
  <2> QED
    BY <2>1, <2>2 DEF AloneInv, LivePods, TypeOK
<1>4. ASSUME NEW j \in Jobs,
             \/ PodTerminates(j) \/ PodKilled(j) \/ StartFails(j)
             \/ StartUnheard(j)
      PROVE  AloneInv'
  BY <1>4, StillAlone DEF PodTerminates, PodKilled, EndsSilently, StartFails,
     StartUnheard, cluster, TypeOK
<1>5. ASSUME NEW j \in Jobs, NEW verdict \in Verdicts, NEW works \in BOOLEAN,
             CrawlEnds(j, verdict, works)
      PROVE  AloneInv'
  BY <1>5, StillAlone DEF CrawlEnds, FinishCrawl, cluster, TypeOK
<1>6. ASSUME NEW j \in Jobs, StartCrawl(j) PROVE AloneInv'
  <2>1. /\ UNCHANGED <<site, job, kind>> /\ site # "deleted"
        /\ pod[j] = "starting" /\ pod' = [pod EXCEPT ![j] = "crawling"]
    BY <1>6 DEF StartCrawl, cluster
  <2>2. \A i \in Jobs : pod[i] \in LivePods => i = j
    BY <2>1 DEF AloneInv, CronInv, LivePods
  <2>3. AtWork' = {j}
    BY <2>1, <2>2 DEF AtWork, LivePods, TypeOK
  <2> QED
    BY <2>1, <2>3 DEF AloneInv, LivePods, TypeOK
<1>7. ASSUME NEW j \in Jobs, CrawlNow(j) PROVE AloneInv'
  <2>1. ~ScheduleOnly
    BY <1>7 DEF ScheduleOnly
  <2> QED
    BY <1>1, <2>1
<1>8. ASSUME NEW j \in Jobs, NEW works \in BOOLEAN, CancelDelete(j, works)
      PROVE  AloneInv'
  <2>1. CASE works
    <3>1. ~ScheduleOnly
      BY <1>8, <2>1 DEF ScheduleOnly
    <3> QED
      BY <1>1, <3>1
  <2>2. CASE ~works
    BY <1>8, <2>2, StillAlone DEF CancelDelete
  <2> QED
    BY <2>1, <2>2
<1>9. ASSUME NEW works \in BOOLEAN, TogglePause(works) PROVE AloneInv'
  BY <1>9, StillAlone DEF TogglePause
<1>10. ASSUME NEW works \in BOOLEAN, DeleteSite(works) PROVE AloneInv'
  <2>1. /\ site' = "deleted" /\ kind' = kind /\ pod' = pod
        /\ \A j \in Jobs : job'[j] # "none" => job[j] # "none"
    BY <1>10 DEF DeleteSite, AloneInv, JobInv
  <2> QED
    BY <2>1 DEF AloneInv, AtWork
<1>11. CASE \/ \E works \in BOOLEAN :
                  \/ PortalStarts(works) \/ CancelRead(works)
                  \/ CancelList(works) \/ CancelFinish(works)
            \/ ReconcileStep \/ StartupLost \/ HandlersLost
  <2>1. UNCHANGED <<site, job, kind, pod>>
    BY <1>11 DEF PortalStarts, CancelRead, CancelList, CancelFinish,
       ReconcileStep, ReconcileCheck, ReconcileFail, PortalServes, StartupLost,
       HandlersLost, cluster
  <2> QED
    BY <2>1, StillAlone
<1> QED
  BY <1>1, <1>2, <1>3, <1>4, <1>5, <1>6, <1>7, <1>8, <1>9, <1>10, <1>11 DEF
     Next, Cluster, Pod, Handlers

\* What README.md says of a site, and Crawl now and Cancel break: as long as
\* nobody asks for a crawl or cancels one there is one crawl at a time, for any
\* number of Jobs, whatever dies, fails, is paused or deleted.
THEOREM OneCrawlAtATime ==
    Spec /\ [][ScheduleOnly]_vars => []NoOverlappingCrawls
<1>1. /\ IInv /\ AloneInv /\ [ScheduleOnly]_vars /\ [Next]_vars
      => AloneInv'
  BY AloneStep DEF IInv
<1>2. AloneInv => NoOverlappingCrawls
  <2> SUFFICES ASSUME AloneInv PROVE Cardinality(AtWork) <= 1
    BY DEF NoOverlappingCrawls
  <2>1. CASE AtWork = {}
    <3>1. Cardinality(AtWork) = 0
      BY <2>1, FS_EmptySet
    <3> QED
      BY <3>1
  <2>2. CASE AtWork # {}
    <3>1. PICK j \in AtWork : TRUE
      BY <2>2
    <3>2. AtWork = {j}
      BY <3>1 DEF AloneInv
    <3>3. Cardinality({j}) = 1
      BY FS_Singleton
    <3> QED
      BY <3>2, <3>3
  <2> QED
    BY <2>1, <2>2
<1> QED
  BY <1>1, <1>2, AloneInit, Invariance, PTL DEF Spec
=============================================================================
