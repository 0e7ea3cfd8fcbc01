--------------------------- MODULE CrawlLifecycle ---------------------------
(***************************************************************************)
(* The crawls of one site as the portal, the cluster and the crawler pods  *)
(* see them: the admin handlers (internal/web/handlers_admin.go), the      *)
(* reconcile pass of a starting portal (cmd/grabr/serve.go), the crawls    *)
(* table (internal/store/store.go) and the Jobs the portal makes and       *)
(* deletes (internal/k8s/client.go).                                       *)
(*                                                                         *)
(* backoffLimit 0 and restartPolicy Never give a Job one pod, and a pod    *)
(* runs `grabr crawl` once: at most one crawls row.  Job, pod and row      *)
(* therefore share one identity.  What runs inside a crawl is Crawl.       *)
(* The Deployment of the portal is a rolling one: a new portal reconciles  *)
(* while handlers of the old one are still at work.                        *)
(*                                                                         *)
(* External: the CronJob and Job controllers, garbage collection and the   *)
(* kubelet of Kubernetes, as the manifests and the client rely on them.    *)
(***************************************************************************)
EXTENDS Integers, FiniteSets

CONSTANTS
    Jobs,       \* every Job the site can ever get
    Lookups,    \* what becomes of the lookup of active Jobs
    MaxSilent,  \* bound on pods that end without a word, their calls apart
    MaxFaults   \* bound on API and database calls that fail

NoJob == "no job"

ASSUME JobAssumption ==
    /\ IsFiniteSet(Jobs) /\ NoJob \notin Jobs
    /\ Lookups \subseteq {"served", "refused"}
    /\ MaxSilent \in Nat /\ MaxFaults \in Nat

VARIABLES
    site,         \* the sites row: "enabled", "paused", "deleted"
    cron,         \* the CronJob: "scheduled", "suspended", "deleted"
    job,          \* [Jobs -> JobStates]; "gone" is finished or deleted
    kind,         \* [Jobs -> Kinds], who made the Job
    pod,          \* [Jobs -> PodStates]; "stopping" has received SIGTERM
    row,          \* [Jobs -> RowStates], the crawls row of the Job's pod
    latest,       \* the row with the greatest started_at
    reconcile,    \* the portal that is starting
    cancelling,   \* handleAdminSiteCancel
    silent,       \* history: Jobs whose pods ended without a word to the row
    faults

cluster == <<cron, job, kind>>
crawls == <<row, latest>>
bounds == <<silent, faults>>
vars == <<site, cluster, pod, crawls, reconcile, cancelling, bounds>>

JobStates == {"none", "active", "gone"}
Kinds == {"cron", "manual"}
PodStates == {"none", "starting", "crawling", "stopping", "ended"}
Verdicts == {"ok", "failed", "cancelled"}
RowStates == {"absent", "running"} \union Verdicts
JobOrNone == Jobs \union {NoJob}

TypeOK ==
    /\ site \in {"enabled", "paused", "deleted"}
    /\ cron \in {"scheduled", "suspended", "deleted"}
    /\ job \in [Jobs -> JobStates] /\ kind \in [Jobs -> Kinds]
    /\ pod \in [Jobs -> PodStates]
    /\ row \in [Jobs -> RowStates] /\ latest \in JobOrNone
    /\ reconcile \in [pc : {"off", "check", "fail"},
                      todo : SUBSET Jobs, current : JobOrNone]
    /\ cancelling \in [pc : {"idle", "list", "delete"},
                       target : JobOrNone, victims : SUBSET Jobs]
    /\ silent \subseteq Jobs /\ faults \in 0 .. MaxFaults

ReconcileOff == [pc |-> "off", todo |-> {}, current |-> NoJob]
CancelIdle == [pc |-> "idle", target |-> NoJob, victims |-> {}]

Init ==
    /\ \/ site = "enabled" /\ cron = "scheduled"
       \/ site = "paused" /\ cron = "suspended"
    /\ job = [j \in Jobs |-> "none"] /\ kind = [j \in Jobs |-> "manual"]
    /\ pod = [j \in Jobs |-> "none"]
    /\ row = [j \in Jobs |-> "absent"] /\ latest = NoJob
    /\ reconcile = ReconcileOff /\ cancelling = CancelIdle
    /\ silent = {} /\ faults = 0

Fault(works) ==
    /\ faults' = IF works THEN faults ELSE faults + 1
    /\ faults' <= MaxFaults

\* A call of the API server or of the database.
Call(works) == Fault(works) /\ UNCHANGED silent

\* The pod ends, and its row stays as it is.
EndsSilently(j) ==
    /\ pod' = [pod EXCEPT ![j] = "ended"]
    /\ Cardinality(silent) < MaxSilent /\ silent' = silent \union {j}

(***************************************************************************)
(* The cluster.                                                            *)
(***************************************************************************)
\* Faulty: concurrencyPolicy Allow.
AllowConcurrent == TRUE

\* concurrencyPolicy Forbid: the CronJob has no active Job of its own.
MayFire == \A j \in Jobs : kind[j] = "cron" => job[j] # "active"

NewJob(j, k) ==
    /\ job[j] = "none"
    /\ job' = [job EXCEPT ![j] = "active"]
    /\ kind' = [kind EXCEPT ![j] = k]
    /\ pod' = [pod EXCEPT ![j] = "starting"]

CronFires(j) ==
    /\ cron = "scheduled" /\ MayFire
    /\ NewJob(j, "cron")
    /\ UNCHANGED <<site, cron, crawls, reconcile, cancelling, bounds>>

AtWork == {j \in Jobs : pod[j] \in {"crawling", "stopping"}}

\* A Job is active until its pod has ended, and a while longer.
JobFinishes(j) ==
    /\ job[j] = "active" /\ pod[j] = "ended"
    /\ job' = [job EXCEPT ![j] = "gone"]
    /\ UNCHANGED <<site, cron, kind, pod, crawls, reconcile, cancelling, bounds>>

\* The pod of a deleted Job is terminated in the background.
PodTerminates(j) ==
    /\ job[j] = "gone" /\ pod[j] = "crawling"
    /\ pod' = [pod EXCEPT ![j] = "stopping"]
    /\ UNCHANGED <<site, cluster, crawls, reconcile, cancelling, bounds>>

\* SIGKILL, out of memory, the node is lost.
PodKilled(j) ==
    /\ pod[j] \in {"starting", "crawling", "stopping"}
    /\ EndsSilently(j)
    /\ UNCHANGED <<site, cluster, crawls, reconcile, cancelling, faults>>

(***************************************************************************)
(* The crawler pod: runCrawl up to StartCrawl, and Run's FinishCrawl.      *)
(***************************************************************************)
\* started_at grows with every row.
StartCrawl(j) ==
    /\ pod[j] = "starting" /\ site # "deleted"
    /\ pod' = [pod EXCEPT ![j] = "crawling"]
    /\ row' = [row EXCEPT ![j] = "running"] /\ latest' = j
    /\ UNCHANGED <<site, cluster, reconcile, cancelling, bounds>>

\* SIGTERM, or a failure, between the INSERT and its answer: the pod gives up
\* and leaves the row that it has opened.
StartUnheard(j) ==
    /\ pod[j] = "starting" /\ site # "deleted"
    /\ Fault(job[j] = "gone")
    /\ EndsSilently(j)
    /\ row' = [row EXCEPT ![j] = "running"] /\ latest' = j
    /\ UNCHANGED <<site, cluster, reconcile, cancelling>>

\* No row: SIGTERM is there first, GetSite finds no site, or a call fails.
StartFails(j) ==
    /\ pod[j] = "starting"
    /\ Call(job[j] = "gone" \/ site = "deleted")
    /\ pod' = [pod EXCEPT ![j] = "ended"]
    /\ UNCHANGED <<site, cluster, crawls, reconcile, cancelling>>

\* Faulty: FinishCrawl inserts the row if there is none.
RowSetOrInserted(j, status) == [row EXCEPT ![j] = status]

\* UPDATE of a row that DeleteSite's cascade has removed changes nothing.
RowSetTo(j, status) ==
    IF row[j] = "absent" THEN row ELSE [row EXCEPT ![j] = status]

\* Faulty: FinishCrawl is called with the ctx that SIGTERM has ended.
FinishCrawlWithCtx(j, verdict, works) ==
    IF works /\ pod[j] # "stopping" THEN RowSetTo(j, verdict) ELSE row

FinishCrawl(j, verdict, works) == IF works THEN RowSetTo(j, verdict) ELSE row

\* Only a crawl that was told to stop is "cancelled" (ExitClosesRow of Crawl).
CrawlEnds(j, verdict, works) ==
    /\ j \in AtWork
    /\ verdict = "cancelled" => pod[j] = "stopping"
    /\ pod' = [pod EXCEPT ![j] = "ended"]
    /\ Fault(works)
    /\ silent' = IF works THEN silent ELSE silent \union {j}
    /\ row' = FinishCrawl(j, verdict, works)
    /\ UNCHANGED <<site, cluster, latest, reconcile, cancelling>>

(***************************************************************************)
(* reconcileRunningCrawls, before a new portal serves.                     *)
(***************************************************************************)
RunningRows == {j \in Jobs : row[j] = "running"}

\* ListRunningCrawls; if it fails the portal serves without a pass.
PortalStarts(works) ==
    /\ reconcile.pc = "off"
    /\ Call(works)
    /\ reconcile' = IF works THEN [reconcile EXCEPT !.pc = "check",
                                                    !.todo = RunningRows]
                    ELSE reconcile
    /\ UNCHANGED <<site, cluster, pod, crawls, cancelling>>

\* Faulty: the Jobs of the CronJob do not carry the label that is asked for.
HasRunningManualJob == \E j \in Jobs : kind[j] = "manual" /\ job[j] = "active"

\* Any Job of the site counts, not only the one the row belongs to.
HasRunningJob == \E j \in Jobs : job[j] = "active"

\* The lookup selects Jobs by status.active>0, which Kubernetes refuses to do;
\* an error of any kind leaves the row alone.
ReconcileCheck(j, works) ==
    /\ reconcile.pc = "check" /\ j \in reconcile.todo
    /\ Call(works)
    /\ \E lookup \in Lookups :
          LET left == [reconcile EXCEPT !.todo = @ \ {j}]
              orphan == works /\ lookup = "served" /\ ~HasRunningJob IN
          reconcile' = IF orphan
                       THEN [left EXCEPT !.pc = "fail", !.current = j] ELSE left
    /\ UNCHANGED <<site, cluster, pod, crawls, cancelling>>

\* Faulty: a status that nothing else knows.
InterruptedStatus == "interrupted"

OrphanStatus == "failed"

\* FinishCrawl, whatever the row has become since it was listed.
ReconcileFail(works) ==
    /\ reconcile.pc = "fail"
    /\ Call(works)
    /\ row' = IF works THEN RowSetTo(reconcile.current, OrphanStatus) ELSE row
    /\ reconcile' = [reconcile EXCEPT !.pc = "check", !.current = NoJob]
    /\ UNCHANGED <<site, cluster, pod, latest, cancelling>>

PortalServes ==
    /\ reconcile.pc = "check" /\ reconcile.todo = {}
    /\ reconcile' = ReconcileOff
    /\ UNCHANGED <<site, cluster, pod, crawls, cancelling, bounds>>

(***************************************************************************)
(* The admin handlers.  Lookups and writes are calls of their own, and     *)
(* nothing keeps other handlers, portals or pods out in between.           *)
(***************************************************************************)
CrawlNow(j) ==
    /\ site # "deleted"
    /\ NewJob(j, "manual")
    /\ UNCHANGED <<site, cron, crawls, reconcile, cancelling, bounds>>

\* LatestCrawlForSite; an error counts as no row.
LatestRunning(works) == works /\ latest # NoJob /\ row[latest] = "running"

CancelRead(works) ==
    /\ site # "deleted" /\ cancelling.pc = "idle"
    /\ Call(works)
    /\ cancelling' = [cancelling EXCEPT
          !.pc = "list",
          !.target = IF LatestRunning(works) THEN latest ELSE NoJob]
    /\ UNCHANGED <<site, cluster, pod, crawls, reconcile>>

\* Faulty: the Jobs of the CronJob do not carry the label that is asked for.
ManualJobs == {j \in Jobs : kind[j] = "manual" /\ job[j] = "active"}

\* Finished Jobs are listed too, and deleted without effect.
JobsByLabel == {j \in Jobs : job[j] = "active"}

CancelList(works) ==
    /\ cancelling.pc = "list"
    /\ Call(works)
    /\ cancelling' = [cancelling EXCEPT
          !.pc = "delete", !.victims = IF works THEN JobsByLabel ELSE {}]
    /\ UNCHANGED <<site, cluster, pod, crawls, reconcile>>

\* DeleteJob of one listed Job; the first error ends the loop.
CancelDelete(j, works) ==
    /\ cancelling.pc = "delete" /\ j \in cancelling.victims
    /\ Call(works)
    /\ job' = IF works THEN [job EXCEPT ![j] = "gone"] ELSE job
    /\ cancelling' = [cancelling EXCEPT
          !.victims = IF works THEN @ \ {j} ELSE {}]
    /\ UNCHANGED <<site, cron, kind, pod, crawls, reconcile>>

CancelFinish(works) ==
    /\ cancelling.pc = "delete" /\ cancelling.victims = {}
    /\ Call(works)
    /\ row' = IF works /\ cancelling.target # NoJob
              THEN RowSetTo(cancelling.target, "cancelled") ELSE row
    /\ cancelling' = CancelIdle
    /\ UNCHANGED <<site, cluster, pod, latest, reconcile>>

\* UpdateSite, then SuspendCronJob.
TogglePause(works) ==
    /\ site # "deleted"
    /\ site' = IF site = "enabled" THEN "paused" ELSE "enabled"
    /\ Call(works)
    /\ cron' = IF ~works THEN cron
               ELSE IF site' = "enabled" THEN "scheduled" ELSE "suspended"
    /\ UNCHANGED <<job, kind, pod, crawls, reconcile, cancelling>>

\* The rows go with the site.  DeleteCronJob takes the Jobs that the CronJob
\* made with it, but not those made by hand.
DeleteSite(works) ==
    /\ site # "deleted" /\ site' = "deleted"
    /\ row' = [j \in Jobs |-> "absent"] /\ latest' = NoJob
    /\ Call(works)
    /\ cron' = IF works THEN "deleted" ELSE cron
    /\ job' = [j \in Jobs |-> IF works /\ kind[j] = "cron" THEN "gone"
                             ELSE job[j]]
    /\ UNCHANGED <<kind, pod, reconcile, cancelling>>

\* A portal dies, or is shut down before a handler is through.
HandlersLost ==
    /\ cancelling' = CancelIdle
    /\ UNCHANGED <<site, cluster, pod, crawls, reconcile, bounds>>

StartupLost ==
    /\ reconcile' = ReconcileOff
    /\ UNCHANGED <<site, cluster, pod, crawls, cancelling, bounds>>

(***************************************************************************)
(* Specification.                                                          *)
(***************************************************************************)
Pod(j) ==
    \/ StartCrawl(j) \/ StartUnheard(j) \/ StartFails(j)
    \/ \E verdict \in Verdicts, works \in BOOLEAN : CrawlEnds(j, verdict, works)

Cluster(j) == CronFires(j) \/ JobFinishes(j) \/ PodTerminates(j) \/ PodKilled(j)

ReconcileStep ==
    \/ \E works \in BOOLEAN :
          (\E j \in Jobs : ReconcileCheck(j, works)) \/ ReconcileFail(works)
    \/ PortalServes

Handlers ==
    \E works \in BOOLEAN :
       \/ CancelRead(works) \/ CancelList(works) \/ CancelFinish(works)
       \/ \E j \in Jobs : CancelDelete(j, works)
       \/ TogglePause(works) \/ DeleteSite(works)

Next ==
    \/ \E j \in Jobs : Cluster(j) \/ Pod(j) \/ CrawlNow(j)
    \/ \E works \in BOOLEAN : PortalStarts(works)
    \/ ReconcileStep \/ StartupLost
    \/ Handlers \/ HandlersLost

Spec == Init /\ [][Next]_vars

\* A pod that is not killed gets to its end (Terminates of Crawl), the Job
\* controller notices, and the start-up code runs on unless its portal dies.
LiveSpec ==
    /\ Spec
    /\ \A j \in Jobs : WF_vars(Pod(j)) /\ WF_vars(JobFinishes(j))
    /\ WF_vars(ReconcileStep)

(***************************************************************************)
(* Properties.                                                             *)
(***************************************************************************)
\* Two crawls write to the mirror at the same time only when one was started
\* by hand or one is the rest of a Job that has been deleted: the schedule by
\* itself never makes crawls overlap, whatever dies or is delayed.
OverlapNeedsManualOrDelete ==
    \A i, j \in AtWork :
        i # j => \E k \in {i, j} : kind[k] = "manual" \/ job[k] = "gone"

\* While no API or database call has failed, the row of a crawl at work is
\* open unless its Job has been deleted: neither Cancel nor a portal that
\* starts meanwhile closes the row of a crawl that goes on.
OpenRowWhileCrawling ==
    faults = 0 =>
        \A j \in AtWork : row[j] # "running" => job[j] = "gone"
                                                \/ site = "deleted"

\* The other way round: a row that says "running" is that of a crawl at work,
\* or of a pod that ended without a word.  SIGTERM, Cancel, other crawls and
\* portals that start take no pod's last word away, and bring no row back.
RunningMeansAtWork ==
    \A j \in Jobs : row[j] = "running" => j \in AtWork \union silent

\* A starting portal marks no crawl "failed" whose Job is active, even when
\* the API server does not answer and Jobs come and go while it decides.
ReconcileSparesActiveJobs ==
    [][\A j \in Jobs : /\ row[j] = "running" /\ row'[j] = "failed"
                       /\ pod[j] = pod'[j]
                       => job[j] # "active"]_vars

\* Each Job, with its pod and its row, is a CrawlProcess.
Process(j) ==
    INSTANCE CrawlProcess WITH
        stage <- IF pod[j] = "none" THEN "starting" ELSE pod[j], status <- row[j]

\* Whatever portals, handlers and other pods do to a row, only its pod opens
\* it, once; only its pod says "ok"; and what was deleted stays deleted.
EachJobIsAProcess ==
    /\ \A j \in Jobs : Process(j)!Init
    /\ [][\A j \in Jobs : [Process(j)!Next]_(Process(j)!vars)]_vars

\* As README.md says of the start-up of a portal: the row of a pod that is gone
\* is finalized.  At last, that is: portals get through their start-up again
\* and again, and at some of them the site is quiet, since its Jobs run out.
RestartsSettleRows ==
    []<><<PortalServes>>_vars =>
        \A j \in Jobs : row[j] = "running" ~> row[j] # "running"

\* As README.md says of "Crawl now": one crawl of the site at a time.
NoOverlappingCrawls == Cardinality(AtWork) <= 1
=============================================================================
