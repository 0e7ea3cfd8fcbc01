--------------------------- MODULE PortalSchedule ---------------------------
(***************************************************************************)
(* The sites table and the CronJob of each site: the handlers that create, *)
(* edit, pause and delete sites (internal/web/handlers_admin.go) with the  *)
(* calls they make to the database (internal/store/store.go) and to the    *)
(* API server (internal/k8s/client.go).  A handler is a goroutine of its   *)
(* own, and each of its calls is a step: nothing keeps two of them apart.  *)
(* A site reduces to its slug and to what its CronJob depends on; a        *)
(* CronJob goes by the slug it is named for, which tells CronJobs apart as *)
(* long as slugs have at most 40 characters (cronJobName).                 *)
(*                                                                         *)
(* External: the API server, which creates an object only once, refuses to *)
(* replace one that has changed since it was read, and whose CronJob       *)
(* controller writes to the status of the objects.                         *)
(***************************************************************************)
EXTENDS Integers, FiniteSets

CONSTANTS
    Handlers,    \* handlers that can be at work at the same time
    Slugs,
    Ids,         \* values of the sequence behind sites.id
    Intervals,
    MaxFaults,   \* bound on calls that fail or whose answer is lost
    None         \* no site, no CronJob, no id, no request

VARIABLES
    sites,       \* [Ids -> row or None], the sites table
    issued,      \* ids that have been used
    cronJobs,    \* [Slugs -> CronJob or None]
    handler,     \* [Handlers -> what the goroutine holds]
    unsettled,   \* history: slugs that nobody answers for, see Respond
    faults

tables == <<sites, issued>>
vars == <<tables, cronJobs, handler, unsettled, faults>>

Site == [slug : Slugs, enabled : BOOLEAN, interval : Intervals]
CronJob == [site : Ids, suspend : BOOLEAN, interval : Intervals]

Kinds == {"create", "edit", "toggle", "delete"}
PCs == {"insert", "update", "delete row", "get", "apply", "suspend",
        "delete", "kick", "respond"}

\* "latest" and "outdated" stand for the resourceVersion of what a GET found.
Seen == {"nothing", "latest", "outdated"}

\* clean: no call has failed and nobody else was at work on the same slugs.
AtWork == [kind : Kinds, pc : PCs, id : Ids \union {None}, site : Site,
           row : Slugs, seen : Seen, clean : BOOLEAN]

ASSUME NoneAssumption ==
    None \notin Site \union CronJob \union AtWork \union Ids
ASSUME FaultAssumption == MaxFaults \in Nat

TypeOK ==
    /\ sites \in [Ids -> Site \union {None}] /\ issued \subseteq Ids
    /\ cronJobs \in [Slugs -> CronJob \union {None}]
    /\ handler \in [Handlers -> AtWork \union {None}]
    /\ unsettled \subseteq Slugs
    /\ faults \in 0 .. MaxFaults

Init ==
    /\ sites = [i \in Ids |-> None] /\ issued = {}
    /\ cronJobs = [s \in Slugs |-> None]
    /\ handler = [h \in Handlers |-> None]
    /\ unsettled = {} /\ faults = 0

\* A call is carried out, fails, or is carried out and the answer is lost.
Outcomes == {"done", "failed", "unanswered"}

Call(outcome) ==
    /\ faults' = IF outcome = "done" THEN faults ELSE faults + 1
    /\ faults' <= MaxFaults

Busy(h) == handler[h] # None
Touches(h) == {handler[h].row, handler[h].site.slug}
HeldBy(i, s) == sites[i] # None /\ sites[i].slug = s
Owners(s) == {i \in Ids : HeldBy(i, s)}

(***************************************************************************)
(* The start of a handler, up to its first database call.  A handler that  *)
(* finds no site, or gets an error, answers and has changed nothing.       *)
(***************************************************************************)
Rivals(slugs) == {g \in Handlers : Busy(g) /\ Touches(g) \cap slugs # {}}

Begin(h, kind, pc, id, site, row) ==
    /\ ~Busy(h)
    /\ LET rivals == Rivals({row, site.slug}) IN
       handler' = [g \in Handlers |->
           IF g = h
           THEN [kind |-> kind, pc |-> pc, id |-> id, site |-> site,
                 row |-> row, seen |-> "nothing", clean |-> rivals = {}]
           ELSE IF g \in rivals THEN [handler[g] EXCEPT !.clean = FALSE]
           ELSE handler[g]]
    /\ UNCHANGED <<tables, cronJobs, unsettled>>

\* GetSiteBySlug; an error counts as no such site.
BeginCreate(h, form, outcome) ==
    /\ outcome = "done" => Owners(form.slug) = {}
    /\ Call(outcome)
    /\ Begin(h, "create", "insert", None, form, form.slug)

\* parseSiteForm writes the form into the very record that GetSite returned:
\* the handler compares the new slug with itself, and what it would do about
\* a changed slug never happens.
BeginEdit(h, i, form) ==
    /\ sites[i] # None
    /\ Begin(h, "edit", "update", i, form, sites[i].slug)
    /\ UNCHANGED faults

BeginToggle(h, i) ==
    /\ sites[i] # None
    /\ Begin(h, "toggle", "update", i,
             [sites[i] EXCEPT !.enabled = ~@], sites[i].slug)
    /\ UNCHANGED faults

BeginDelete(h, i) ==
    /\ sites[i] # None
    /\ Begin(h, "delete", "delete row", i, sites[i], sites[i].slug)
    /\ UNCHANGED faults

(***************************************************************************)
(* The calls of a handler.                                                 *)
(***************************************************************************)
\* The handler goes on at pc.
Goes(h, pc, good) ==
    [handler EXCEPT ![h].pc = pc, ![h].clean = @ /\ good]

\* Faulty: the column sites.slug is not UNIQUE.
AnySlug(s) == TRUE

UniqueSlug(s) == Owners(s) = {}

\* Faulty: the id is not scanned into the site.
ForgottenId(i) == None

ReturnedId(i) == i

\* CreateSite.
Insert(h, i, outcome) ==
    /\ Busy(h) /\ handler[h].pc = "insert" /\ i \notin issued
    /\ Call(outcome)
    /\ issued' = issued \union {i}
    /\ LET free == UniqueSlug(handler[h].site.slug)
           good == free /\ outcome = "done" IN
       /\ sites' = IF free /\ outcome # "failed"
                   THEN [sites EXCEPT ![i] = handler[h].site] ELSE sites
       /\ handler' = IF good
                     THEN [handler EXCEPT ![h].pc = "get",
                                          ![h].id = ReturnedId(i)]
                     ELSE Goes(h, "respond", FALSE)
    /\ UNCHANGED <<cronJobs, unsettled>>

\* UpdateSite: every column but the slug.  No row is no error.
Updated(i, site) ==
    IF sites[i] = None THEN sites
    ELSE [sites EXCEPT ![i] = [site EXCEPT !.slug = sites[i].slug]]

Update(h, outcome) ==
    /\ Busy(h) /\ handler[h].pc = "update"
    /\ Call(outcome)
    /\ sites' = IF outcome = "failed" THEN sites
                ELSE Updated(handler[h].id, handler[h].site)
    /\ handler' = IF outcome # "done" THEN Goes(h, "respond", FALSE)
                  ELSE Goes(h, IF handler[h].kind = "edit" THEN "get"
                               ELSE "suspend", TRUE)
    /\ UNCHANGED <<issued, cronJobs, unsettled>>

DeleteRow(h, outcome) ==
    /\ Busy(h) /\ handler[h].pc = "delete row"
    /\ Call(outcome)
    /\ sites' = IF outcome = "failed" THEN sites
                ELSE [sites EXCEPT ![handler[h].id] = None]
    /\ handler' = IF outcome = "done" THEN Goes(h, "delete", TRUE)
                  ELSE Goes(h, "respond", FALSE)
    /\ UNCHANGED <<issued, cronJobs, unsettled>>

AfterEnsure(h) ==
    IF handler[h].kind = "create" /\ handler[h].site.enabled
    THEN "kick" ELSE "respond"

\* EnsureCronJob, the GET.
GetCronJob(h, outcome) ==
    /\ Busy(h) /\ handler[h].pc = "get"
    /\ Call(outcome)
    /\ handler' =
         IF outcome # "done" THEN Goes(h, AfterEnsure(h), FALSE)
         ELSE [handler EXCEPT ![h].pc = "apply", ![h].seen =
                 IF cronJobs[handler[h].site.slug] = None
                 THEN "nothing" ELSE "latest"]
    /\ UNCHANGED <<tables, cronJobs, unsettled>>

\* POST of an object that is there and PUT of a stale one are refused.
Accepted(h) ==
    \/ handler[h].seen = "latest"
    \/ handler[h].seen = "nothing" /\ cronJobs[handler[h].site.slug] = None

\* The resourceVersions that handlers hold once the CronJob of s becomes c.
Outdate(hs, s, c) ==
    [g \in Handlers |->
        IF hs[g] # None /\ hs[g].site.slug = s /\ hs[g].seen = "latest"
           /\ c # cronJobs[s]
        THEN [hs[g] EXCEPT !.seen = "outdated"] ELSE hs[g]]

SetCronJob(s, c, hs) ==
    /\ cronJobs' = [cronJobs EXCEPT ![s] = c]
    /\ handler' = Outdate(hs, s, c)
    /\ UNCHANGED <<tables, unsettled>>

\* Faulty: spec.suspend is left out.
NeverSuspended(id, site) ==
    [site |-> id, suspend |-> FALSE, interval |-> site.interval]

BuildCronJob(id, site) ==
    [site |-> id, suspend |-> ~site.enabled, interval |-> site.interval]

\* EnsureCronJob, the POST or PUT.  The error is only logged.
ApplyCronJob(h, outcome) ==
    /\ Busy(h) /\ handler[h].pc = "apply"
    /\ Call(outcome)
    /\ LET s == handler[h].site.slug
           good == Accepted(h) /\ outcome = "done" IN
       SetCronJob(s, IF Accepted(h) /\ outcome # "failed"
                     THEN BuildCronJob(handler[h].id, handler[h].site)
                     ELSE cronJobs[s],
                  Goes(h, AfterEnsure(h), good))

\* SuspendCronJob, an error when there is no CronJob.
SuspendCronJob(h, outcome) ==
    /\ Busy(h) /\ handler[h].pc = "suspend"
    /\ Call(outcome)
    /\ LET s == handler[h].site.slug
           found == cronJobs[s] # None
           good == found /\ outcome = "done" IN
       SetCronJob(s, IF found /\ outcome # "failed"
                     THEN [cronJobs[s] EXCEPT !.suspend = ~handler[h].site.enabled]
                     ELSE cronJobs[s],
                  Goes(h, "respond", good))

\* DeleteCronJob, of no effect when there is none.
DeleteCronJob(h, outcome) ==
    /\ Busy(h) /\ handler[h].pc = "delete"
    /\ Call(outcome)
    /\ LET s == handler[h].site.slug IN
       SetCronJob(s, IF outcome = "failed" THEN cronJobs[s] ELSE None,
                  Goes(h, "respond", outcome = "done"))

\* CreateCrawlJob for a new site, whatever became of its CronJob.  The Job is
\* one made by hand, CrawlNow of CrawlLifecycle.
Kick(h, outcome) ==
    /\ Busy(h) /\ handler[h].pc = "kick"
    /\ Call(outcome)
    /\ handler' = Goes(h, "respond", TRUE)
    /\ UNCHANGED <<tables, cronJobs, unsettled>>

\* A handler that had its slug to itself and met no error answers for it,
\* whatever the state was before; a toggle only keeps what it finds.
Respond(h) ==
    /\ Busy(h) /\ handler[h].pc = "respond"
    /\ handler' = [handler EXCEPT ![h] = None]
    /\ LET slug == handler[h].site.slug IN
       unsettled' = IF ~handler[h].clean \/ slug # handler[h].row
                    THEN unsettled \union Touches(h)
                    ELSE IF handler[h].kind = "toggle" THEN unsettled
                    ELSE unsettled \ {slug}
    /\ UNCHANGED <<tables, cronJobs, faults>>

\* The portal dies, or is shut down before the handler is through.
HandlerLost(h) ==
    /\ Busy(h)
    /\ handler' = [handler EXCEPT ![h] = None]
    /\ unsettled' = unsettled \union Touches(h)
    /\ UNCHANGED <<tables, cronJobs, faults>>

\* The controller writes to the status of a CronJob.
StatusWritten(s) ==
    /\ cronJobs[s] # None
    /\ handler' = Outdate(handler, s, None)
    /\ UNCHANGED <<tables, cronJobs, unsettled, faults>>

(***************************************************************************)
(* Specification.                                                          *)
(***************************************************************************)
Start(h) ==
    \/ \E form \in Site :
          \/ \E outcome \in {"done", "failed"} : BeginCreate(h, form, outcome)
          \/ \E i \in Ids : BeginEdit(h, i, form)
    \/ \E i \in Ids : BeginToggle(h, i) \/ BeginDelete(h, i)

DatabaseCall(h) ==
    \E outcome \in Outcomes :
       \/ \E i \in Ids : Insert(h, i, outcome)
       \/ Update(h, outcome) \/ DeleteRow(h, outcome)

ClusterCall(h) ==
    \E outcome \in Outcomes :
       \/ GetCronJob(h, outcome) \/ ApplyCronJob(h, outcome)
       \/ SuspendCronJob(h, outcome) \/ DeleteCronJob(h, outcome)
       \/ Kick(h, outcome)

Next ==
    \/ \E h \in Handlers :
          \/ Start(h) \/ DatabaseCall(h) \/ ClusterCall(h)
          \/ Respond(h) \/ HandlerLost(h)
    \/ \E s \in Slugs : StatusWritten(s)

Spec == Init /\ [][Next]_vars

(***************************************************************************)
(* Properties.                                                             *)
(***************************************************************************)
\* Two sites never share a slug, however many requests to create it pass the
\* handler's check before one of them has inserted its row.
SlugsUnique ==
    \A i, j \in Ids : \A s \in Slugs : HeldBy(i, s) /\ HeldBy(j, s) => i = j

\* The CronJob of a slug is what its site asks for, and there is none
\* without a site.
InStep(s) ==
    IF Owners(s) = {} THEN cronJobs[s] = None
    ELSE /\ cronJobs[s] # None
         /\ HeldBy(cronJobs[s].site, s)
         /\ cronJobs[s].suspend = ~sites[cronJobs[s].site].enabled
         /\ cronJobs[s].interval = sites[cronJobs[s].site].interval

\* README.md: a CronJob per configured site.  It follows the site as long as
\* handlers of one slug do not overlap, die or meet errors and the slug is not
\* edited, whatever those of other slugs do; and a create, edit or delete
\* that is through brings it back in step after any of these.
ScheduleInStep ==
    \A s \in Slugs :
        s \notin unsettled /\ (\A h \in Handlers : Busy(h) => s \notin Touches(h))
        => InStep(s)

\* As the comment in handleAdminSiteUpdate says: if the slug changed, the old
\* CronJob is removed before the new one is made.
SlugEditRemovesOldCronJob ==
    [][\A h \in Handlers :
          Busy(h) /\ handler[h].kind = "edit" /\ handler[h].pc = "apply"
          /\ handler[h].site.slug # handler[h].row
          /\ cronJobs'[handler[h].site.slug] # cronJobs[handler[h].site.slug]
          => cronJobs[handler[h].row] = None]_vars
=============================================================================
