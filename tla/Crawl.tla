------------------------------- MODULE Crawl -------------------------------
(***************************************************************************)
(* One crawl: Crawler.Run (internal/crawler/crawler.go) with the store     *)
(* calls it makes, one action per network, disk or database call.          *)
(*                                                                         *)
(* A URL is an element of Urls (its string is the visited key).  Links and *)
(* LocalPath abstract ExtractLinks and LocalPathFor; the page behind a URL *)
(* is answered with any outcome.  A database call can fail, or take effect *)
(* and yet return an error; Run ignores or only logs every such error      *)
(* after StartCrawl.  The process can be killed at any point (SIGKILL      *)
(* after the pod's grace period, OOM, node loss).                          *)
(***************************************************************************)
EXTENDS Integers, Sequences, FiniteSets, Functions

CONSTANTS
    Urls, Seed,
    OnHost,       \* URLs whose host is the seed's
    Policies,     \* the sets of URLs a robots.txt can disallow
    Links,        \* [Urls -> SUBSET Urls], what ExtractLinks finds on a page
    Paths,        \* files of the mirror
    LocalPath,    \* [Urls -> Paths], LocalPathFor
    MaxFaults     \* bound on the calls of each kind that fail

NoUrl == "no url"

ASSUME UrlAssumption ==
    /\ IsFiniteSet(Urls) /\ NoUrl \notin Urls
    /\ Seed \in OnHost /\ OnHost \subseteq Urls
    /\ Policies \subseteq SUBSET Urls
    /\ Links \in [Urls -> SUBSET Urls]
    /\ LocalPath \in [Urls -> Paths]
    /\ MaxFaults \in Nat

VARIABLES
    pc,            \* the call Run makes next
    enforceRobots, \* site.RespectRobots
    disallowed,    \* what the policy of robots.txt disallows; none, nothing
    queue, visited, current, added,  \* locals of Run; current is j.url
    finalStatus,   \* Run's verdict so far
    explored,      \* history: URLs Run is done with, their links in the queue
    outcome,       \* [Urls -> what the request of that URL led to]
    mirror,        \* [Paths -> the URL whose body is stored there]
    rows,          \* the crawls row: status, pages_visited, pages_discovered
    visitedUrls,   \* URLs with a visited_urls row
    cancelled,     \* ctx is done
    dbFaults, diskFaults  \* history: failed calls that ctx does not explain

site == <<enforceRobots, disallowed>>
work == <<queue, visited, current, added, outcome, explored>>
log == <<rows, visitedUrls>>
faults == <<dbFaults, diskFaults>>
vars == <<pc, site, work, finalStatus, mirror, log, cancelled, faults>>

Outcomes == {"html", "file", "bad", "error"}
Good == {"html", "file"}    \* status in 200 .. 399
Verdicts == {"ok", "failed", "cancelled"}
\* How the process ends: without a row it knows of, through its deferred
\* FinishCrawl, or killed.
Over == {"refused", "exited", "killed"}
PCs == {"start", "snapshot", "robots", "seed", "loop", "fetch", "record",
        "bump", "write", "discover", "bumpAdded", "finish"} \union Over

TypeOK ==
    /\ pc \in PCs
    /\ enforceRobots \in BOOLEAN /\ cancelled \in BOOLEAN
    /\ disallowed \subseteq Urls /\ explored \subseteq Urls
    /\ queue \in Seq(Urls) /\ visited \subseteq Urls
    /\ current \in Urls \union {NoUrl} /\ added \in Nat
    /\ outcome \in [Urls -> Outcomes \union {"none"}]
    /\ finalStatus \in Verdicts
    /\ mirror \in [Paths -> Urls \union {NoUrl}]
    /\ rows \in [status : Verdicts \union {"absent", "running"},
                visited : Nat, discovered : Nat]
    /\ visitedUrls \subseteq Urls
    /\ dbFaults \in 0 .. MaxFaults /\ diskFaults \in 0 .. MaxFaults

Init ==
    /\ pc = "start" /\ enforceRobots \in BOOLEAN /\ disallowed = {}
    /\ queue = <<>> /\ visited = {} /\ current = NoUrl /\ added = 0
    /\ explored = {}
    /\ outcome = [u \in Urls |-> "none"]
    /\ finalStatus = "ok"
    /\ mirror = [p \in Paths |-> NoUrl]
    /\ rows = [status |-> "absent", visited |-> 0, discovered |-> 0]
    /\ visitedUrls = {} /\ cancelled = FALSE
    /\ dbFaults = 0 /\ diskFaults = 0

(***************************************************************************)
(* Store calls.                                                            *)
(***************************************************************************)
\* An "unanswered" call takes effect, but its caller gets an error.
Answers == {"works", "fails", "unanswered"}
TakesEffect(answer) == answer # "fails"

DbCall(answer) ==
    /\ dbFaults' = IF answer = "works" THEN dbFaults ELSE dbFaults + 1
    /\ dbFaults' <= MaxFaults
    /\ UNCHANGED <<diskFaults, cancelled>>

\* With a ctx that is done a call only returns its error.  SIGTERM while it is
\* under way has the caller leave it, and what has been sent may take effect.
DbCallWithCtx(answer) ==
    \/ ~cancelled /\ DbCall(answer)
    \/ cancelled /\ answer = "fails" /\ UNCHANGED <<faults, cancelled>>
    \/ /\ ~cancelled /\ cancelled' = TRUE
       /\ answer = "unanswered" /\ UNCHANGED faults

BumpCrawlProgress(answer, visitedDelta, discoveredDelta) ==
    /\ DbCallWithCtx(answer)
    /\ rows' = IF TakesEffect(answer) THEN
                  [rows EXCEPT !.visited = @ + visitedDelta,
                               !.discovered = @ + discoveredDelta]
               ELSE rows
    /\ UNCHANGED visitedUrls

(***************************************************************************)
(* Before the loop.                                                        *)
(***************************************************************************)
\* Faulty: the row is inserted with a context of its own.
StartCrawlAnyway(answer) ==
    /\ pc = "start"
    /\ pc' = IF answer = "works" THEN "snapshot" ELSE "refused"
    /\ DbCall(answer)
    /\ rows' = IF TakesEffect(answer) THEN [rows EXCEPT !.status = "running"]
               ELSE rows
    /\ UNCHANGED <<site, work, finalStatus, mirror, visitedUrls>>

\* INSERT ... RETURNING id.  With an error Run returns, and there is no defer
\* yet that would close a row it has opened all the same.
StartCrawl(answer) ==
    /\ pc = "start"
    /\ pc' = IF answer = "works" THEN "snapshot" ELSE "refused"
    /\ DbCallWithCtx(answer)
    /\ rows' = IF TakesEffect(answer) THEN [rows EXCEPT !.status = "running"]
               ELSE rows
    /\ UNCHANGED <<site, work, finalStatus, mirror, visitedUrls>>

\* The backup, whose failure is only logged, and the parse of the seed URL.
Snapshot ==
    /\ pc = "snapshot" /\ pc' = "robots"
    /\ UNCHANGED <<site, work, finalStatus, mirror, log, cancelled, faults>>

Fail ==
    /\ pc' = "finish" /\ finalStatus' = "failed"
    /\ UNCHANGED <<site, work, mirror, log, cancelled, faults>>

SeedUnusable == pc = "snapshot" /\ Fail

\* FetchRobotsTxt and AddRobotsLog; an error, a status other than 2xx or a
\* body that does not parse leaves everything allowed.
FetchRobots(policy) ==
    /\ pc = "robots" /\ pc' = "seed"
    /\ disallowed' = policy
    /\ UNCHANGED <<enforceRobots, work, finalStatus, mirror, log, cancelled,
                   faults>>

Allowed(u) == enforceRobots => u \notin disallowed

SeedDisallowed == pc = "seed" /\ ~Allowed(Seed) /\ Fail

EnqueueSeed(answer) ==
    /\ pc = "seed" /\ Allowed(Seed) /\ pc' = "loop"
    /\ queue' = <<Seed>> /\ visited' = {Seed}
    /\ BumpCrawlProgress(answer, 0, 1)
    /\ UNCHANGED <<site, current, added, outcome, explored, finalStatus, mirror>>

(***************************************************************************)
(* The loop: the check of ctx and of the queue, then one URL.              *)
(***************************************************************************)
\* Faulty: a done ctx ends the loop as an empty queue does.
OkWhenStopped == "ok"

\* Faulty: a status that nothing else knows.
MisspeltWhenStopped == "canceled"

StoppedStatus == "cancelled"

StopCancelled ==
    /\ pc = "loop" /\ cancelled /\ pc' = "finish"
    /\ finalStatus' = StoppedStatus
    /\ UNCHANGED <<site, work, mirror, log, cancelled, faults>>

QueueEmpty ==
    /\ pc = "loop" /\ ~cancelled /\ queue = <<>> /\ pc' = "finish"
    /\ UNCHANGED <<site, work, finalStatus, mirror, log, cancelled, faults>>

Dequeue ==
    /\ pc = "loop" /\ ~cancelled /\ queue # <<>> /\ pc' = "fetch"
    /\ current' = Head(queue) /\ queue' = Tail(queue)
    /\ UNCHANGED <<site, visited, added, outcome, explored, finalStatus, mirror,
                   log, cancelled, faults>>

\* Faulty: a URL whose request fails is put back in the queue.
FetchOrRequeue(result) ==
    /\ pc = "fetch" /\ pc' = IF result = "error" THEN "loop" ELSE "record"
    /\ queue' = IF result = "error" THEN Append(queue, current) ELSE queue
    /\ outcome' = [outcome EXCEPT ![current] = result]
    /\ UNCHANGED <<site, visited, current, added, explored, finalStatus, mirror,
                   log, cancelled, faults>>

\* fetcher.Get, see Fetcher.
Fetch(result) ==
    /\ pc = "fetch" /\ pc' = "record"
    /\ outcome' = [outcome EXCEPT ![current] = result]
    /\ UNCHANGED <<site, queue, visited, current, added, explored, finalStatus,
                   mirror, log, cancelled, faults>>

AddVisitedURL(answer) ==
    /\ pc = "record" /\ pc' = "bump"
    /\ DbCallWithCtx(answer)
    /\ visitedUrls' = IF TakesEffect(answer) THEN visitedUrls \union {current}
                      ELSE visitedUrls
    /\ UNCHANGED <<site, work, finalStatus, mirror, rows>>

\* The URL is dealt with when the loop goes on to the next one.
GoOn(next) ==
    /\ pc' = next
    /\ explored' = IF next = "loop" THEN explored \union {current} ELSE explored
    /\ UNCHANGED <<current, outcome>>

BumpVisited(answer) ==
    /\ pc = "bump"
    /\ GoOn(IF outcome[current] \in Good THEN "write" ELSE "loop")
    /\ BumpCrawlProgress(answer, 1, 0)
    /\ UNCHANGED <<site, queue, visited, added, finalStatus, mirror>>

\* Faulty: a page that could not be stored is not searched for links either.
AfterWriteThatWorked(works) ==
    IF works /\ outcome[current] = "html" THEN "discover" ELSE "loop"

AfterWrite(works) == IF outcome[current] = "html" THEN "discover" ELSE "loop"

\* Faulty: only pages are stored, not the files they refer to.
WritePage(works) ==
    IF works /\ outcome[current] = "html"
    THEN [mirror EXCEPT ![LocalPath[current]] = current] ELSE mirror

\* The file is replaced whole (temporary file and rename) or not at all.
WriteFile(works) ==
    IF works THEN [mirror EXCEPT ![LocalPath[current]] = current] ELSE mirror

Write(works) ==
    /\ pc = "write"
    /\ GoOn(AfterWrite(works))
    /\ mirror' = WriteFile(works)
    /\ diskFaults' = IF works THEN diskFaults ELSE diskFaults + 1
    /\ diskFaults' <= MaxFaults /\ UNCHANGED dbFaults
    /\ UNCHANGED <<site, queue, visited, added, finalStatus, log, cancelled>>

\* Faulty: links are not matched against robots.txt.
LinksOfHost(u) == {l \in Links[u] : l \in OnHost /\ l \notin visited}

\* Faulty: a link is enqueued although it has been before.
EligibleLinks(u) == {l \in Links[u] : l \in OnHost /\ Allowed(l)}

NewLinks(u) == {l \in Links[u] : l \in OnHost /\ Allowed(l) /\ l \notin visited}

\* Faulty: links that are known already count as discovered again.
KnownAndNewLinks(u) == Cardinality(Links[u] \intersect OnHost)

LinksAdded(u) == Cardinality(NewLinks(u))

\* The orders in which a document can hold a set of links.
Orders(S) ==
    {s \in [1 .. Cardinality(S) -> S] : IsInjective(s) /\ Range(s) = S}

Discover ==
    /\ pc = "discover"
    /\ pc' = IF LinksAdded(current) > 0 THEN "bumpAdded" ELSE "loop"
    /\ \E links \in Orders(NewLinks(current)) : queue' = queue \o links
    /\ visited' = visited \union NewLinks(current)
    /\ added' = LinksAdded(current)
    /\ explored' = explored \union {current}
    /\ UNCHANGED <<site, current, outcome, finalStatus, mirror, log, cancelled,
                   faults>>

BumpAdded(answer) ==
    /\ pc = "bumpAdded" /\ pc' = "loop"
    /\ BumpCrawlProgress(answer, 0, added)
    /\ UNCHANGED <<site, work, finalStatus, mirror>>

(***************************************************************************)
(* The deferred FinishCrawl, with a context of its own; then the process   *)
(* ends.                                                                   *)
(***************************************************************************)
FinishCall(answer) == DbCall(answer)

FinishCrawl(answer) ==
    /\ pc = "finish" /\ pc' = "exited"
    /\ FinishCall(answer)
    /\ rows' = IF TakesEffect(answer) THEN [rows EXCEPT !.status = finalStatus]
               ELSE rows
    /\ UNCHANGED <<site, work, finalStatus, mirror, visitedUrls>>

(***************************************************************************)
(* SIGTERM cancels ctx (signals.go); SIGKILL ends the process.             *)
(***************************************************************************)
Cancel ==
    /\ ~cancelled /\ pc \notin Over
    /\ cancelled' = TRUE
    /\ UNCHANGED <<pc, site, work, finalStatus, mirror, log, faults>>

Kill ==
    /\ pc \notin Over /\ pc' = "killed"
    /\ UNCHANGED <<site, work, finalStatus, mirror, log, cancelled, faults>>

Run ==
    \/ \E answer \in Answers :
          \/ StartCrawl(answer) \/ EnqueueSeed(answer)
          \/ AddVisitedURL(answer) \/ BumpVisited(answer)
          \/ BumpAdded(answer) \/ FinishCrawl(answer)
    \/ \E works \in BOOLEAN : Write(works)
    \/ Snapshot \/ SeedUnusable
    \/ \E policy \in Policies \union {{}} : FetchRobots(policy)
    \/ SeedDisallowed
    \/ StopCancelled \/ QueueEmpty \/ Dequeue
    \/ \E result \in Outcomes : Fetch(result)
    \/ Discover

Next == Run \/ Cancel \/ Kill

Spec == Init /\ [][Next]_vars

\* Run is sequential code whose calls all return: Get by GetReturns of
\* Fetcher, the others because they are database and file operations.
LiveSpec == Spec /\ WF_vars(Run)

(***************************************************************************)
(* Properties.                                                             *)
(***************************************************************************)
\* Only pages of the site's host are requested, and none that the robots.txt
\* of a site with respect_robots disallows.
InScope ==
    \A u \in Urls : outcome[u] # "none" => u \in OnHost /\ Allowed(u)

\* No URL is requested twice in one crawl, whatever links lead to it.
FetchedOnce == [][pc = "fetch" /\ pc' = "record" => outcome[current] = "none"]_vars

\* While no database call has failed, the row's counters agree with each other
\* and with the visited_urls rows, also after a cancel; they meet at an "ok".
ProgressConsistent ==
    dbFaults = 0 =>
        /\ rows.visited <= rows.discovered
        /\ rows.visited <= Cardinality(visitedUrls)
        /\ Cardinality(visitedUrls) <= rows.visited + 1
        /\ rows.status = "ok" => rows.visited = rows.discovered

\* A row says "ok" only when the seed was requested and so was every page in
\* scope that a page requested from this crawl links to.
OkMeansComplete ==
    rows.status = "ok" =>
        /\ outcome[Seed] # "none"
        /\ \A u \in Urls : outcome[u] = "html" =>
              \A l \in Links[u] \intersect OnHost :
                 Allowed(l) => outcome[l] # "none"

\* After an "ok" without a failed write, the file of every URL answered with a
\* good status holds the body of such a URL.
OkMirrorComplete ==
    rows.status = "ok" /\ diskFaults = 0 =>
        \A u \in Urls : outcome[u] \in Good =>
            \E v \in Urls : /\ mirror[LocalPath[u]] = v
                            /\ LocalPath[v] = LocalPath[u] /\ outcome[v] \in Good

\* Unless the database failed it, a crawl that got to know its row has closed
\* it at its end, as "cancelled" only if it was stopped.  One that did not was
\* stopped; nothing was requested for it, and its row says no more than that
\* it is running, if there is one.
ExitClosesRow ==
    dbFaults = 0 =>
        /\ pc = "exited" =>
              /\ rows.status \in Verdicts
              /\ rows.status = "cancelled" => cancelled
        /\ pc = "refused" =>
              /\ cancelled /\ rows.status \in {"absent", "running"}
              /\ visited = {} /\ rows.discovered = 0

\* As README.md says of a running crawl: its pod writes its FinishCrawl when it
\* completes.
PodFinishesItsRow ==
    dbFaults = 0 => (pc \in {"refused", "exited"} => rows.status # "running")

\* Every crawl ends: no answer of the site keeps it going for ever.
Terminates == <>(pc \in Over)

(***************************************************************************)
(* Crawl implements SiteExploration: a page counts as visited once its     *)
(* links are in the queue, and the verdict is what the row says.           *)
(***************************************************************************)
Exploration ==
    INSTANCE SiteExploration WITH
        frontier <- visited \ explored, done <- explored,
        verdict <- IF rows.status \in Verdicts THEN rows.status ELSE "none"

ExplorationSpec == Exploration!Spec

(***************************************************************************)
(* Crawl implements CrawlProcess, which is what CrawlLifecycle takes a pod *)
(* for.  Nobody else is at the row here.                                   *)
(***************************************************************************)
Stage ==
    IF pc \in Over THEN "ended"
    ELSE IF pc = "start" THEN "starting"
    ELSE IF cancelled THEN "stopping" ELSE "crawling"

Process == INSTANCE CrawlProcess WITH stage <- Stage, status <- rows.status

\* Run opens its row once, before anything else, and gives up at once if it does
\* not hear of it; it closes it in the last thing it does, and never says
\* "cancelled" without SIGTERM, whatever fails.
ProcessSpec == Process!Spec
=============================================================================
