--------------------------- MODULE CrawlRowProofs ---------------------------
(***************************************************************************)
(* What the crawls row and the mirror say when a crawl ends, for every     *)
(* site and any number of failed calls: the row is closed, its counters    *)
(* agree, and an "ok" without a failed write has a file for every URL.     *)
(***************************************************************************)
EXTENDS CrawlProofs

EndPCs == {"finish"} \union Over

\* A call that leaves dbFaults at 0 has taken effect, unless ctx was done, and
\* has said so, unless ctx is done now.
LEMMA NoFault ==
    ASSUME TypeOK, NEW answer \in Answers, DbCall(answer) \/ DbCallWithCtx(answer),
           dbFaults' = 0
    PROVE  /\ dbFaults = 0 /\ (cancelled => cancelled')
           /\ TakesEffect(answer) \/ cancelled
           /\ answer = "works" \/ cancelled'
BY DEF DbCall, DbCallWithCtx, TakesEffect, TypeOK, faults

LEMMA StaysCancelled ==
    ASSUME NEW answer \in Answers, DbCall(answer) \/ DbCallWithCtx(answer)
    PROVE  cancelled => cancelled'
BY DEF DbCall, DbCallWithCtx

(***************************************************************************)
(* The verdict.                                                            *)
(***************************************************************************)
ExitInv ==
    /\ rows.status = "cancelled" \/ finalStatus = "cancelled" => cancelled
    /\ pc = "start" => rows.discovered = 0
    /\ pc = "exited" /\ dbFaults = 0 => rows.status \in Verdicts
    /\ pc = "refused" /\ dbFaults = 0 =>
          /\ cancelled /\ rows.status \in {"absent", "running"}
          /\ visited = {} /\ rows.discovered = 0

LEMMA ExitInit == Init => ExitInv
BY DEF Init, ExitInv

LEMMA ExitStep == IInv /\ ExitInv /\ [Next]_vars => ExitInv'
<1> SUFFICES ASSUME IInv, ExitInv, [Next]_vars PROVE ExitInv'
  OBVIOUS
<1> USE DEF ExitInv
<1>1. TypeOK /\ VerdictInv
  BY DEF IInv
<1>2. ASSUME NEW answer \in Answers, StartCrawl(answer) PROVE ExitInv'
  <2>1. /\ pc = "start" /\ rows.status = "absent" /\ visited = {}
        /\ visited' = visited /\ finalStatus' = finalStatus
        /\ pc' = IF answer = "works" THEN "snapshot" ELSE "refused"
    BY <1>1, <1>2 DEF StartCrawl, VerdictInv, IInv, ScopeInv, BeforeLoopPCs, work
  <2>2. cancelled => cancelled'
    BY <1>2, StaysCancelled DEF StartCrawl
  <2>3. /\ rows'.status \in {"absent", "running"}
        /\ rows'.discovered = rows.discovered
    BY <1>1, <1>2, <2>1 DEF StartCrawl, TypeOK
  <2>4. dbFaults' = 0 => answer = "works" \/ cancelled'
    BY <1>1, <1>2, NoFault DEF StartCrawl
  <2> QED
    BY <2>1, <2>2, <2>3, <2>4
<1>3. ASSUME NEW answer \in Answers, FinishCrawl(answer) PROVE ExitInv'
  <2>1. /\ pc' = "exited" /\ rows.status = "running" /\ finalStatus' = finalStatus
        /\ cancelled' = cancelled
    BY <1>1, <1>3 DEF FinishCrawl, FinishCall, DbCall, VerdictInv, Over
  <2>2. finalStatus \in Verdicts
    BY <1>1 DEF TypeOK
  <2>3. CASE TakesEffect(answer)
    BY <1>1, <1>3, <2>1, <2>2, <2>3 DEF FinishCrawl, TypeOK, Verdicts
  <2>4. CASE ~TakesEffect(answer)
    <3>1. dbFaults' # 0
      BY <1>1, <1>3, <2>4 DEF FinishCrawl, FinishCall, DbCall, TypeOK, TakesEffect
    <3> QED
      BY <1>3, <2>1, <2>4, <3>1 DEF FinishCrawl
  <2> QED
    BY <2>3, <2>4
<1>4. ASSUME NEW answer \in Answers,
             \/ EnqueueSeed(answer) \/ AddVisitedURL(answer) \/ BumpVisited(answer)
             \/ BumpAdded(answer)
      PROVE  ExitInv'
  <2>0. 0 \in Nat /\ 1 \in Nat /\ added \in Nat
    BY <1>1 DEF TypeOK
  <2>1. rows'.status = rows.status
    BY <1>1, <1>4, <2>0, BumpStatus DEF EnqueueSeed, AddVisitedURL, BumpVisited,
       BumpAdded
  <2>2. finalStatus' = finalStatus /\ pc' \notin {"start", "refused", "exited"}
    BY <1>4 DEF EnqueueSeed, AddVisitedURL, BumpVisited, BumpAdded, GoOn
  <2>3. cancelled => cancelled'
    BY <1>4, StaysCancelled DEF EnqueueSeed, AddVisitedURL, BumpVisited, BumpAdded,
       BumpCrawlProgress
  <2> QED
    BY <2>1, <2>2, <2>3
<1>6. ASSUME NEW works \in BOOLEAN, Write(works) PROVE ExitInv'
  BY <1>6 DEF Write, GoOn, AfterWrite, log
<1>5. CASE \/ Snapshot \/ SeedUnusable \/ SeedDisallowed \/ StopCancelled
           \/ QueueEmpty \/ Dequeue \/ Discover \/ Cancel \/ Kill
           \/ UNCHANGED vars
           \/ \E policy \in Policies \union {{}} : FetchRobots(policy)
           \/ \E result \in Outcomes : Fetch(result)
  BY <1>5 DEF Snapshot, SeedUnusable, SeedDisallowed, Fail, StopCancelled,
     StoppedStatus, QueueEmpty, Dequeue, Discover, Cancel, Kill, FetchRobots,
     Fetch, vars, log, faults, work
<1> QED
  BY <1>2, <1>3, <1>4, <1>5, <1>6 DEF Next, Run

\* For every site and any number of failures: unless the database failed it, a
\* crawl whose INSERT was answered closes its row, as "cancelled" only if it was
\* stopped; one whose INSERT was not was stopped before it requested anything,
\* and the row it may leave is "running" and says that nothing was found.
THEOREM ExitCloses == Spec => []ExitClosesRow
<1>1. ExitInv => ExitClosesRow
  BY DEF ExitInv, ExitClosesRow
<1> QED
  BY <1>1, ExitInit, ExitStep, Invariance, PTL DEF Spec

(***************************************************************************)
(* The mirror.                                                             *)
(***************************************************************************)
Stored(u) ==
    \E v \in Urls : /\ mirror[LocalPath[u]] = v
                    /\ LocalPath[v] = LocalPath[u] /\ outcome[v] \in Good

\* The URL in hand is not stored before its own write.
MirrorInv ==
    /\ pc = "write" => outcome[current] \in Good
    /\ diskFaults = 0 /\ pc # "killed" =>
          \A u \in Urls : outcome[u] \in Good =>
              Stored(u) \/ (u = current /\ pc \in {"record", "bump", "write"})

LEMMA MirrorInit == Init => MirrorInv
BY DEF Init, MirrorInv, Good

LEMMA MirrorStep == IInv /\ MirrorInv /\ [Next]_vars => MirrorInv'
<1> SUFFICES ASSUME IInv, MirrorInv, [Next]_vars PROVE MirrorInv'
  OBVIOUS
<1>1. TypeOK /\ CurrentInv
  BY DEF IInv
<1>2. ASSUME NEW works \in BOOLEAN, Write(works) PROVE MirrorInv'
  <2>1. /\ outcome' = outcome /\ current' = current /\ pc = "write"
        /\ pc' \in {"discover", "loop"} /\ outcome[current] \in Good
        /\ current \in Urls
    BY <1>1, <1>2 DEF Write, GoOn, AfterWrite, MirrorInv, CurrentInv, HandlingPCs
  <2>2. ASSUME diskFaults' = 0 PROVE works /\ diskFaults = 0
    BY <1>1, <1>2, <2>2 DEF Write, TypeOK
  <2>3. LocalPath \in [Urls -> Paths]
    BY UrlAssumption DEF UrlAssumption
  <2>4. ASSUME diskFaults' = 0, NEW u \in Urls, outcome[u] \in Good
        PROVE  Stored(u)'
    <3>1. mirror' = [mirror EXCEPT ![LocalPath[current]] = current]
      BY <1>2, <2>2, <2>4 DEF Write, WriteFile
    <3>2. CASE LocalPath[u] = LocalPath[current]
      <4>1. mirror'[LocalPath[u]] = current
        BY <1>1, <2>1, <2>3, <3>1, <3>2 DEF TypeOK
      <4> QED
        BY <2>1, <3>2, <4>1 DEF Stored
    <3>3. CASE LocalPath[u] # LocalPath[current]
      <4>1. mirror'[LocalPath[u]] = mirror[LocalPath[u]]
        BY <1>1, <2>3, <3>1, <3>3 DEF TypeOK
      <4>2. Stored(u)
        BY <2>1, <2>2, <2>4, <3>3 DEF MirrorInv
      <4> QED
        BY <2>1, <4>1, <4>2 DEF Stored
    <3> QED
      BY <3>2, <3>3
  <2> QED
    BY <2>1, <2>4 DEF MirrorInv
<1>3. ASSUME NEW result \in Outcomes, Fetch(result) PROVE MirrorInv'
  <2>1. /\ current' = current /\ current \in Urls /\ pc = "fetch" /\ pc' = "record"
        /\ mirror' = mirror /\ diskFaults' = diskFaults
        /\ outcome' = [outcome EXCEPT ![current] = result]
    BY <1>1, <1>3 DEF Fetch, CurrentInv, HandlingPCs, faults
  <2>2. outcome[current] = "none"
    BY <2>1 DEF IInv, QueueInv, Requested
  <2>3. \A u \in Urls : outcome'[u] = IF u = current THEN result ELSE outcome[u]
    BY <1>1, <2>1 DEF TypeOK
  <2>4. ASSUME NEW u \in Urls, u # current, Stored(u) PROVE Stored(u)'
    BY <2>1, <2>2, <2>3, <2>4 DEF Stored, Good
  <2> QED
    BY <2>1, <2>3, <2>4 DEF MirrorInv
<1>4. ASSUME NEW answer \in Answers, BumpVisited(answer) PROVE MirrorInv'
  <2>1. /\ outcome' = outcome /\ current' = current /\ mirror' = mirror
        /\ diskFaults' = diskFaults /\ pc = "bump"
        /\ pc' = IF outcome[current] \in Good THEN "write" ELSE "loop"
    BY <1>4 DEF BumpVisited, GoOn, BumpCrawlProgress, DbCallWithCtx, DbCall, faults
  <2>2. \A u : Stored(u)' <=> Stored(u)
    BY <2>1 DEF Stored
  <2> QED
    BY <2>1, <2>2 DEF MirrorInv
<1>5. CASE Dequeue
  <2>1. /\ outcome' = outcome /\ mirror' = mirror /\ diskFaults' = diskFaults
        /\ pc = "loop" /\ pc' = "fetch"
    BY <1>5 DEF Dequeue, faults
  <2>2. \A u : Stored(u)' <=> Stored(u)
    BY <2>1 DEF Stored
  <2> QED
    BY <2>1, <2>2 DEF MirrorInv
<1>6. CASE \/ Snapshot \/ SeedUnusable \/ SeedDisallowed \/ StopCancelled
           \/ QueueEmpty \/ Discover \/ Cancel \/ Kill \/ UNCHANGED vars
           \/ \E policy \in Policies \union {{}} : FetchRobots(policy)
           \/ \E answer \in Answers :
                 \/ StartCrawl(answer) \/ EnqueueSeed(answer) \/ AddVisitedURL(answer)
                 \/ BumpAdded(answer) \/ FinishCrawl(answer)
  <2>1. /\ outcome' = outcome /\ current' = current /\ mirror' = mirror
        /\ diskFaults' = diskFaults
    BY <1>6 DEF Snapshot, SeedUnusable, SeedDisallowed, Fail, StopCancelled,
       QueueEmpty, Discover, Cancel, Kill, FetchRobots, StartCrawl, EnqueueSeed,
       AddVisitedURL, BumpAdded, FinishCrawl, FinishCall, BumpCrawlProgress,
       DbCallWithCtx, DbCall, vars, work, faults
  <2>2. /\ pc' = "write" => pc = "write"
        /\ pc \in {"record", "bump", "write"} =>
              pc' = "killed" \/ pc' \in {"record", "bump", "write"}
        /\ pc = "killed" => pc' = "killed"
    BY <1>6 DEF Snapshot, SeedUnusable, SeedDisallowed, Fail, StopCancelled,
       QueueEmpty, Discover, Cancel, Kill, FetchRobots, StartCrawl, EnqueueSeed,
       AddVisitedURL, BumpAdded, FinishCrawl, vars
  <2>3. \A u : Stored(u)' <=> Stored(u)
    BY <2>1 DEF Stored
  <2> QED
    BY <2>1, <2>2, <2>3 DEF MirrorInv
<1> QED
  BY <1>2, <1>3, <1>4, <1>5, <1>6 DEF Next, Run

\* For every site, link graph and mapping to files: after an "ok" without a
\* failed write, each URL that was answered well has a file with the body of
\* a URL of that file.
THEOREM OkHasFiles == Spec => []OkMirrorComplete
<1>1. IInv /\ MirrorInv => OkMirrorComplete
  <2> SUFFICES ASSUME IInv, MirrorInv, rows.status = "ok", diskFaults = 0,
                      NEW u \in Urls, outcome[u] \in Good
               PROVE  Stored(u)
    BY DEF OkMirrorComplete, Stored
  <2>1. pc = "exited"
    BY DEF IInv, VerdictInv, Verdicts
  <2> QED
    BY <2>1 DEF MirrorInv
<1> QED
  BY <1>1, MirrorInit, MirrorStep, Invariance, PTL DEF Spec

(***************************************************************************)
(* The counters.                                                           *)
(***************************************************************************)
Handled(s) == IF s THEN explored \union {current} ELSE explored

\* While every call works and ctx is live, the row counts what is explored
\* and what has been found.
Exact ==
    /\ visitedUrls = Handled(pc \in {"bump", "write", "discover"})
    /\ rows.visited = Cardinality(Handled(pc \in {"write", "discover"}))
    /\ rows.discovered + (IF pc = "bumpAdded" THEN added ELSE 0)
          = Cardinality(visited)

Agree ==
    /\ rows.visited <= rows.discovered
    /\ rows.visited <= Cardinality(visitedUrls)
    /\ Cardinality(visitedUrls) <= rows.visited + 1

CountInv ==
    dbFaults = 0 =>
        /\ Agree
        /\ ~cancelled /\ pc \notin EndPCs => Exact
        /\ (pc = "finish" /\ finalStatus = "ok") \/ rows.status = "ok"
              => rows.visited = rows.discovered

LEMMA FiniteUrls ==
    ASSUME NEW some \in SUBSET Urls
    PROVE  /\ IsFiniteSet(some) /\ Cardinality(some) \in Nat
           /\ \A u \in Urls \ some :
                 Cardinality(some \union {u}) = Cardinality(some) + 1
           /\ \A less \in SUBSET some : Cardinality(less) <= Cardinality(some)
<1>1. IsFiniteSet(some)
  BY UrlAssumption, FS_Subset DEF UrlAssumption
<1>2. ASSUME NEW u \in Urls \ some
      PROVE  Cardinality(some \union {u}) = Cardinality(some) + 1
  BY <1>1, <1>2, FS_AddElement
<1>3. ASSUME NEW less \in SUBSET some PROVE Cardinality(less) <= Cardinality(some)
  BY <1>1, FS_Subset
<1> QED
  BY <1>1, <1>2, <1>3, FS_CardinalityType

LEMMA CountInit == Init => CountInv
<1> SUFFICES ASSUME Init PROVE CountInv
  OBVIOUS
<1>1. Cardinality({}) = 0
  BY FS_EmptySet
<1> QED
  BY <1>1 DEF Init, CountInv, Agree, Exact, Handled, EndPCs

\* A step that leaves the row and visited_urls alone but for the status.
LEMMA CountQuiet ==
    ASSUME CountInv, visitedUrls' = visitedUrls,
           rows'.visited = rows.visited, rows'.discovered = rows.discovered,
           dbFaults' = 0 => dbFaults = 0, cancelled => cancelled',
           (pc' = "finish" /\ finalStatus' = "ok") \/ rows'.status = "ok"
              => (pc = "finish" /\ finalStatus = "ok") \/ rows.status = "ok",
           dbFaults = 0 /\ Agree /\ Exact /\ ~cancelled' /\ pc \notin EndPCs
              /\ pc' \notin EndPCs => Exact',
           pc \in EndPCs => pc' \in EndPCs
    PROVE  CountInv'
<1>1. Agree' <=> Agree
  BY DEF Agree
<1> QED
  BY <1>1 DEF CountInv

\* BumpCrawlProgress of a crawl that nothing has failed for.
LEMMA BumpCounts ==
    ASSUME TypeOK, NEW answer \in Answers, NEW n \in Nat, NEW m \in Nat,
           BumpCrawlProgress(answer, n, m), dbFaults' = 0
    PROVE  /\ dbFaults = 0 /\ visitedUrls' = visitedUrls
           /\ rows'.status = rows.status
           /\ \/ /\ rows'.visited = rows.visited + n
                 /\ rows'.discovered = rows.discovered + m
              \/ cancelled /\ rows' = rows
           /\ cancelled => cancelled'
<1>1. /\ dbFaults = 0 /\ (cancelled => cancelled')
      /\ TakesEffect(answer) \/ cancelled
  BY NoFault DEF BumpCrawlProgress
<1>2. rows'.status = rows.status
  BY BumpStatus
<1>3. CASE TakesEffect(answer)
  BY <1>1, <1>2, <1>3 DEF BumpCrawlProgress, TypeOK
<1>4. CASE ~TakesEffect(answer)
  BY <1>1, <1>2, <1>4 DEF BumpCrawlProgress
<1> QED
  BY <1>3, <1>4

\* Where the crawl's sets stand, from IInv.
LEMMA Standing ==
    ASSUME IInv
    PROVE  /\ explored \subseteq visited /\ visited \subseteq Urls
           /\ rows.visited \in Nat /\ rows.discovered \in Nat /\ added \in Nat
           /\ pc \in AnsweredPCs =>
                 current \in visited \ explored /\ current \in Urls
           /\ pc \in BeforeLoopPCs => visited = {} /\ explored = {}
BY DEF IInv, TypeOK, QueueInv, ExploredInv, ScopeInv, CurrentInv, HandlingPCs,
   AnsweredPCs, BeforeLoopPCs

LEMMA CountRecord ==
    ASSUME IInv, CountInv, NEW answer \in Answers, AddVisitedURL(answer)
    PROVE  CountInv'
<1> SUFFICES ASSUME dbFaults' = 0
             PROVE  /\ Agree'
                    /\ ~cancelled' /\ pc' \notin EndPCs => Exact'
                    /\ (pc' = "finish" /\ finalStatus' = "ok") \/ rows'.status = "ok"
                          => rows'.visited = rows'.discovered
  BY DEF CountInv
<1>1. /\ pc = "record" /\ pc' = "bump" /\ rows' = rows
      /\ UNCHANGED <<explored, visited, current, added>>
  BY DEF AddVisitedURL, work
<1>2. /\ dbFaults = 0 /\ (TakesEffect(answer) \/ cancelled) /\ Agree
      /\ cancelled => cancelled'
  BY NoFault DEF AddVisitedURL, IInv, CountInv
<1>3. current \in visited \ explored /\ current \in Urls /\ explored \in SUBSET Urls
  BY <1>1, Standing DEF AnsweredPCs
<1>4. rows.status # "ok"
  BY <1>1 DEF IInv, VerdictInv, Over
<1>5. CASE TakesEffect(answer) /\ ~cancelled
  <2>1. /\ visitedUrls = explored /\ rows.visited = Cardinality(explored)
        /\ rows.discovered = Cardinality(visited)
    BY <1>1, <1>2, <1>5, Standing DEF CountInv, Exact, EndPCs, Over, Handled
  <2>2. visitedUrls' = explored \union {current}
    BY <1>5, <2>1 DEF AddVisitedURL
  <2>3. /\ Cardinality(visitedUrls') = Cardinality(explored) + 1
        /\ Cardinality(explored) \in Nat
    BY <1>3, <2>2, FiniteUrls
  <2>4. Agree'
    BY <1>1, <1>2, <2>1, <2>3, Standing DEF Agree
  <2>5. Exact'
    BY <1>1, <2>1, <2>2, Standing DEF Exact, Handled
  <2> QED
    BY <1>1, <1>4, <2>4, <2>5
<1>6. CASE cancelled
  <2>1. visitedUrls' = visitedUrls
    BY <1>6 DEF AddVisitedURL, DbCallWithCtx, TakesEffect
  <2> QED
    BY <1>1, <1>2, <1>4, <1>6, <2>1 DEF Agree
<1> QED
  BY <1>2, <1>5, <1>6

LEMMA CountBump ==
    ASSUME IInv, CountInv, NEW answer \in Answers, BumpVisited(answer)
    PROVE  CountInv'
<1> SUFFICES ASSUME dbFaults' = 0
             PROVE  /\ Agree'
                    /\ ~cancelled' /\ pc' \notin EndPCs => Exact'
                    /\ (pc' = "finish" /\ finalStatus' = "ok") \/ rows'.status = "ok"
                          => rows'.visited = rows'.discovered
  BY DEF CountInv
<1>1. /\ pc = "bump" /\ pc' \in {"write", "loop"}
      /\ explored' = IF pc' = "loop" THEN explored \union {current} ELSE explored
      /\ UNCHANGED <<visited, current, added>>
  BY DEF BumpVisited, GoOn
<1>2. /\ dbFaults = 0 /\ visitedUrls' = visitedUrls /\ rows'.status = rows.status
      /\ \/ rows'.visited = rows.visited + 1 /\ rows'.discovered = rows.discovered + 0
         \/ cancelled /\ rows' = rows
      /\ cancelled => cancelled'
  <2>1. 0 \in Nat /\ 1 \in Nat /\ TypeOK /\ BumpCrawlProgress(answer, 1, 0)
    BY DEF BumpVisited, IInv
  <2> QED
    BY <2>1, BumpCounts
<1>3. current \in visited \ explored /\ current \in Urls /\ explored \in SUBSET Urls
  BY <1>1, Standing DEF AnsweredPCs
<1>4. rows.status # "ok"
  BY <1>1 DEF IInv, VerdictInv, Over
<1>5. Agree
  BY <1>2 DEF CountInv
<1>6. CASE ~cancelled
  <2> DEFINE all == explored \union {current}
  <2>1. /\ visitedUrls = all /\ rows.visited = Cardinality(explored)
        /\ rows.discovered = Cardinality(visited)
    BY <1>1, <1>2, <1>6, Standing DEF CountInv, Exact, EndPCs, Over, Handled
  <2>2. /\ Cardinality(all) = Cardinality(explored) + 1
        /\ Cardinality(explored) \in Nat
    BY <1>3, FiniteUrls
  <2>3. all \in SUBSET visited /\ visited \in SUBSET Urls
    BY <1>3, Standing
  <2>4. Cardinality(all) <= Cardinality(visited) /\ Cardinality(visited) \in Nat
    BY <2>3, FiniteUrls
  <2>5. rows'.visited = Cardinality(all) /\ rows'.discovered = Cardinality(visited)
    BY <1>2, <1>6, <2>1, <2>2, <2>4
  <2>6. Agree'
    BY <1>2, <2>1, <2>2, <2>4, <2>5 DEF Agree
  <2>7. Handled(pc \in {"bump", "write", "discover"})' = all
    BY <1>1 DEF Handled
  <2>8. Handled(pc \in {"write", "discover"})' = all
    BY <1>1 DEF Handled
  <2>9. Exact'
    <3>1. pc' # "bumpAdded" /\ visited' = visited /\ visitedUrls' = all
      BY <1>1, <1>2, <2>1
    <3> HIDE DEF all
    <3> QED
      BY <2>4, <2>5, <2>7, <2>8, <3>1 DEF Exact
  <2> QED
    BY <1>1, <1>2, <1>4, <2>6, <2>9
<1>7. CASE cancelled
  <2>1. rows' = rows
    BY <1>7 DEF BumpVisited, BumpCrawlProgress, DbCallWithCtx, TakesEffect
  <2> QED
    BY <1>1, <1>2, <1>4, <1>5, <1>7, <2>1 DEF Agree
<1> QED
  BY <1>6, <1>7

LEMMA CountBumpAdded ==
    ASSUME IInv, CountInv, NEW answer \in Answers, BumpAdded(answer)
    PROVE  CountInv'
<1> SUFFICES ASSUME dbFaults' = 0
             PROVE  /\ Agree'
                    /\ ~cancelled' /\ pc' \notin EndPCs => Exact'
                    /\ (pc' = "finish" /\ finalStatus' = "ok") \/ rows'.status = "ok"
                          => rows'.visited = rows'.discovered
  BY DEF CountInv
<1>1. /\ pc = "bumpAdded" /\ pc' = "loop"
      /\ UNCHANGED <<explored, visited, current, added>>
  BY DEF BumpAdded, work
<1>2. /\ dbFaults = 0 /\ visitedUrls' = visitedUrls /\ rows'.status = rows.status
      /\ \/ /\ rows'.visited = rows.visited + 0
            /\ rows'.discovered = rows.discovered + added
         \/ cancelled /\ rows' = rows
      /\ cancelled => cancelled'
  <2>1. 0 \in Nat /\ added \in Nat /\ TypeOK /\ BumpCrawlProgress(answer, 0, added)
    BY Standing DEF BumpAdded, IInv
  <2> QED
    BY <2>1, BumpCounts
<1>3. rows.status # "ok"
  BY <1>1 DEF IInv, VerdictInv, Over
<1>4. Agree /\ (~cancelled => Exact)
  BY <1>1, <1>2 DEF CountInv, EndPCs, Over
<1>5. CASE ~cancelled
  <2>1. rows'.visited = rows.visited /\ rows'.discovered = rows.discovered + added
    BY <1>2, <1>5, Standing
  <2>2. Agree'
    BY <1>2, <1>4, <2>1, Standing DEF Agree
  <2>3. Exact'
    BY <1>1, <1>2, <1>4, <1>5, <2>1, Standing DEF Exact, Handled
  <2> QED
    BY <1>1, <1>2, <1>3, <2>2, <2>3
<1>6. CASE cancelled
  <2>1. rows' = rows
    BY <1>6 DEF BumpAdded, BumpCrawlProgress, DbCallWithCtx, TakesEffect
  <2> QED
    BY <1>1, <1>2, <1>3, <1>4, <1>6, <2>1 DEF Agree
<1> QED
  BY <1>5, <1>6

LEMMA CountSeed ==
    ASSUME IInv, CountInv, NEW answer \in Answers, EnqueueSeed(answer)
    PROVE  CountInv'
<1> SUFFICES ASSUME dbFaults' = 0
             PROVE  /\ Agree'
                    /\ ~cancelled' /\ pc' \notin EndPCs => Exact'
                    /\ (pc' = "finish" /\ finalStatus' = "ok") \/ rows'.status = "ok"
                          => rows'.visited = rows'.discovered
  BY DEF CountInv
<1>1. /\ pc = "seed" /\ pc' = "loop"
      /\ visited' = {Seed} /\ UNCHANGED <<explored, current, added>>
  BY DEF EnqueueSeed
<1>2. /\ dbFaults = 0 /\ visitedUrls' = visitedUrls /\ rows'.status = rows.status
      /\ \/ rows'.visited = rows.visited + 0 /\ rows'.discovered = rows.discovered + 1
         \/ cancelled /\ rows' = rows
      /\ cancelled => cancelled'
  <2>1. 0 \in Nat /\ 1 \in Nat /\ TypeOK /\ BumpCrawlProgress(answer, 0, 1)
    BY DEF EnqueueSeed, IInv
  <2> QED
    BY <2>1, BumpCounts
<1>3. rows.status # "ok"
  BY <1>1 DEF IInv, VerdictInv, Over
<1>4. Agree /\ (~cancelled => Exact)
  BY <1>1, <1>2 DEF CountInv, EndPCs, Over
<1>5. CASE ~cancelled
  <2>1. rows'.visited = rows.visited /\ rows'.discovered = rows.discovered + 1
    BY <1>2, <1>5, Standing
  <2>2. explored = {} /\ visited = {} /\ Cardinality({}) = 0 /\ Cardinality({Seed}) = 1
    BY <1>1, Standing, FS_EmptySet, FS_Singleton DEF BeforeLoopPCs
  <2>3. Agree'
    BY <1>2, <1>4, <2>1, Standing DEF Agree
  <2>4. Exact'
    BY <1>1, <1>2, <1>4, <1>5, <2>1, <2>2, Standing DEF Exact, Handled
  <2> QED
    BY <1>1, <1>2, <1>3, <2>3, <2>4
<1>6. CASE cancelled
  <2>1. rows' = rows
    BY <1>6 DEF EnqueueSeed, BumpCrawlProgress, DbCallWithCtx, TakesEffect
  <2> QED
    BY <1>1, <1>2, <1>3, <1>4, <1>6, <2>1 DEF Agree
<1> QED
  BY <1>5, <1>6

LEMMA CountDiscover ==
    ASSUME IInv, CountInv, Discover
    PROVE  CountInv'
<1>1. /\ pc = "discover" /\ current \in Urls
      /\ pc' = IF LinksAdded(current) > 0 THEN "bumpAdded" ELSE "loop"
      /\ visited' = visited \union NewLinks(current)
      /\ added' = LinksAdded(current)
      /\ explored' = explored \union {current}
      /\ UNCHANGED <<current, rows, visitedUrls, finalStatus, cancelled, dbFaults>>
  BY Standing DEF Discover, log, faults, AnsweredPCs
<1>2. /\ NewLinks(current) \in SUBSET Urls /\ IsFiniteSet(NewLinks(current))
      /\ LinksAdded(current) \in Nat
  BY <1>1, NewLinksLemma
<1>3. visited \in SUBSET Urls /\ IsFiniteSet(visited) /\ Cardinality(visited) \in Nat
  BY Standing, FiniteUrls
<1>4. Cardinality(visited') = Cardinality(visited) + LinksAdded(current)
  <2>1. visited \intersect NewLinks(current) = {}
    BY DEF NewLinks
  <2>2. Cardinality(visited') = Cardinality(visited)
           + Cardinality(NewLinks(current))
           - Cardinality(visited \intersect NewLinks(current))
    BY <1>1, <1>2, <1>3, FS_Union
  <2>3. Cardinality(visited \intersect NewLinks(current)) = 0
    BY <2>1, FS_EmptySet
  <2> QED
    BY <1>2, <1>3, <2>2, <2>3 DEF LinksAdded
<1>5. ASSUME Exact PROVE Exact'
  <2>1. /\ visitedUrls = explored \union {current}
        /\ rows.visited = Cardinality(explored \union {current})
        /\ rows.discovered = Cardinality(visited)
    BY <1>1, <1>5, Standing DEF Exact, Handled
  <2>2. rows.discovered + (IF pc' = "bumpAdded" THEN LinksAdded(current) ELSE 0)
           = Cardinality(visited')
    BY <1>1, <1>2, <1>3, <1>4, <2>1
  <2>3. visitedUrls' = Handled(pc \in {"bump", "write", "discover"})'
    BY <1>1, <2>1 DEF Handled
  <2>4. rows'.visited = Cardinality(Handled(pc \in {"write", "discover"}))'
    BY <1>1, <2>1 DEF Handled
  <2> QED
    BY <1>1, <2>2, <2>3, <2>4 DEF Exact
<1>6. pc' \in {"bumpAdded", "loop"} /\ pc \notin EndPCs
  BY <1>1 DEF EndPCs, Over
<1> QED
  BY <1>1, <1>5, <1>6, CountQuiet

LEMMA CountWrite ==
    ASSUME IInv, CountInv, NEW works \in BOOLEAN, Write(works)
    PROVE  CountInv'
<1>1. /\ pc = "write" /\ pc' \in {"discover", "loop"}
      /\ explored' = IF pc' = "loop" THEN explored \union {current} ELSE explored
      /\ UNCHANGED <<visited, current, added, rows, visitedUrls, finalStatus,
                     cancelled, dbFaults>>
  BY DEF Write, GoOn, AfterWrite, log
<1>2. ASSUME Exact PROVE Exact'
  BY <1>1, <1>2 DEF Exact, Handled
<1>3. pc \notin EndPCs
  BY <1>1 DEF EndPCs, Over
<1> QED
  BY <1>1, <1>2, <1>3, CountQuiet

LEMMA CountEmpty ==
    ASSUME IInv, CountInv, QueueEmpty
    PROVE  CountInv'
<1>1. /\ pc = "loop" /\ pc' = "finish" /\ ~cancelled
      /\ UNCHANGED <<rows, visitedUrls, dbFaults, visited, explored>>
  BY DEF QueueEmpty, work, log, faults
<1>2. visited = explored
  <2>1. Range(queue) = {}
    BY DEF QueueEmpty, Range
  <2> QED
    BY <1>1, <2>1 DEF IInv, QueueInv, ExploredInv, AnsweredPCs
<1>3. dbFaults = 0 => rows.visited = rows.discovered
  BY <1>1, <1>2, Standing DEF CountInv, Exact, EndPCs, Over, Handled
<1>4. Agree' <=> Agree
  BY <1>1 DEF Agree
<1> QED
  BY <1>1, <1>3, <1>4 DEF CountInv, EndPCs, Over

\* Before the loop, Dequeue and Fetch, the end.
LEMMA CountRest ==
    ASSUME IInv, CountInv,
           \/ \E answer \in Answers : StartCrawl(answer) \/ FinishCrawl(answer)
           \/ Snapshot \/ SeedUnusable \/ SeedDisallowed \/ StopCancelled
           \/ Dequeue \/ Cancel \/ Kill \/ UNCHANGED vars
           \/ \E policy \in Policies \union {{}} : FetchRobots(policy)
           \/ \E result \in Outcomes : Fetch(result)
    PROVE  CountInv'
<1>1. CASE \E answer \in Answers : StartCrawl(answer) \/ FinishCrawl(answer)
  <2>1. PICK answer \in Answers : StartCrawl(answer) \/ FinishCrawl(answer)
    BY <1>1
  <2>2. /\ visitedUrls' = visitedUrls
        /\ cancelled => cancelled'
        /\ UNCHANGED <<explored, visited, current, added, finalStatus>>
    BY <2>1, StaysCancelled DEF StartCrawl, FinishCrawl, FinishCall, work
  <2>3. rows'.visited = rows.visited /\ rows'.discovered = rows.discovered
    BY <2>1 DEF StartCrawl, FinishCrawl, IInv, TypeOK
  <2>4. dbFaults' = 0 => dbFaults = 0
    BY <2>1, NoFault DEF StartCrawl, FinishCrawl, FinishCall, IInv
  <2>5. \/ pc = "start" /\ pc' \in {"snapshot", "refused"}
        \/ pc = "finish" /\ pc' = "exited"
    BY <2>1 DEF StartCrawl, FinishCrawl
  <2>6. rows'.status = "ok" => rows.status = "ok" \/ (pc = "finish" /\ finalStatus = "ok")
    BY <2>1 DEF StartCrawl, FinishCrawl, IInv, TypeOK
  <2>7. pc \notin EndPCs /\ pc' \notin EndPCs /\ Exact => Exact'
    BY <2>2, <2>3, <2>5 DEF EndPCs, Over, Exact, Handled
  <2> QED
    BY <2>2, <2>3, <2>4, <2>5, <2>6, <2>7, CountQuiet DEF EndPCs, Over
<1>2. CASE \/ Snapshot \/ SeedUnusable \/ SeedDisallowed \/ StopCancelled
           \/ Dequeue \/ Cancel \/ Kill \/ UNCHANGED vars
           \/ \E policy \in Policies \union {{}} : FetchRobots(policy)
           \/ \E result \in Outcomes : Fetch(result)
  <2>1. /\ UNCHANGED <<explored, visited, added, rows, visitedUrls, dbFaults>>
        /\ cancelled => cancelled'
    BY <1>2 DEF Snapshot, SeedUnusable, SeedDisallowed, Fail, StopCancelled,
       Dequeue, Cancel, Kill, FetchRobots, Fetch, vars, work, log, faults
  <2>2. /\ \/ current' = current
           \/ pc = "loop" /\ pc' = "fetch"
        /\ \/ pc' = pc \/ pc' \in EndPCs
           \/ pc \in BeforeLoopPCs \/ pc \in {"loop", "fetch"}
        /\ pc \in BeforeLoopPCs => pc' \in BeforeLoopPCs \union EndPCs
        /\ pc = "loop" => pc' \in {"loop", "fetch"} \union EndPCs
        /\ pc = "fetch" => pc' \in {"fetch", "record"} \union EndPCs
        /\ pc \in EndPCs => pc' \in EndPCs
        /\ pc' = "finish" /\ finalStatus' = "ok" => pc = "finish" /\ finalStatus = "ok"
    BY <1>2 DEF Snapshot, SeedUnusable, SeedDisallowed, Fail, StopCancelled,
       StoppedStatus, Dequeue, Cancel, Kill, FetchRobots, Fetch, vars, work,
       BeforeLoopPCs, EndPCs, Over
  <2>3. pc \notin EndPCs /\ pc' \notin EndPCs /\ Exact => Exact'
    BY <2>1, <2>2 DEF Exact, Handled, BeforeLoopPCs, EndPCs, Over
  <2> QED
    BY <2>1, <2>2, <2>3, CountQuiet
<1> QED
  BY <1>1, <1>2

LEMMA CountStep == IInv /\ CountInv /\ [Next]_vars => CountInv'
BY CountRecord, CountBump, CountBumpAdded, CountSeed, CountDiscover, CountWrite,
   CountEmpty, CountRest DEF Next, Run

\* For every site and any number of cancels and kills: while no database call
\* has failed, the counters agree with each other and with visited_urls, and
\* an "ok" row has visited what it discovered.
THEOREM CountersAgree == Spec => []ProgressConsistent
<1>1. IInv /\ CountInv => ProgressConsistent
  BY DEF CountInv, Agree, ProgressConsistent
<1> QED
  BY <1>1, CountInit, CountStep, Invariance, PTL DEF Spec

(***************************************************************************)
(* Crawl implements CrawlProcess.                                          *)
(***************************************************************************)
LEMMA ProcessInit == Init => Process!Init
BY DEF Init, Process!Init, Stage, Over

\* Steps after StartCrawl and before FinishCrawl leave the row's status alone,
\* and the pod but for SIGTERM during a call.
LEMMA ProcessQuiet ==
    ASSUME rows'.status = rows.status, cancelled => cancelled',
           cancelled \in BOOLEAN, cancelled' \in BOOLEAN,
           pc \notin {"start"} \union Over,
           pc' \notin {"start"} \union Over
    PROVE  [Process!Next]_(Process!vars)
<1>1. CASE cancelled' = cancelled
  BY <1>1 DEF Process!vars, Stage
<1>2. CASE ~cancelled /\ cancelled'
  <2>1. Process!Stop
    BY <1>2 DEF Process!Stop, Stage
  <2> QED
    BY <2>1 DEF Process!Next
<1> QED
  BY <1>1, <1>2

LEMMA ProcessStep ==
    IInv /\ ExitInv /\ [Next]_vars => [Process!Next]_(Process!vars)
<1> SUFFICES ASSUME IInv, ExitInv, [Next]_vars
             PROVE  [Process!Next]_(Process!vars)
  OBVIOUS
<1>1. TypeOK /\ VerdictInv /\ TypeOK'
  BY TypeStep DEF IInv
<1>2. ASSUME NEW answer \in Answers, StartCrawl(answer)
      PROVE  [Process!Next]_(Process!vars)
  <2>1. /\ Stage = "starting" /\ rows.status = "absent"
        /\ pc' = IF answer = "works" THEN "snapshot" ELSE "refused"
    BY <1>1, <1>2 DEF StartCrawl, VerdictInv, Stage, Over
  <2>2. CASE answer = "works"
    <3>1. ~cancelled /\ cancelled' = cancelled /\ rows'.status = "running"
      BY <1>1, <1>2, <2>2 DEF StartCrawl, DbCallWithCtx, DbCall, TakesEffect, TypeOK
    <3>2. Process!Start
      BY <2>1, <2>2, <3>1 DEF Process!Start, Stage, Over
    <3> QED
      BY <3>2 DEF Process!Next
  <2>3. CASE answer = "unanswered"
    <3>1. rows'.status = "running"
      BY <1>1, <1>2, <2>3 DEF StartCrawl, TakesEffect, TypeOK
    <3>2. Process!StartUnheard
      BY <2>1, <2>3, <3>1 DEF Process!StartUnheard, Stage, Over
    <3> QED
      BY <3>2 DEF Process!Next
  <2>4. CASE answer = "fails"
    <3>1. Process!NeverStart
      BY <1>2, <2>1, <2>4 DEF StartCrawl, TakesEffect, Process!NeverStart, Stage,
         Over
    <3> QED
      BY <3>1 DEF Process!Next
  <2> QED
    BY <2>2, <2>3, <2>4 DEF Answers
<1>3. ASSUME NEW answer \in Answers, FinishCrawl(answer)
      PROVE  [Process!Next]_(Process!vars)
  <2>1. Process!AtWork /\ Stage' = "ended" /\ rows.status = "running"
    BY <1>1, <1>3 DEF FinishCrawl, VerdictInv, Process!AtWork, Stage, Over
  <2>2. CASE TakesEffect(answer)
    <3>1. rows'.status = finalStatus
      BY <1>1, <1>3, <2>2 DEF FinishCrawl, TypeOK
    <3>2. finalStatus = "cancelled" => Stage = "stopping"
      BY <1>3 DEF ExitInv, FinishCrawl, Stage, Over
    <3>3. Process!End(finalStatus)
      BY <2>1, <3>1, <3>2 DEF Process!End
    <3>4. finalStatus \in {"ok", "failed", "cancelled"}
      BY <1>1 DEF TypeOK, Verdicts
    <3> QED
      BY <3>3, <3>4 DEF Process!Next
  <2>3. CASE ~TakesEffect(answer)
    <3>1. Process!Die
      BY <1>3, <2>1, <2>3 DEF FinishCrawl, Process!Die
    <3> QED
      BY <3>1 DEF Process!Next
  <2> QED
    BY <2>2, <2>3
<1>4. CASE Cancel
  <2>1. CASE pc = "start"
    BY <1>4, <2>1 DEF Cancel, log, Process!vars, Stage, Over
  <2>2. CASE pc # "start"
    <3>1. Process!Stop
      BY <1>4, <2>2 DEF Cancel, log, Process!Stop, Stage, Over
    <3> QED
      BY <3>1 DEF Process!Next
  <2> QED
    BY <2>1, <2>2
<1>5. CASE Kill
  <2>1. Stage' = "ended" /\ rows' = rows
    BY <1>5 DEF Kill, log, Stage, Over
  <2>2. Stage \in {"starting", "crawling", "stopping"}
    BY <1>5 DEF Kill, Stage
  <2>3. Process!NeverStart \/ Process!Die
    BY <2>1, <2>2 DEF Process!NeverStart, Process!Die, Process!AtWork
  <2> QED
    BY <2>3 DEF Process!Next
<1>6. ASSUME NEW answer \in Answers,
             \/ EnqueueSeed(answer) \/ AddVisitedURL(answer) \/ BumpVisited(answer)
             \/ BumpAdded(answer)
      PROVE  [Process!Next]_(Process!vars)
  <2>1. 0 \in Nat /\ 1 \in Nat /\ added \in Nat
    BY <1>1 DEF TypeOK
  <2>2. rows'.status = rows.status
    BY <1>1, <1>6, <2>1, BumpStatus DEF EnqueueSeed, AddVisitedURL, BumpVisited,
       BumpAdded
  <2>3. /\ pc \notin {"start"} \union Over
        /\ pc' \notin {"start"} \union Over
    BY <1>6 DEF EnqueueSeed, AddVisitedURL, BumpVisited, BumpAdded, GoOn, Over
  <2>4. cancelled => cancelled'
    BY <1>6, StaysCancelled DEF EnqueueSeed, AddVisitedURL, BumpVisited, BumpAdded,
       BumpCrawlProgress
  <2> QED
    BY <1>1, <2>2, <2>3, <2>4, ProcessQuiet DEF TypeOK
<1>7. CASE \/ Snapshot \/ SeedUnusable \/ SeedDisallowed \/ StopCancelled
           \/ QueueEmpty \/ Dequeue \/ Discover
           \/ \E policy \in Policies \union {{}} : FetchRobots(policy)
           \/ \E result \in Outcomes : Fetch(result)
           \/ \E works \in BOOLEAN : Write(works)
  <2>1. /\ rows' = rows /\ cancelled' = cancelled
        /\ pc \notin {"start"} \union Over
        /\ pc' \notin {"start"} \union Over
    BY <1>7 DEF Snapshot, SeedUnusable, SeedDisallowed, Fail, StopCancelled,
       QueueEmpty, Dequeue, Discover, FetchRobots, Fetch, Write, GoOn, AfterWrite,
       log, Over
  <2> QED
    BY <1>1, <2>1, ProcessQuiet DEF TypeOK
<1>8. CASE UNCHANGED vars
  BY <1>8 DEF vars, log, Process!vars, Stage
<1> QED
  BY <1>2, <1>3, <1>4, <1>5, <1>6, <1>7, <1>8 DEF Next, Run

\* For every site and any number of failures a crawl is what the cluster and
\* the portal take its pod for: it opens its row once, before anything else, or
\* ends without hearing of it; it closes the row it knows of last, and is never
\* "cancelled" without SIGTERM.
THEOREM CrawlIsAProcess == Spec => ProcessSpec
<1>1. IInv /\ ExitInv /\ [Next]_vars => [Process!Next]_(Process!vars)
  BY ProcessStep
<1> QED
  BY <1>1, ProcessInit, ExitInit, ExitStep, Invariance, PTL
     DEF Spec, ProcessSpec, Process!Spec
=============================================================================
