---------------------------- MODULE CrawlProofs ----------------------------
(***************************************************************************)
(* Safety of one crawl for every site: the types, that the queue holds     *)
(* exactly the URLs found and not yet requested, scope, at most one        *)
(* request per URL, what "ok" means, and that Crawl implements             *)
(* SiteExploration.                                                        *)
(***************************************************************************)
EXTENDS Crawl, SequenceTheorems, FiniteSetTheorems, TLAPS

(***************************************************************************)
(* The queue as a sequence without repetitions.                            *)
(***************************************************************************)
LEMMA TailLemma ==
    ASSUME NEW S, NEW s \in Seq(S), s # <<>>, IsInjective(s)
    PROVE  /\ Head(s) \in S /\ Head(s) \in Range(s)
           /\ Tail(s) \in Seq(S) /\ IsInjective(Tail(s))
           /\ Range(Tail(s)) = Range(s) \ {Head(s)}
<1>1. /\ DOMAIN s = 1 .. Len(s) /\ Len(s) \in Nat \ {0}
      /\ Head(s) = s[1] /\ Head(s) \in S
      /\ Tail(s) \in Seq(S) /\ Len(Tail(s)) = Len(s) - 1
      /\ DOMAIN Tail(s) = 1 .. Len(s) - 1
      /\ \A i \in 1 .. Len(s) - 1 : Tail(s)[i] = s[i + 1]
  BY HeadTailProperties, LenProperties, EmptySeq
<1>2. Head(s) \in Range(s)
  BY <1>1 DEF Range
<1>3. IsInjective(Tail(s))
  BY <1>1 DEF IsInjective
<1>4. ASSUME NEW x \in Range(Tail(s))
      PROVE  x \in Range(s) \ {Head(s)}
  <2>1. PICK i \in 1 .. Len(s) - 1 : x = s[i + 1]
    BY <1>1 DEF Range
  <2> QED
    BY <1>1, <2>1 DEF Range, IsInjective
<1>5. ASSUME NEW x \in Range(s) \ {Head(s)}
      PROVE  x \in Range(Tail(s))
  <2>1. PICK i \in 1 .. Len(s) : x = s[i]
    BY <1>1 DEF Range
  <2>2. i - 1 \in 1 .. Len(s) - 1 /\ Tail(s)[i - 1] = x
    BY <1>1, <2>1
  <2> QED
    BY <1>1, <2>2 DEF Range
<1> QED
  BY <1>1, <1>2, <1>3, <1>4, <1>5

LEMMA ConcatLemma ==
    ASSUME NEW S, NEW s \in Seq(S), NEW t \in Seq(S),
           IsInjective(s), IsInjective(t), Range(s) \intersect Range(t) = {}
    PROVE  /\ s \o t \in Seq(S) /\ IsInjective(s \o t)
           /\ Range(s \o t) = Range(s) \union Range(t)
<1> DEFINE m == Len(s)
           n == Len(t)
           c == s \o t
<1>1. /\ m \in Nat /\ n \in Nat /\ c \in Seq(S)
      /\ DOMAIN s = 1 .. m /\ DOMAIN t = 1 .. n /\ DOMAIN c = 1 .. m + n
      /\ \A i \in 1 .. m + n : c[i] = IF i <= m THEN s[i] ELSE t[i - m]
  BY ConcatProperties, LenProperties
<1> HIDE DEF m, n, c
<1>2. \A i \in 1 .. m : s[i] \in Range(s)
  BY <1>1 DEF Range
<1>3. \A i \in 1 .. n : t[i] \in Range(t)
  BY <1>1 DEF Range
<1>4. ASSUME NEW i \in 1 .. m + n, NEW j \in 1 .. m + n, c[i] = c[j]
      PROVE  i = j
  <2>1. CASE i <= m /\ j <= m
    <3>1. i \in 1 .. m /\ j \in 1 .. m /\ s[i] = s[j]
      BY <1>1, <1>4, <2>1
    <3> QED
      BY <1>1, <3>1 DEF IsInjective
  <2>2. CASE i > m /\ j > m
    <3>1. i - m \in 1 .. n /\ j - m \in 1 .. n /\ t[i - m] = t[j - m]
      BY <1>1, <1>4, <2>2
    <3>2. i - m = j - m
      BY <1>1, <3>1 DEF IsInjective
    <3> QED
      BY <1>1, <3>2
  <2>3. CASE i <= m /\ j > m
    <3>1. i \in 1 .. m /\ j - m \in 1 .. n /\ s[i] = t[j - m]
      BY <1>1, <1>4, <2>3
    <3> QED
      BY <1>2, <1>3, <3>1
  <2>4. CASE i > m /\ j <= m
    <3>1. j \in 1 .. m /\ i - m \in 1 .. n /\ s[j] = t[i - m]
      BY <1>1, <1>4, <2>4
    <3> QED
      BY <1>2, <1>3, <3>1
  <2> QED
    BY <1>1, <2>1, <2>2, <2>3, <2>4
<1>5. IsInjective(c)
  BY <1>1, <1>4 DEF IsInjective
<1>6. ASSUME NEW x \in Range(c)
      PROVE  x \in Range(s) \union Range(t)
  <2>1. PICK i \in 1 .. m + n : x = c[i]
    BY <1>1 DEF Range
  <2>2. i <= m => i \in 1 .. m
    BY <1>1
  <2>3. i > m => i - m \in 1 .. n
    BY <1>1
  <2> QED
    BY <1>1, <1>2, <1>3, <2>1, <2>2, <2>3
<1>7. ASSUME NEW x \in Range(s) \union Range(t)
      PROVE  x \in Range(c)
  <2>1. CASE x \in Range(s)
    <3>1. PICK i \in 1 .. m : x = s[i]
      BY <1>1, <2>1 DEF Range
    <3>2. i \in 1 .. m + n /\ c[i] = x
      BY <1>1, <3>1
    <3> QED
      BY <1>1, <3>2 DEF Range
  <2>2. CASE x \in Range(t)
    <3>1. PICK i \in 1 .. n : x = t[i]
      BY <1>1, <2>2 DEF Range
    <3>2. m + i \in 1 .. m + n /\ c[m + i] = x
      BY <1>1, <3>1
    <3> QED
      BY <1>1, <3>2 DEF Range
  <2> QED
    BY <1>7, <2>1, <2>2
<1> QED
  BY <1>1, <1>5, <1>6, <1>7 DEF c

LEMMA OrdersLemma ==
    ASSUME NEW S, IsFiniteSet(S), NEW s \in Orders(S)
    PROVE  s \in Seq(S) /\ IsInjective(s) /\ Range(s) = S
BY FS_CardinalityType DEF Orders

(***************************************************************************)
(* Types.                                                                  *)
(***************************************************************************)
LEMMA NewLinksLemma ==
    ASSUME NEW u \in Urls
    PROVE  /\ NewLinks(u) \subseteq Urls /\ IsFiniteSet(NewLinks(u))
           /\ LinksAdded(u) \in Nat
<1>1. NewLinks(u) \subseteq Urls
  BY UrlAssumption DEF UrlAssumption, NewLinks
<1>2. IsFiniteSet(NewLinks(u))
  BY <1>1, FS_Subset, UrlAssumption DEF UrlAssumption
<1> QED
  BY <1>1, <1>2, FS_CardinalityType DEF LinksAdded

LEMMA TypeInit == Init => TypeOK
<1> SUFFICES ASSUME Init PROVE TypeOK
  OBVIOUS
<1>1. /\ pc \in PCs /\ enforceRobots \in BOOLEAN /\ cancelled \in BOOLEAN
      /\ finalStatus \in Verdicts
  BY DEF Init, PCs, Verdicts
<1>7. queue \in Seq(Urls)
  BY EmptySeq DEF Init
<1>2. /\ disallowed \subseteq Urls /\ explored \subseteq Urls
      /\ visited \subseteq Urls /\ current \in Urls \union {NoUrl}
      /\ visitedUrls \subseteq Urls
  BY DEF Init
<1>3. outcome \in [Urls -> Outcomes \union {"none"}]
  BY DEF Init
<1>4. mirror \in [Paths -> Urls \union {NoUrl}]
  BY DEF Init
<1>5. rows \in [status : Verdicts \union {"absent", "running"},
               visited : Nat, discovered : Nat]
  BY DEF Init
<1>6. added \in Nat /\ dbFaults \in 0 .. MaxFaults /\ diskFaults \in 0 .. MaxFaults
  BY UrlAssumption DEF Init, UrlAssumption
<1> QED
  BY <1>1, <1>2, <1>3, <1>4, <1>5, <1>6, <1>7 DEF TypeOK

\* While a URL is being handled current is that URL.
HandlingPCs == {"fetch", "record", "bump", "write", "discover", "bumpAdded"}

CurrentInv == pc \in HandlingPCs => current \in Urls

LEMMA TypeStep ==
    ASSUME TypeOK, CurrentInv, [Next]_vars
    PROVE  TypeOK' /\ CurrentInv'
<1> USE UrlAssumption DEF UrlAssumption, TypeOK, CurrentInv, HandlingPCs, PCs, Over,
    Verdicts, site, work, log, faults
<1>1. ASSUME NEW answer, DbCall(answer) \/ DbCallWithCtx(answer)
      PROVE  /\ dbFaults' \in 0 .. MaxFaults /\ diskFaults' \in 0 .. MaxFaults
             /\ cancelled' \in BOOLEAN
  <2>1. CASE DbCall(answer)
    BY <2>1 DEF DbCall
  <2>2. CASE DbCallWithCtx(answer) /\ ~DbCall(answer)
    BY <2>2 DEF DbCallWithCtx
  <2> QED
    BY <1>1, <2>1, <2>2
<1>2. ASSUME NEW answer \in Answers, NEW n \in Nat, NEW m \in Nat,
              BumpCrawlProgress(answer, n, m)
       PROVE  /\ rows' \in [status : Verdicts \union {"absent", "running"},
                            visited : Nat, discovered : Nat]
              /\ visitedUrls' \subseteq Urls
              /\ dbFaults' \in 0 .. MaxFaults /\ diskFaults' \in 0 .. MaxFaults
              /\ cancelled' \in BOOLEAN
  <2>1. rows' \in [status : Verdicts \union {"absent", "running"},
                  visited : Nat, discovered : Nat]
    <3>1. CASE TakesEffect(answer)
      <4>1. rows' = [rows EXCEPT !.visited = rows.visited + n,
                                 !.discovered = rows.discovered + m]
        BY <1>2, <3>1 DEF BumpCrawlProgress
      <4>2. rows.visited + n \in Nat /\ rows.discovered + m \in Nat
        OBVIOUS
      <4> HIDE DEF Verdicts
      <4> QED
        BY <4>1, <4>2
    <3>2. CASE ~TakesEffect(answer)
      BY <1>2, <3>2 DEF BumpCrawlProgress
    <3> QED
      BY <3>1, <3>2
  <2> QED
    BY <1>1, <1>2, <2>1 DEF BumpCrawlProgress
<1>3. ASSUME NEW answer \in Answers, StartCrawl(answer)
      PROVE  TypeOK' /\ CurrentInv'
  BY <1>1, <1>3 DEF StartCrawl
<1>4. ASSUME NEW answer \in Answers, EnqueueSeed(answer)
      PROVE  TypeOK' /\ CurrentInv'
  <2>1. queue' \in Seq(Urls)
    BY <1>4 DEF EnqueueSeed
  <2> QED
    BY <1>2, <1>4, <2>1 DEF EnqueueSeed
<1>5. ASSUME NEW answer \in Answers, AddVisitedURL(answer)
      PROVE  TypeOK' /\ CurrentInv'
  BY <1>1, <1>5 DEF AddVisitedURL
<1>6. ASSUME NEW answer \in Answers, BumpVisited(answer)
      PROVE  TypeOK' /\ CurrentInv'
  BY <1>6, <1>2 DEF BumpVisited, GoOn
<1>7. ASSUME NEW works \in BOOLEAN, Write(works)
      PROVE  TypeOK' /\ CurrentInv'
  <2>1. mirror' \in [Paths -> Urls \union {NoUrl}]
    BY <1>7 DEF Write, WriteFile
  <2>2. /\ diskFaults' \in 0 .. MaxFaults /\ dbFaults' \in 0 .. MaxFaults
        /\ pc' \in PCs /\ explored' \subseteq Urls
    BY <1>7 DEF Write, GoOn, AfterWrite
  <2> QED
    BY <1>7, <2>1, <2>2 DEF Write, GoOn
<1>8. ASSUME NEW answer \in Answers, BumpAdded(answer)
      PROVE  TypeOK' /\ CurrentInv'
  BY <1>8, <1>2 DEF BumpAdded
<1>9. ASSUME NEW answer \in Answers, FinishCrawl(answer)
      PROVE  TypeOK' /\ CurrentInv'
  BY <1>1, <1>9 DEF FinishCrawl, FinishCall
<1>10. CASE Snapshot \/ SeedUnusable \/ SeedDisallowed \/ StopCancelled
           \/ QueueEmpty \/ Cancel \/ Kill \/ UNCHANGED vars
  BY <1>10 DEF Snapshot, SeedUnusable, SeedDisallowed, Fail, StopCancelled,
              StoppedStatus, QueueEmpty, Cancel, Kill, vars
<1>11. ASSUME NEW policy \in Policies \union {{}}, FetchRobots(policy)
      PROVE  TypeOK' /\ CurrentInv'
  BY <1>11 DEF FetchRobots
<1>12. CASE Dequeue
  BY <1>12, HeadTailProperties DEF Dequeue
<1>13. ASSUME NEW result \in Outcomes, Fetch(result)
       PROVE  TypeOK' /\ CurrentInv'
  BY <1>13 DEF Fetch
<1>14. CASE Discover
  <2>1. PICK links \in Orders(NewLinks(current)) : queue' = queue \o links
    BY <1>14 DEF Discover
  <2>2. links \in Seq(NewLinks(current))
    BY <1>14, <2>1, NewLinksLemma, OrdersLemma DEF Discover
  <2>3. links \in Seq(Urls)
    BY <1>14, <2>2, NewLinksLemma, SeqMonotonic DEF Discover
  <2>4. queue' \in Seq(Urls)
    BY <2>1, <2>3, ConcatProperties
  <2> QED
    BY <1>14, <2>4, NewLinksLemma DEF Discover
<1> QED
  BY <1>3, <1>4, <1>5, <1>6, <1>7, <1>8, <1>9, <1>10, <1>11, <1>12, <1>13, <1>14
  DEF Next, Run

\* Every variable of Run, the row and the mirror stay within their ranges.
THEOREM TypeCorrect == Spec => []TypeOK
<1>1. Init => TypeOK /\ CurrentInv
  BY TypeInit DEF Init, CurrentInv, HandlingPCs
<1>2. TypeOK /\ CurrentInv /\ [Next]_vars => TypeOK' /\ CurrentInv'
  BY TypeStep
<1> QED
  BY <1>1, <1>2, PTL DEF Spec

(***************************************************************************)
(* The inductive invariant.  visited is what the queue still holds, plus   *)
(* what was requested, plus the URL being requested; a URL is explored     *)
(* once its own turn of the loop is over.                                  *)
(***************************************************************************)
Requested == {u \in Urls : outcome[u] # "none"}
AnsweredPCs == {"record", "bump", "write", "discover"}
BeforeLoopPCs == {"start", "snapshot", "robots", "seed"}

QueueInv ==
    /\ IsInjective(queue)
    /\ Range(queue) \intersect Requested = {}
    /\ Range(queue) \union Requested \subseteq visited
    /\ pc = "fetch" => /\ current \in visited
                       /\ current \notin Range(queue) \union Requested
                       /\ visited = Range(queue) \union Requested \union {current}
    /\ pc \notin {"fetch", "killed"} => visited = Range(queue) \union Requested

ExploredInv ==
    /\ explored \subseteq Requested
    /\ pc \in AnsweredPCs => /\ current \in Requested
                             /\ explored = Requested \ {current}
    /\ pc \notin AnsweredPCs \union {"killed"} => explored = Requested

ScopeInv ==
    /\ visited \subseteq OnHost /\ \A u \in visited : Allowed(u)
    /\ pc \in BeforeLoopPCs => visited = {}

LinksInv ==
    \A u \in explored : outcome[u] = "html" =>
        \A l \in Links[u] \intersect OnHost : Allowed(l) => l \in visited

VerdictInv ==
    /\ pc = "start" => rows.status = "absent"
    /\ pc \notin {"start"} \union Over => rows.status = "running"
    /\ pc \notin {"finish"} \union Over => finalStatus = "ok"
    /\ pc \in HandlingPCs \union {"loop"} => Seed \in visited
    /\ pc = "finish" /\ finalStatus = "ok" => Seed \in explored /\ visited = explored
    /\ rows.status = "ok" => Seed \in explored /\ visited = explored
    /\ rows.status \in Verdicts => pc = "exited"

IInv ==
    TypeOK /\ CurrentInv /\ QueueInv /\ ExploredInv /\ ScopeInv /\ LinksInv
        /\ VerdictInv

\* A step that leaves the crawl's sets alone and only moves on.
Quiet == UNCHANGED <<queue, visited, current, outcome, explored, enforceRobots>>

LEMMA QuietSteps ==
    ASSUME NEW answer \in Answers, NEW policy \in Policies \union {{}},
           \/ StartCrawl(answer) \/ Snapshot \/ SeedUnusable \/ FetchRobots(policy)
           \/ SeedDisallowed \/ StopCancelled \/ QueueEmpty \/ AddVisitedURL(answer)
           \/ BumpAdded(answer) \/ FinishCrawl(answer) \/ Cancel \/ Kill
           \/ UNCHANGED vars
    PROVE  /\ Quiet
           /\ disallowed' = disallowed \/ pc = "robots"
           /\ \/ pc' = pc \/ pc' = "killed"
              \/ pc \in BeforeLoopPCs /\ pc' \in BeforeLoopPCs \union {"finish", "refused"}
              \/ pc = "loop" /\ pc' = "finish"
              \/ pc = "record" /\ pc' = "bump"
              \/ pc = "bumpAdded" /\ pc' = "loop"
              \/ pc = "finish" /\ pc' = "exited"
BY DEF StartCrawl, Snapshot, SeedUnusable, SeedDisallowed, Fail, FetchRobots,
   StopCancelled, QueueEmpty, AddVisitedURL, BumpAdded, FinishCrawl, Cancel, Kill,
   vars, site, work, Quiet, BeforeLoopPCs

LEMMA QuietInv ==
    ASSUME NEW answer \in Answers, NEW policy \in Policies \union {{}}, IInv, TypeOK',
           \/ StartCrawl(answer) \/ Snapshot \/ SeedUnusable \/ FetchRobots(policy)
           \/ SeedDisallowed \/ StopCancelled \/ QueueEmpty \/ AddVisitedURL(answer)
           \/ BumpAdded(answer) \/ FinishCrawl(answer) \/ Cancel \/ Kill
           \/ UNCHANGED vars
    PROVE  QueueInv' /\ ExploredInv' /\ ScopeInv' /\ LinksInv'
<1>1. /\ Quiet
      /\ disallowed' = disallowed \/ pc = "robots"
      /\ \/ pc' = pc \/ pc' = "killed"
         \/ pc \in BeforeLoopPCs /\ pc' \in BeforeLoopPCs \union {"finish", "refused"}
         \/ pc = "loop" /\ pc' = "finish"
         \/ pc = "record" /\ pc' = "bump"
         \/ pc = "bumpAdded" /\ pc' = "loop"
         \/ pc = "finish" /\ pc' = "exited"
  BY QuietSteps
<1>2. Requested' = Requested
  BY <1>1 DEF Requested, Quiet
<1>3. QueueInv'
  BY <1>1, <1>2 DEF IInv, QueueInv, Quiet, BeforeLoopPCs
<1>4. ExploredInv'
  BY <1>1, <1>2 DEF IInv, ExploredInv, Quiet, BeforeLoopPCs, AnsweredPCs
<1>5. pc = "robots" => visited = {}
  BY DEF IInv, ScopeInv, BeforeLoopPCs
<1>6. ScopeInv'
  BY <1>1, <1>5 DEF IInv, ScopeInv, Quiet, BeforeLoopPCs, Allowed
<1>7. pc = "robots" => explored = {}
  BY <1>5 DEF IInv, ExploredInv, QueueInv
<1>8. LinksInv'
  BY <1>1, <1>7 DEF IInv, LinksInv, Quiet, Allowed
<1> QED
  BY <1>3, <1>4, <1>6, <1>8

LEMMA QuietVerdict ==
    ASSUME NEW answer \in Answers, NEW policy \in Policies \union {{}}, IInv, TypeOK',
           \/ StartCrawl(answer) \/ Snapshot \/ SeedUnusable \/ FetchRobots(policy)
           \/ SeedDisallowed \/ StopCancelled \/ QueueEmpty \/ AddVisitedURL(answer)
           \/ BumpAdded(answer) \/ FinishCrawl(answer) \/ Cancel \/ Kill
           \/ UNCHANGED vars
    PROVE  VerdictInv'
<1> USE DEF IInv, VerdictInv, HandlingPCs, Over, Verdicts
<1>1. CASE StartCrawl(answer)
  <2>1. rows \in [status : Verdicts \union {"absent", "running"},
                  visited : Nat, discovered : Nat]
    BY DEF TypeOK
  <2>2. /\ rows' = rows \/ rows'.status = "running"
        /\ answer = "works" => rows'.status = "running"
    BY <1>1, <2>1 DEF StartCrawl, TakesEffect
  <2>3. /\ pc = "start" /\ pc' = IF answer = "works" THEN "snapshot" ELSE "refused"
        /\ UNCHANGED <<visited, explored, finalStatus>>
    BY <1>1 DEF StartCrawl, work
  <2> QED
    BY <2>2, <2>3
<1>2. CASE Snapshot \/ FetchRobots(policy)
  BY <1>2 DEF Snapshot, FetchRobots, work, log
<1>3. CASE SeedUnusable \/ SeedDisallowed
  BY <1>3 DEF SeedUnusable, SeedDisallowed, Fail, work, log
<1>4. CASE StopCancelled
  BY <1>4 DEF StopCancelled, StoppedStatus, work, log
<1>5. CASE QueueEmpty
  <2>1. Range(queue) = {}
    BY <1>5 DEF QueueEmpty, Range
  <2>2. visited = explored
    BY <1>5, <2>1 DEF QueueEmpty, QueueInv, ExploredInv, AnsweredPCs
  <2> QED
    BY <1>5, <2>2 DEF QueueEmpty, work, log
<1>6. CASE AddVisitedURL(answer)
  BY <1>6 DEF AddVisitedURL, work
<1>7. CASE BumpAdded(answer)
  <2>1. rows'.status = rows.status
    <3>1. CASE TakesEffect(answer)
      BY <1>7, <3>1 DEF BumpAdded, BumpCrawlProgress, TypeOK
    <3>2. CASE ~TakesEffect(answer)
      BY <1>7, <3>2 DEF BumpAdded, BumpCrawlProgress
    <3> QED
      BY <3>1, <3>2
  <2> QED
    BY <1>7, <2>1 DEF BumpAdded, work
<1>8. CASE FinishCrawl(answer)
  <2>1. rows' = rows \/ rows'.status = finalStatus
    BY <1>8 DEF FinishCrawl, TypeOK
  <2> QED
    BY <1>8, <2>1 DEF FinishCrawl, work
<1>9. CASE Cancel \/ Kill \/ UNCHANGED vars
  BY <1>9 DEF Cancel, Kill, vars, work, log
<1> QED
  BY <1>1, <1>2, <1>3, <1>4, <1>5, <1>6, <1>7, <1>8, <1>9

LEMMA EnqueueSeedInv ==
    ASSUME NEW answer \in Answers, IInv, TypeOK', EnqueueSeed(answer)
    PROVE  QueueInv' /\ ExploredInv' /\ ScopeInv' /\ LinksInv' /\ VerdictInv'
<1>1. /\ pc = "seed" /\ pc' = "loop" /\ queue' = <<Seed>> /\ visited' = {Seed}
      /\ Allowed(Seed) /\ Seed \in OnHost
      /\ UNCHANGED <<current, outcome, explored, finalStatus, disallowed, enforceRobots>>
  BY UrlAssumption DEF EnqueueSeed, site, UrlAssumption
<1>2. visited = {} /\ Requested = {} /\ explored = {} /\ Requested' = {}
  BY <1>1 DEF IInv, ScopeInv, BeforeLoopPCs, QueueInv, ExploredInv, Requested
<1>3. IsInjective(queue') /\ Range(queue') = {Seed}
  BY <1>1 DEF IsInjective, Range
<1>4. rows'.status = "running"
  <2>1. rows.status = "running"
    BY <1>1 DEF IInv, VerdictInv, Over
  <2>2. CASE TakesEffect(answer)
    BY <2>1, <2>2 DEF EnqueueSeed, BumpCrawlProgress, IInv, TypeOK
  <2>3. CASE ~TakesEffect(answer)
    BY <2>1, <2>3 DEF EnqueueSeed, BumpCrawlProgress
  <2> QED
    BY <2>2, <2>3
<1>5. QueueInv'
  BY <1>1, <1>2, <1>3 DEF QueueInv
<1>6. ExploredInv' /\ LinksInv'
  BY <1>1, <1>2 DEF ExploredInv, LinksInv, AnsweredPCs
<1>7. ScopeInv'
  BY <1>1 DEF ScopeInv, BeforeLoopPCs, Allowed
<1>8. VerdictInv'
  BY <1>1, <1>4 DEF IInv, VerdictInv, HandlingPCs, Over, Verdicts
<1> QED
  BY <1>5, <1>6, <1>7, <1>8

LEMMA DequeueInv ==
    ASSUME IInv, TypeOK', Dequeue
    PROVE  QueueInv' /\ ExploredInv' /\ ScopeInv' /\ LinksInv' /\ VerdictInv'
<1>1. /\ pc = "loop" /\ pc' = "fetch" /\ queue # <<>>
      /\ current' = Head(queue) /\ queue' = Tail(queue)
      /\ UNCHANGED <<visited, outcome, explored, finalStatus, rows, disallowed,
                     enforceRobots>>
  BY DEF Dequeue, site, log
<1>2. /\ current' \in Range(queue) /\ IsInjective(queue')
      /\ Range(queue') = Range(queue) \ {current'}
  BY <1>1, TailLemma DEF IInv, TypeOK, QueueInv
<1>3. Requested' = Requested
  BY <1>1 DEF Requested
<1>4. QueueInv'
  BY <1>1, <1>2, <1>3 DEF IInv, QueueInv
<1>5. ExploredInv' /\ LinksInv' /\ ScopeInv'
  BY <1>1, <1>3 DEF IInv, ExploredInv, LinksInv, ScopeInv, AnsweredPCs,
                    BeforeLoopPCs, Allowed
<1>6. VerdictInv'
  BY <1>1 DEF IInv, VerdictInv, HandlingPCs, Over, Verdicts
<1> QED
  BY <1>4, <1>5, <1>6

LEMMA FetchInv ==
    ASSUME NEW result \in Outcomes, IInv, TypeOK', Fetch(result)
    PROVE  QueueInv' /\ ExploredInv' /\ ScopeInv' /\ LinksInv' /\ VerdictInv'
<1>1. /\ pc = "fetch" /\ pc' = "record"
      /\ outcome' = [outcome EXCEPT ![current] = result]
      /\ UNCHANGED <<queue, visited, current, explored, finalStatus, rows,
                     disallowed, enforceRobots>>
  BY DEF Fetch, site, log
<1>2. /\ current \in Urls /\ result # "none"
      /\ \A u \in Urls : outcome'[u] = IF u = current THEN result ELSE outcome[u]
  BY <1>1 DEF IInv, TypeOK, CurrentInv, HandlingPCs, Outcomes
<1>3. Requested' = Requested \union {current}
  BY <1>2 DEF Requested
<1>4. explored = Requested /\ current \notin Requested
  BY <1>1 DEF IInv, ExploredInv, QueueInv, AnsweredPCs
<1>5. QueueInv'
  BY <1>1, <1>3 DEF IInv, QueueInv
<1>6. ExploredInv'
  BY <1>1, <1>3, <1>4 DEF ExploredInv, AnsweredPCs
<1>7. ScopeInv'
  BY <1>1 DEF IInv, ScopeInv, BeforeLoopPCs, Allowed
<1>8. LinksInv'
  BY <1>1, <1>2, <1>4 DEF IInv, LinksInv, Allowed, Requested
<1>9. VerdictInv'
  BY <1>1 DEF IInv, VerdictInv, HandlingPCs, Over, Verdicts
<1> QED
  BY <1>5, <1>6, <1>7, <1>8, <1>9

\* BumpVisited and Write end the turn of a URL that has no links to follow.
LEMMA GoOnInv ==
    ASSUME NEW next \in {"write", "discover", "loop"}, IInv, TypeOK',
           pc \in {"bump", "write"}, GoOn(next),
           next = "loop" => outcome[current] # "html",
           UNCHANGED <<queue, visited, finalStatus, disallowed, enforceRobots>>,
           rows'.status = rows.status
    PROVE  QueueInv' /\ ExploredInv' /\ ScopeInv' /\ LinksInv' /\ VerdictInv'
<1>1. /\ pc' = next /\ UNCHANGED <<current, outcome>>
      /\ explored' = IF next = "loop" THEN explored \union {current} ELSE explored
  BY DEF GoOn
<1>2. Requested' = Requested
  BY <1>1 DEF Requested
<1>3. QueueInv'
  BY <1>1, <1>2 DEF IInv, QueueInv
<1>4. ExploredInv'
  BY <1>1, <1>2 DEF IInv, ExploredInv, AnsweredPCs
<1>5. ScopeInv' /\ LinksInv'
  BY <1>1 DEF IInv, ScopeInv, LinksInv, BeforeLoopPCs, Allowed
<1>6. VerdictInv'
  BY <1>1 DEF IInv, VerdictInv, HandlingPCs, Over, Verdicts
<1> QED
  BY <1>3, <1>4, <1>5, <1>6

LEMMA DiscoverInv ==
    ASSUME IInv, TypeOK', Discover
    PROVE  QueueInv' /\ ExploredInv' /\ ScopeInv' /\ LinksInv' /\ VerdictInv'
<1>1. /\ pc = "discover" /\ pc' \in {"bumpAdded", "loop"}
      /\ visited' = visited \union NewLinks(current)
      /\ explored' = explored \union {current}
      /\ UNCHANGED <<current, outcome, finalStatus, rows, disallowed, enforceRobots>>
  BY DEF Discover, site, log
<1>2. PICK links \in Orders(NewLinks(current)) : queue' = queue \o links
  BY DEF Discover
<1>3. current \in Urls
  BY <1>1 DEF IInv, CurrentInv, HandlingPCs
<1>4. /\ links \in Seq(Urls) /\ IsInjective(links)
      /\ Range(links) = NewLinks(current)
  BY <1>3, NewLinksLemma, OrdersLemma, SeqMonotonic
<1>5. Range(queue) \subseteq visited /\ NewLinks(current) \intersect visited = {}
  BY <1>1 DEF IInv, QueueInv, NewLinks
<1>6. /\ IsInjective(queue')
      /\ Range(queue') = Range(queue) \union NewLinks(current)
  <2>1. queue \in Seq(Urls) /\ IsInjective(queue)
    BY DEF IInv, TypeOK, QueueInv
  <2>2. Range(queue) \intersect Range(links) = {}
    BY <1>4, <1>5
  <2> QED
    BY <1>2, <1>4, <2>1, <2>2, ConcatLemma
<1>7. Requested' = Requested /\ Requested \subseteq visited
  BY <1>1 DEF Requested, IInv, QueueInv
<1>8. QueueInv'
  BY <1>1, <1>5, <1>6, <1>7 DEF IInv, QueueInv
<1>9. ExploredInv'
  BY <1>1, <1>7 DEF IInv, ExploredInv, AnsweredPCs
<1>10. ScopeInv'
  BY <1>1 DEF IInv, ScopeInv, BeforeLoopPCs, Allowed, NewLinks
<1>11. LinksInv'
  BY <1>1 DEF IInv, LinksInv, Allowed, NewLinks
<1>12. VerdictInv'
  BY <1>1 DEF IInv, VerdictInv, HandlingPCs, Over, Verdicts
<1> QED
  BY <1>8, <1>9, <1>10, <1>11, <1>12

LEMMA IInvInit == Init => IInv
<1> SUFFICES ASSUME Init PROVE IInv
  OBVIOUS
<1>1. TypeOK
  BY TypeInit
<1>2. /\ pc = "start" /\ queue = <<>> /\ visited = {} /\ explored = {}
      /\ finalStatus = "ok" /\ rows.status = "absent"
      /\ \A u \in Urls : outcome[u] = "none"
  BY DEF Init
<1>3. Requested = {} /\ Range(queue) = {} /\ IsInjective(queue)
  BY <1>2 DEF Requested, Range, IsInjective
<1>4. QueueInv /\ ExploredInv /\ ScopeInv /\ LinksInv /\ CurrentInv
  BY <1>2, <1>3 DEF QueueInv, ExploredInv, ScopeInv, LinksInv, CurrentInv,
                    AnsweredPCs, HandlingPCs
<1>5. VerdictInv
  BY <1>2 DEF VerdictInv, HandlingPCs, Verdicts
<1> QED
  BY <1>1, <1>4, <1>5 DEF IInv

\* The store calls of one turn leave the row's status alone.
LEMMA BumpStatus ==
    ASSUME NEW answer \in Answers, NEW n \in Nat, NEW m \in Nat, TypeOK,
           BumpCrawlProgress(answer, n, m)
    PROVE  rows'.status = rows.status
<1>1. CASE TakesEffect(answer)
  BY <1>1 DEF BumpCrawlProgress, TypeOK
<1>2. CASE ~TakesEffect(answer)
  BY <1>2 DEF BumpCrawlProgress
<1> QED
  BY <1>1, <1>2

LEMMA BumpVisitedInv ==
    ASSUME NEW answer \in Answers, IInv, TypeOK', BumpVisited(answer)
    PROVE  QueueInv' /\ ExploredInv' /\ ScopeInv' /\ LinksInv' /\ VerdictInv'
<1>1. rows'.status = rows.status
  BY BumpStatus DEF BumpVisited, IInv
<1>2. CASE outcome[current] \in Good
  BY <1>1, <1>2, GoOnInv DEF BumpVisited, site
<1>3. CASE outcome[current] \notin Good
  BY <1>1, <1>3, GoOnInv DEF BumpVisited, site, Good
<1> QED
  BY <1>2, <1>3

LEMMA WriteInv ==
    ASSUME NEW works \in BOOLEAN, IInv, TypeOK', Write(works)
    PROVE  QueueInv' /\ ExploredInv' /\ ScopeInv' /\ LinksInv' /\ VerdictInv'
<1>1. CASE outcome[current] = "html"
  BY <1>1, GoOnInv DEF Write, AfterWrite, site, log
<1>2. CASE outcome[current] # "html"
  BY <1>2, GoOnInv DEF Write, AfterWrite, site, log
<1> QED
  BY <1>1, <1>2

LEMMA IInvStep == IInv /\ [Next]_vars => IInv'
<1> SUFFICES ASSUME IInv, [Next]_vars PROVE IInv'
  OBVIOUS
<1>1. TypeOK' /\ CurrentInv'
  BY TypeStep DEF IInv
<1>2. ASSUME \/ \E answer \in Answers : EnqueueSeed(answer) \/ BumpVisited(answer)
             \/ \E works \in BOOLEAN : Write(works)
      PROVE  IInv'
  BY <1>1, <1>2, EnqueueSeedInv, BumpVisitedInv, WriteInv DEF IInv
<1>3. ASSUME NEW result \in Outcomes, Fetch(result)
      PROVE  IInv'
  BY <1>1, <1>3, FetchInv DEF IInv
<1>4. CASE Dequeue \/ Discover
  BY <1>1, <1>4, DequeueInv, DiscoverInv DEF IInv
<1>5. ASSUME NEW answer \in Answers, NEW policy \in Policies \union {{}},
             \/ StartCrawl(answer) \/ Snapshot \/ SeedUnusable \/ FetchRobots(policy)
             \/ SeedDisallowed \/ StopCancelled \/ QueueEmpty \/ AddVisitedURL(answer)
             \/ BumpAdded(answer) \/ FinishCrawl(answer) \/ Cancel \/ Kill
             \/ UNCHANGED vars
      PROVE  IInv'
  <2>1. QueueInv' /\ ExploredInv' /\ ScopeInv' /\ LinksInv'
    BY <1>1, <1>5, QuietInv
  <2>2. VerdictInv'
    BY <1>1, <1>5, QuietVerdict
  <2> QED
    BY <1>1, <2>1, <2>2 DEF IInv
<1>0. "works" \in Answers
  BY DEF Answers
<1>6. CASE Next
  <2>1. CASE Run
    BY <1>0, <1>2, <1>3, <1>4, <1>5, <2>1 DEF Run
  <2> QED
    BY <1>0, <1>5, <1>6, <2>1 DEF Next
<1>7. CASE UNCHANGED vars
  BY <1>0, <1>5, <1>7
<1> QED
  BY <1>6, <1>7

LEMMA Invariance == Spec => []IInv
BY IInvInit, IInvStep, PTL DEF Spec

(***************************************************************************)
(* The properties.                                                         *)
(***************************************************************************)
\* For every link graph and robots.txt, no request leaves the host or visits
\* what a respected robots.txt disallows.
THEOREM StaysInScope == Spec => []InScope
<1>1. IInv => InScope
  BY DEF IInv, QueueInv, ScopeInv, Requested, InScope
<1> QED
  BY <1>1, Invariance, PTL

\* For every link graph no URL is requested twice (the visited set of Run).
THEOREM NoSecondRequest == Spec => FetchedOnce
<1>1. IInv => (pc = "fetch" => outcome[current] = "none")
  BY DEF IInv, CurrentInv, HandlingPCs, QueueInv, Requested
<1>2. IInv /\ [Next]_vars
        => [pc = "fetch" /\ pc' = "record" => outcome[current] = "none"]_vars
  BY <1>1
<1> QED
  BY <1>2, Invariance, PTL DEF Spec, FetchedOnce

\* For every link graph an "ok" crawl requested all it could find in scope,
\* whatever failed on the way.
THEOREM OkIsComplete == Spec => []OkMeansComplete
<1>1. IInv => OkMeansComplete
  BY DEF IInv, VerdictInv, ExploredInv, LinksInv, QueueInv, Requested, TypeOK,
         OkMeansComplete, AnsweredPCs
<1> QED
  BY <1>1, Invariance, PTL

(***************************************************************************)
(* The refinement.  The turn of a URL ends in Visit; closing the row is    *)
(* Complete or GiveUp; enqueueing the seed is Begin; the rest stutters.    *)
(***************************************************************************)
LEMMA RefineInit == Init => Exploration!Init
BY DEF Init, Exploration!Init, Verdicts

LEMMA VisitRefined ==
    ASSUME IInv, IInv', pc \in AnsweredPCs, NEW found \in SUBSET Urls,
           explored' = explored \union {current},
           visited' = visited \union found, rows'.status = rows.status
    PROVE  Exploration!Next
<1>1. current \in visited \ explored /\ rows.status = "running"
  BY DEF IInv, QueueInv, ExploredInv, VerdictInv, AnsweredPCs, Over
<1>2. Exploration!Visit(current, found)
  BY <1>1 DEF Exploration!Visit, Verdicts
<1> QED
  BY <1>1, <1>2 DEF Exploration!Next

LEMMA GoOnRefined ==
    ASSUME NEW next \in {"write", "discover", "loop"}, IInv, IInv',
           pc \in AnsweredPCs, GoOn(next), UNCHANGED visited,
           rows'.status = rows.status
    PROVE  [Exploration!Next]_(Exploration!vars)
<1>1. CASE next = "loop"
  <2>1. visited' = visited \union {} /\ explored' = explored \union {current}
    BY <1>1 DEF GoOn
  <2>2. {} \in SUBSET Urls
    OBVIOUS
  <2>3. Exploration!Next
    BY <2>1, <2>2, VisitRefined
  <2> QED
    BY <2>3
<1>2. CASE next # "loop"
  BY <1>2 DEF GoOn, Exploration!vars
<1> QED
  BY <1>1, <1>2

LEMMA RefineStep ==
    IInv /\ IInv' /\ [Next]_vars => [Exploration!Next]_(Exploration!vars)
<1> SUFFICES ASSUME IInv, IInv', [Next]_vars
             PROVE  [Exploration!Next]_(Exploration!vars)
  OBVIOUS
<1>1. ASSUME NEW answer \in Answers, EnqueueSeed(answer)
      PROVE  [Exploration!Next]_(Exploration!vars)
  <2>1. /\ visited = {} /\ explored = {} /\ visited' = {Seed}
        /\ explored' = explored /\ rows.status = "running"
    BY <1>1 DEF EnqueueSeed, IInv, ScopeInv, BeforeLoopPCs, ExploredInv,
                QueueInv, VerdictInv, AnsweredPCs, Over
  <2>2. rows'.status = rows.status
    BY <1>1, BumpStatus DEF EnqueueSeed, IInv
  <2>3. Exploration!Begin
    BY <2>1, <2>2 DEF Exploration!Begin, Verdicts
  <2> QED
    BY <2>3 DEF Exploration!Next
<1>2. ASSUME NEW answer \in Answers, BumpVisited(answer)
      PROVE  [Exploration!Next]_(Exploration!vars)
  <2>1. rows'.status = rows.status
    BY <1>2, BumpStatus DEF BumpVisited, IInv
  <2>2. PICK next \in {"write", "loop"} : GoOn(next)
    BY <1>2 DEF BumpVisited
  <2> QED
    BY <1>2, <2>1, <2>2, GoOnRefined DEF BumpVisited, AnsweredPCs
<1>3. ASSUME NEW works \in BOOLEAN, Write(works)
      PROVE  [Exploration!Next]_(Exploration!vars)
  <2>1. PICK next \in {"discover", "loop"} : GoOn(next)
    BY <1>3 DEF Write, AfterWrite
  <2> QED
    BY <1>3, <2>1, GoOnRefined DEF Write, AnsweredPCs, log
<1>4. CASE Discover
  <2>1. NewLinks(current) \in SUBSET Urls
    BY <1>4, NewLinksLemma DEF Discover, IInv, CurrentInv, HandlingPCs
  <2>2. Exploration!Next
    BY <1>4, <2>1, VisitRefined DEF Discover, AnsweredPCs, log
  <2> QED
    BY <2>2
<1>5. ASSUME NEW answer \in Answers, FinishCrawl(answer)
      PROVE  [Exploration!Next]_(Exploration!vars)
  <2>1. /\ visited' = visited /\ explored' = explored /\ pc = "finish"
        /\ rows.status = "running" /\ finalStatus \in Verdicts
    BY <1>5 DEF FinishCrawl, work, IInv, VerdictInv, TypeOK, Over
  <2>2. CASE TakesEffect(answer)
    <3>1. rows'.status = finalStatus
      BY <1>5, <2>2 DEF FinishCrawl, IInv, TypeOK
    <3>2. CASE finalStatus = "ok"
      <4>1. Seed \in explored /\ visited = explored
        BY <2>1, <3>2 DEF IInv, VerdictInv
      <4>2. Exploration!Complete
        BY <2>1, <3>1, <3>2, <4>1 DEF Exploration!Complete, Verdicts
      <4> QED
        BY <4>2 DEF Exploration!Next
    <3>3. CASE finalStatus # "ok"
      <4>1. Exploration!GiveUp
        BY <2>1, <3>1, <3>3 DEF Exploration!GiveUp, Verdicts
      <4> QED
        BY <4>1 DEF Exploration!Next
    <3> QED
      BY <3>2, <3>3
  <2>3. CASE ~TakesEffect(answer)
    BY <1>5, <2>1, <2>3 DEF FinishCrawl, Exploration!vars
  <2> QED
    BY <2>2, <2>3
<1>6. ASSUME NEW answer \in Answers, StartCrawl(answer) \/ BumpAdded(answer)
      PROVE  [Exploration!Next]_(Exploration!vars)
  <2>1. UNCHANGED <<visited, explored>>
    BY <1>6 DEF StartCrawl, BumpAdded, work
  <2>2. rows.status \notin Verdicts
    BY <1>6 DEF StartCrawl, BumpAdded, IInv, VerdictInv, Over
  <2>3. ASSUME StartCrawl(answer) PROVE rows'.status \notin Verdicts
    BY <2>2, <2>3 DEF StartCrawl, IInv, TypeOK, Verdicts
  <2>4. ASSUME BumpAdded(answer) PROVE rows'.status \notin Verdicts
    <3>1. 0 \in Nat /\ added \in Nat /\ TypeOK
      BY DEF IInv, TypeOK
    <3> QED
      BY <2>2, <2>4, <3>1, BumpStatus DEF BumpAdded
  <2> QED
    BY <1>6, <2>1, <2>2, <2>3, <2>4 DEF Exploration!vars
<1>7. ASSUME NEW answer \in Answers, AddVisitedURL(answer)
      PROVE  [Exploration!Next]_(Exploration!vars)
  BY <1>7 DEF AddVisitedURL, work, Exploration!vars
<1>8. CASE \/ Snapshot \/ SeedUnusable \/ SeedDisallowed \/ StopCancelled
           \/ QueueEmpty \/ Cancel \/ Kill \/ UNCHANGED vars
           \/ \E policy \in Policies \union {{}} : FetchRobots(policy)
  BY <1>8 DEF Snapshot, SeedUnusable, SeedDisallowed, Fail, StopCancelled,
     QueueEmpty, Cancel, Kill, FetchRobots, vars, work, log, Exploration!vars
<1>9. CASE Dequeue \/ \E result \in Outcomes : Fetch(result)
  BY <1>9 DEF Dequeue, Fetch, log, Exploration!vars
<1> QED
  BY <1>1, <1>2, <1>3, <1>4, <1>5, <1>6, <1>7, <1>8, <1>9 DEF Next, Run

\* Run implements the exploration: it visits each page found exactly once and
\* reports "ok" only with an empty frontier.
THEOREM ImplementsExploration == Spec => ExplorationSpec
<1>1. Init => Exploration!Init
  BY RefineInit
<1>2. IInv /\ IInv' /\ [Next]_vars => [Exploration!Next]_(Exploration!vars)
  BY RefineStep
<1> QED
  BY <1>1, <1>2, Invariance, PTL DEF Spec, ExplorationSpec, Exploration!Spec
=============================================================================
