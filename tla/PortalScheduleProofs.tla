------------------------ MODULE PortalScheduleProofs ------------------------
(***************************************************************************)
(* Slugs and schedules for any number of handlers, sites and failed calls. *)
(***************************************************************************)
EXTENDS PortalSchedule, TLAPS

(***************************************************************************)
(* The inductive invariant.                                                *)
(***************************************************************************)
IssuedInv == \A i \in Ids : sites[i] # None => i \in issued

\* What a handler holds goes with where it is, and an id stays with its slug.
HandlerOK(h) ==
    LET me == handler[h] IN
    /\ me.pc = "insert" => me.kind = "create" /\ me.id = None
    /\ me.pc = "update" => me.kind \in {"edit", "toggle"}
    /\ me.pc \in {"delete row", "delete"} => me.kind = "delete"
    /\ me.pc \in {"get", "apply"} => me.kind \in {"create", "edit"}
    /\ me.pc = "suspend" => me.kind = "toggle"
    /\ me.pc = "kick" => me.kind = "create"
    /\ me.pc \notin {"insert", "respond"} => me.id \in Ids
    /\ me.id \in Ids => me.id \in issued
    /\ me.id \in Ids /\ sites[me.id] # None => sites[me.id].slug = me.row
    /\ me.kind # "edit" => me.site.slug = me.row

HandlerInv == \A h \in Handlers : Busy(h) => HandlerOK(h)

\* Nobody else is at work on the slugs of h.
Alone(h) ==
    \A g \in Handlers : g # h /\ Busy(g) => Touches(g) \cap Touches(h) = {}

\* How far an undisturbed handler has brought the row and the CronJob.
Progress(h, s) ==
    LET me == handler[h] IN
    /\ me.pc \in {"update", "delete row"} => sites[me.id] # None
    /\ me.pc \in {"get", "apply", "suspend"} => sites[me.id] = me.site
    /\ me.pc = "delete" => Owners(s) = {}
    /\ me.pc \in {"kick", "respond"} /\ me.kind # "toggle" => InStep(s)
    /\ me.pc = "update" /\ me.kind = "toggle" =>
          sites[me.id] = [me.site EXCEPT !.enabled = ~me.site.enabled]
    /\ me.kind = "toggle" /\ me.pc \in {"update", "respond"}
          /\ s \notin unsettled => InStep(s)
    /\ me.pc = "suspend" /\ s \notin unsettled =>
          /\ cronJobs[s] # None
          /\ cronJobs[s].site = me.id
          /\ cronJobs[s].interval = me.site.interval

CleanOK(h) ==
    handler[h].clean =>
        /\ Alone(h)
        /\ \A s \in Slugs : Touches(h) = {s} => Progress(h, s)

CleanInv == \A h \in Handlers : Busy(h) => CleanOK(h)

IInv ==
    TypeOK /\ SlugsUnique /\ IssuedInv /\ HandlerInv /\ CleanInv
    /\ ScheduleInStep

(***************************************************************************)
(* A call changes only what belongs to the slugs of its handler.           *)
(***************************************************************************)
\* g holds the same, its knowledge of the CronJob apart.
Keeps(g) ==
    /\ handler[g] = None <=> handler'[g] = None
    /\ Busy(g) => /\ handler'[g].kind = handler[g].kind
                  /\ handler'[g].pc = handler[g].pc
                  /\ handler'[g].id = handler[g].id
                  /\ handler'[g].site = handler[g].site
                  /\ handler'[g].row = handler[g].row
                  /\ handler'[g].clean = handler[g].clean

RowKept(i, slugs) ==
    \/ sites'[i] = sites[i]
    \/ /\ sites[i] = None => i \notin issued
       /\ sites[i] # None => sites[i].slug \in slugs
       /\ sites'[i] # None => sites'[i].slug \in slugs
       /\ sites[i] # None /\ sites'[i] # None => sites'[i].slug = sites[i].slug

CallOf(h) ==
    /\ Busy(h) /\ handler'[h] # None
    /\ handler'[h].site = handler[h].site /\ handler'[h].row = handler[h].row
    /\ \A g \in Handlers : g # h => Keeps(g)
    /\ unsettled' = unsettled /\ issued \subseteq issued'
    /\ \A t \in Slugs : t \notin Touches(h) => cronJobs'[t] = cronJobs[t]
    /\ \A i \in Ids : RowKept(i, Touches(h))

\* Nothing of slug t changes.
Same(t) ==
    /\ cronJobs'[t] = cronJobs[t]
    /\ \A i \in Ids : HeldBy(i, t) => sites'[i] = sites[i]
    /\ \A i \in Ids : HeldBy(i, t)' => sites'[i] = sites[i]

LEMMA InStepSame ==
    ASSUME TypeOK, NEW t \in Slugs, Same(t)
    PROVE  /\ Owners(t)' = Owners(t)
           /\ InStep(t)' <=> InStep(t)
<1>1. \A i \in Ids : HeldBy(i, t)' <=> HeldBy(i, t)
  BY DEF Same, HeldBy
<1>2. Owners(t)' = Owners(t)
  BY <1>1 DEF Owners
<1>3. cronJobs[t] # None => cronJobs[t].site \in Ids
  BY DEF TypeOK, CronJob
<1>4. CASE Owners(t) = {}
  BY <1>2, <1>4 DEF InStep, Same
<1>5. CASE Owners(t) # {} /\ cronJobs[t] = None
  BY <1>2, <1>5 DEF InStep, Same
<1>6. CASE Owners(t) # {} /\ cronJobs[t] # None
  <2>1. cronJobs'[t] = cronJobs[t]
    BY DEF Same
  <2>2. HeldBy(cronJobs[t].site, t)' <=> HeldBy(cronJobs[t].site, t)
    BY <1>1, <1>3, <1>6, <2>1
  <2>3. HeldBy(cronJobs[t].site, t) =>
            sites'[cronJobs[t].site] = sites[cronJobs[t].site]
    BY <1>3, <1>6 DEF Same
  <2> QED
    BY <1>2, <1>6, <2>1, <2>2, <2>3 DEF InStep
<1> QED
  BY <1>2, <1>4, <1>5, <1>6

LEMMA CallFrame ==
    ASSUME NEW h \in Handlers, CallOf(h), NEW t \in Slugs, t \notin Touches(h)
    PROVE  Same(t)
<1>1. \A i \in Ids : HeldBy(i, t) \/ HeldBy(i, t)' => sites'[i] = sites[i]
  BY DEF CallOf, RowKept, HeldBy
<1> QED
  BY <1>1 DEF Same, CallOf

\* A call of h leaves everybody else's part of the invariant intact.
LEMMA CallKeepsOthers ==
    ASSUME IInv, NEW h \in Handlers, CallOf(h),
           NEW g \in Handlers, g # h, Busy(g)'
    PROVE  HandlerOK(g)' /\ CleanOK(g)'
<1> USE DEF Busy
<1>1. Busy(g) /\ Keeps(g) /\ Busy(h)
  BY DEF CallOf, Keeps
<1>2. handler[g] \in AtWork
  BY <1>1 DEF IInv, TypeOK
<1>3. HandlerOK(g)'
  <2>1. HandlerOK(g)
    BY <1>1 DEF IInv, HandlerInv
  <2>2. ASSUME handler[g].id \in Ids
        PROVE  /\ handler[g].id \in issued'
               /\ sites'[handler[g].id] # None =>
                      sites'[handler[g].id].slug = handler[g].row
    <3>1. handler[g].id \in issued /\ RowKept(handler[g].id, Touches(h))
      BY <2>1, <2>2 DEF HandlerOK, CallOf
    <3> QED
      BY <2>1, <2>2, <3>1 DEF HandlerOK, CallOf, RowKept
  <2> QED
    BY <1>1, <2>1, <2>2 DEF HandlerOK, Keeps
<1>4. ASSUME handler'[g].clean PROVE Alone(g)'
  <2>1. Alone(g)
    BY <1>1, <1>4 DEF IInv, CleanInv, CleanOK, Keeps
  <2>2. \A k \in Handlers : Busy(k)' => Busy(k) /\ Touches(k)' = Touches(k)
    BY <1>1 DEF CallOf, Keeps, Touches
  <2> QED
    BY <2>1, <2>2, <1>1 DEF Alone, Keeps, Touches
<1>5. ASSUME handler'[g].clean, NEW s \in Slugs, Touches(g)' = {s}
      PROVE  Progress(g, s)'
  <2>0. Touches(g) = {s} /\ handler[g].clean
    BY <1>1, <1>5 DEF Touches, Keeps
  <2>1. Alone(g) /\ Progress(g, s)
    BY <1>1, <2>0 DEF IInv, CleanInv, CleanOK
  <2>2. s \notin Touches(h)
    BY <1>1, <2>0, <2>1 DEF Alone
  <2>3. Same(s) /\ (InStep(s)' <=> InStep(s)) /\ Owners(s)' = Owners(s)
    BY <2>2, CallFrame, InStepSame DEF IInv
  <2>4. HandlerOK(g) /\ s = handler[g].row
    BY <1>1, <2>0 DEF IInv, HandlerInv, Touches
  <2>5. handler[g].id \in Ids /\ sites[handler[g].id] # None =>
            sites'[handler[g].id] = sites[handler[g].id]
    BY <2>3, <2>4 DEF HandlerOK, Same, HeldBy
  <2>6. handler[g].pc \in {"update", "delete row", "get", "apply", "suspend"}
            => sites[handler[g].id] # None
    BY <2>1, <1>2, NoneAssumption DEF Progress, AtWork
  <2>7. handler[g].pc \in {"update", "delete row", "get", "apply", "suspend"}
            => sites'[handler[g].id] = sites[handler[g].id]
    BY <2>4, <2>5, <2>6 DEF HandlerOK
  <2>8. cronJobs'[s] = cronJobs[s] /\ unsettled' = unsettled
    BY <2>3 DEF Same, CallOf
  <2>9. /\ handler'[g].kind = handler[g].kind /\ handler'[g].pc = handler[g].pc
        /\ handler'[g].id = handler[g].id /\ handler'[g].site = handler[g].site
    BY <1>1 DEF Keeps
  <2> QED
    BY <2>1, <2>3, <2>7, <2>8, <2>9 DEF Progress
<1> QED
  BY <1>3, <1>4, <1>5 DEF CleanOK

LEMMA CallKeepsAlone ==
    ASSUME NEW h \in Handlers, CallOf(h), Alone(h)
    PROVE  Alone(h)'
BY DEF CallOf, Keeps, Alone, Touches, Busy

LEMMA CallKeepsSchedule ==
    ASSUME IInv, NEW h \in Handlers, CallOf(h)
    PROVE  ScheduleInStep'
<1>1. SUFFICES ASSUME NEW s \in Slugs, s \notin unsettled',
                      \A g \in Handlers : Busy(g)' => s \notin Touches(g)'
               PROVE  InStep(s)'
  BY DEF ScheduleInStep
<1>2. \A g \in Handlers : Busy(g) => Busy(g)' /\ Touches(g)' = Touches(g)
  BY DEF CallOf, Keeps, Touches, Busy
<1>3. InStep(s)
  BY <1>1, <1>2 DEF IInv, ScheduleInStep, CallOf
<1>4. s \notin Touches(h)
  BY <1>1, <1>2 DEF CallOf
<1> QED
  BY <1>3, <1>4, CallFrame, InStepSame DEF IInv

(***************************************************************************)
(* What a handler holds after a call.                                      *)
(***************************************************************************)
LEMMA CallType ==
    ASSUME TypeOK, NEW outcome \in Outcomes, Call(outcome)
    PROVE  faults' \in 0 .. MaxFaults
BY FaultAssumption DEF TypeOK, Call

\* hs are the handlers when h has gone on to pc.
Moves(hs, h, pc, good) ==
    /\ hs \in [Handlers -> AtWork \union {None}]
    /\ \A g \in Handlers : hs[g] = None <=> handler[g] = None
    /\ \A g \in Handlers : Busy(g) =>
          /\ hs[g].kind = handler[g].kind /\ hs[g].id = handler[g].id
          /\ hs[g].site = handler[g].site /\ hs[g].row = handler[g].row
          /\ g # h => /\ hs[g].pc = handler[g].pc
                      /\ hs[g].clean = handler[g].clean
    /\ hs[h].pc = pc /\ hs[h].clean = (handler[h].clean /\ good)

LEMMA GoesMoves ==
    ASSUME TypeOK, NEW h \in Handlers, Busy(h), NEW pc \in PCs,
           NEW good \in BOOLEAN
    PROVE  Moves(Goes(h, pc, good), h, pc, good)
<1> DEFINE me == [handler[h] EXCEPT !.pc = pc, !.clean = @ /\ good]
<1>1. handler[h] \in AtWork
  BY DEF TypeOK, Busy
<1>2. me \in AtWork /\ me # None
  BY <1>1, NoneAssumption DEF AtWork
<1>3. /\ me.kind = handler[h].kind /\ me.id = handler[h].id
      /\ me.site = handler[h].site /\ me.row = handler[h].row
      /\ me.pc = pc /\ me.clean = (handler[h].clean /\ good)
  BY <1>1 DEF AtWork
<1>4. Goes(h, pc, good) = [handler EXCEPT ![h] = me]
  BY DEF Goes, TypeOK
<1> HIDE DEF me
<1> QED
  BY <1>2, <1>3, <1>4 DEF Moves, TypeOK, Busy

LEMMA OutdateSame ==
    ASSUME NEW hs \in [Handlers -> AtWork \union {None}], NEW s, NEW c
    PROVE  /\ Outdate(hs, s, c) \in [Handlers -> AtWork \union {None}]
           /\ \A g \in Handlers : Outdate(hs, s, c)[g] = None <=> hs[g] = None
           /\ \A g \in Handlers : hs[g] # None =>
                 /\ Outdate(hs, s, c)[g].kind = hs[g].kind
                 /\ Outdate(hs, s, c)[g].pc = hs[g].pc
                 /\ Outdate(hs, s, c)[g].id = hs[g].id
                 /\ Outdate(hs, s, c)[g].site = hs[g].site
                 /\ Outdate(hs, s, c)[g].row = hs[g].row
                 /\ Outdate(hs, s, c)[g].clean = hs[g].clean
<1> DEFINE out == Outdate(hs, s, c)
           old(g) == [hs[g] EXCEPT !.seen = "outdated"]
<1>1. ASSUME NEW g \in Handlers, hs[g] # None
      PROVE  /\ old(g) \in AtWork /\ old(g) # None
             /\ old(g).kind = hs[g].kind /\ old(g).id = hs[g].id
             /\ old(g).site = hs[g].site /\ old(g).row = hs[g].row
             /\ old(g).pc = hs[g].pc /\ old(g).clean = hs[g].clean
  <2>1. hs[g] \in AtWork
    BY <1>1
  <2> QED
    BY <2>1, NoneAssumption DEF AtWork, Seen
<1>2. ASSUME NEW g \in Handlers
      PROVE  out[g] = hs[g] \/ (hs[g] # None /\ out[g] = old(g))
  <2>1. out[g] = IF hs[g] # None /\ hs[g].site.slug = s
                    /\ hs[g].seen = "latest" /\ c # cronJobs[s]
                 THEN old(g) ELSE hs[g]
    BY DEF Outdate
  <2> QED
    BY <2>1
<1>3. out = [g \in Handlers |-> out[g]]
  BY DEF Outdate
<1> HIDE DEF out, old
<1>4. ASSUME NEW g \in Handlers
      PROVE  /\ out[g] \in AtWork \union {None}
             /\ out[g] = None <=> hs[g] = None
  BY <1>1, <1>2
<1>5. ASSUME NEW g \in Handlers, hs[g] # None
      PROVE  /\ out[g].kind = hs[g].kind /\ out[g].id = hs[g].id
             /\ out[g].site = hs[g].site /\ out[g].row = hs[g].row
             /\ out[g].pc = hs[g].pc /\ out[g].clean = hs[g].clean
  BY <1>1, <1>2, <1>5
<1>6. out \in [Handlers -> AtWork \union {None}]
  BY <1>3, <1>4
<1> QED
  BY <1>4, <1>5, <1>6 DEF out

LEMMA OutdateMoves ==
    ASSUME NEW hs, NEW h \in Handlers, NEW pc, NEW good \in BOOLEAN,
           Busy(h), Moves(hs, h, pc, good), NEW s, NEW c
    PROVE  Moves(Outdate(hs, s, c), h, pc, good)
<1> DEFINE out == Outdate(hs, s, c)
<1>1. hs \in [Handlers -> AtWork \union {None}]
  BY DEF Moves
<1>2. /\ out \in [Handlers -> AtWork \union {None}]
      /\ \A g \in Handlers : out[g] = None <=> hs[g] = None
      /\ \A g \in Handlers : hs[g] # None =>
            /\ out[g].kind = hs[g].kind /\ out[g].pc = hs[g].pc
            /\ out[g].id = hs[g].id /\ out[g].site = hs[g].site
            /\ out[g].row = hs[g].row /\ out[g].clean = hs[g].clean
  BY <1>1, OutdateSame
<1> HIDE DEF out
<1>3. out[h].pc = pc /\ out[h].clean = (handler[h].clean /\ good)
  BY <1>2 DEF Moves, Busy
<1>4. Moves(out, h, pc, good)
  BY <1>2, <1>3 DEF Moves, Busy
<1> QED
  BY <1>4 DEF out

LEMMA MovesKeeps ==
    ASSUME NEW h \in Handlers, NEW pc, NEW good, Busy(h),
           Moves(handler', h, pc, good)
    PROVE  /\ handler'[h] # None
           /\ handler'[h].kind = handler[h].kind
           /\ handler'[h].id = handler[h].id
           /\ handler'[h].site = handler[h].site
           /\ handler'[h].row = handler[h].row
           /\ handler'[h].pc = pc
           /\ handler'[h].clean = (handler[h].clean /\ good)
           /\ \A g \in Handlers : g # h => Keeps(g)
           /\ handler' \in [Handlers -> AtWork \union {None}]
BY DEF Moves, Keeps, Busy

\* What is left to show of a call of h.
LEMMA CallStep ==
    ASSUME IInv, NEW h \in Handlers, CallOf(h),
           TypeOK', SlugsUnique', IssuedInv', HandlerOK(h)',
           handler'[h].clean =>
               /\ handler[h].clean
               /\ \A s \in Slugs : Touches(h) = {s} /\ Progress(h, s)
                                   => Progress(h, s)'
    PROVE  IInv'
<1>1. Busy(h) /\ Touches(h)' = Touches(h)
  BY DEF CallOf, Touches
<1>2. CleanOK(h)'
  BY <1>1, CallKeepsAlone DEF IInv, CleanInv, CleanOK
<1>3. HandlerInv' /\ CleanInv'
  BY <1>2, CallKeepsOthers DEF HandlerInv, CleanInv
<1> QED
  BY <1>3, CallKeepsSchedule DEF IInv

LEMMA Held ==
    ASSUME IInv, NEW h \in Handlers, Busy(h)
    PROVE  /\ handler[h] \in AtWork /\ HandlerOK(h)
           /\ handler[h].site \in Site /\ handler[h].site # None
           /\ handler[h].site.slug \in Slugs /\ handler[h].row \in Slugs
BY NoneAssumption DEF IInv, TypeOK, HandlerInv, Busy, AtWork, Site

(***************************************************************************)
(* The database calls.                                                     *)
(***************************************************************************)
\* A call that changes at most row i, and not its slug.
LEMMA RowCall ==
    ASSUME IInv, NEW h \in Handlers, Busy(h), NEW pc, NEW good,
           Moves(handler', h, pc, good), UNCHANGED <<issued, cronJobs, unsettled>>,
           faults' \in 0 .. MaxFaults,
           NEW i \in Ids, NEW r \in Site \union {None},
           sites' = [sites EXCEPT ![i] = r],
           sites[i] = None => r = None,
           sites[i] # None => sites[i].slug = handler[h].row,
           sites[i] # None /\ r # None => r.slug = sites[i].slug
    PROVE  CallOf(h) /\ TypeOK' /\ SlugsUnique' /\ IssuedInv'
<1>1. TypeOK'
  BY MovesKeeps DEF IInv, TypeOK
<1>2. \A k \in Ids : sites'[k] = IF k = i THEN r ELSE sites[k]
  BY DEF IInv, TypeOK
<1>3. CallOf(h)
  <2>1. \A k \in Ids : RowKept(k, Touches(h))
    BY <1>2 DEF RowKept, Touches
  <2> QED
    BY <2>1, MovesKeeps DEF CallOf
<1>4. \A k \in Ids : sites'[k] # None =>
          sites[k] # None /\ sites'[k].slug = sites[k].slug
  BY <1>2
<1>5. \A k \in Ids : \A s \in Slugs : HeldBy(k, s)' => HeldBy(k, s)
  BY <1>4 DEF HeldBy
<1>6. SlugsUnique'
  BY <1>5 DEF IInv, SlugsUnique
<1> QED
  BY <1>1, <1>3, <1>4, <1>6 DEF IInv, IssuedInv

LEMMA UpdateStep ==
    ASSUME IInv, NEW h \in Handlers, NEW outcome \in Outcomes,
           Update(h, outcome)
    PROVE  IInv'
<1> DEFINE i == handler[h].id
           site == handler[h].site
           good == outcome = "done"
           pc == IF outcome # "done" THEN "respond"
                 ELSE IF handler[h].kind = "edit" THEN "get" ELSE "suspend"
           r == IF outcome = "failed" \/ sites[i] = None THEN sites[i]
                ELSE [site EXCEPT !.slug = sites[i].slug]
<1>1. Busy(h) /\ handler[h].pc = "update"
  BY DEF Update
<1>2. /\ handler[h] \in AtWork /\ HandlerOK(h) /\ site \in Site /\ site # None
      /\ i \in Ids /\ (sites[i] # None => sites[i].slug = handler[h].row)
  BY <1>1, Held DEF HandlerOK
<1>3. Moves(handler', h, pc, good)
  <2>1. handler' = Goes(h, pc, good)
    BY DEF Update, Goes
  <2> QED
    BY <1>1, <2>1, GoesMoves DEF IInv, PCs
<1>4. sites[i] \in Site \union {None}
  BY <1>2 DEF IInv, TypeOK
<1>5. sites[i] # None => [site EXCEPT !.slug = sites[i].slug] \in Site
  BY <1>2, <1>4 DEF Site
<1>6. /\ r \in Site \union {None}
      /\ sites[i] = None => r = None
      /\ sites[i] # None /\ r # None => r.slug = sites[i].slug
  BY <1>2, <1>4, <1>5 DEF Site
<1>7. sites' = [sites EXCEPT ![i] = r]
  BY <1>2 DEF Update, Updated, IInv, TypeOK
<1>8. faults' \in 0 .. MaxFaults /\ UNCHANGED <<issued, cronJobs, unsettled>>
  BY CallType DEF Update, IInv
<1>9. good /\ sites[i] # None /\ site.slug = handler[h].row => r = site
  BY <1>2 DEF Site
<1> HIDE DEF r, pc, good
<1>10. CallOf(h) /\ TypeOK' /\ SlugsUnique' /\ IssuedInv'
  BY <1>1, <1>2, <1>3, <1>6, <1>7, <1>8, RowCall
<1>11. pc \in {"respond", "get", "suspend"}
       /\ (pc = "get" => handler[h].kind = "edit")
       /\ (pc = "suspend" => handler[h].kind = "toggle")
  BY <1>1, <1>2 DEF pc, HandlerOK
<1>12. /\ handler'[h].kind = handler[h].kind /\ handler'[h].id = i
       /\ handler'[h].site = site /\ handler'[h].row = handler[h].row
       /\ handler'[h].pc = pc /\ handler'[h].clean = (handler[h].clean /\ good)
  BY <1>1, <1>3, MovesKeeps
<1>13. sites'[i] = r
  BY <1>2, <1>7 DEF IInv, TypeOK
<1>14. HandlerOK(h)'
  BY <1>2, <1>6, <1>8, <1>11, <1>12, <1>13 DEF HandlerOK
<1>15. ASSUME handler'[h].clean
       PROVE  /\ handler[h].clean
              /\ \A s \in Slugs : Touches(h) = {s} /\ Progress(h, s)
                                  => Progress(h, s)'
  <2>1. good /\ handler[h].clean
    BY <1>12, <1>15
  <2>2. ASSUME NEW s \in Slugs, Touches(h) = {s}, Progress(h, s)
        PROVE  Progress(h, s)'
    <3>1. sites[i] # None /\ site.slug = s /\ handler[h].row = s
      BY <1>1, <2>2 DEF Progress, Touches
    <3>2. sites'[i] = site
      BY <1>9, <1>13, <2>1, <3>1
    <3>3. \/ pc = "get" /\ handler[h].kind = "edit"
          \/ pc = "suspend" /\ handler[h].kind = "toggle"
      BY <1>11, <2>1 DEF pc, good
    <3>4. ASSUME handler[h].kind = "toggle", s \notin unsettled
          PROVE  /\ cronJobs[s] # None /\ cronJobs[s].site = i
                 /\ cronJobs[s].interval = site.interval
      <4>1. sites[i] = [site EXCEPT !.enabled = ~site.enabled] /\ InStep(s)
        BY <1>1, <2>2, <3>4 DEF Progress
      <4>2. sites[i].interval = site.interval
        BY <4>1, <1>2 DEF Site
      <4>3. HeldBy(i, s)
        BY <1>2, <3>1 DEF HeldBy
      <4>4. Owners(s) # {} /\ cronJobs[s] # None /\ HeldBy(cronJobs[s].site, s)
            /\ cronJobs[s].interval = sites[cronJobs[s].site].interval
        BY <4>1, <4>3, <1>2 DEF InStep, Owners
      <4>5. cronJobs[s].site \in Ids
        BY <4>4 DEF IInv, TypeOK, CronJob
      <4>6. cronJobs[s].site = i
        BY <1>2, <4>3, <4>4, <4>5 DEF IInv, SlugsUnique
      <4> QED
        BY <4>2, <4>4, <4>6
    <3> QED
      BY <1>8, <1>12, <3>2, <3>3, <3>4 DEF Progress
  <2> QED
    BY <2>1, <2>2
<1> QED
  BY <1>10, <1>14, <1>15, CallStep

LEMMA DeleteRowStep ==
    ASSUME IInv, NEW h \in Handlers, NEW outcome \in Outcomes,
           DeleteRow(h, outcome)
    PROVE  IInv'
<1> DEFINE i == handler[h].id
           good == outcome = "done"
           pc == IF good THEN "delete" ELSE "respond"
           r == IF outcome = "failed" THEN sites[i] ELSE None
<1>1. Busy(h) /\ handler[h].pc = "delete row"
  BY DEF DeleteRow
<1>2. /\ handler[h] \in AtWork /\ HandlerOK(h) /\ handler[h].kind = "delete"
      /\ i \in Ids /\ (sites[i] # None => sites[i].slug = handler[h].row)
  BY <1>1, Held DEF HandlerOK
<1>3. Moves(handler', h, pc, good)
  <2>1. handler' = Goes(h, pc, good)
    BY DEF DeleteRow, Goes
  <2> QED
    BY <1>1, <2>1, GoesMoves DEF IInv, PCs
<1>4. r \in Site \union {None} /\ (sites[i] = None => r = None)
      /\ (r # None => r = sites[i])
  BY <1>2 DEF IInv, TypeOK
<1>5. sites' = [sites EXCEPT ![i] = r]
  BY <1>2 DEF DeleteRow, IInv, TypeOK
<1>6. faults' \in 0 .. MaxFaults /\ UNCHANGED <<issued, cronJobs, unsettled>>
  BY CallType DEF DeleteRow, IInv
<1> HIDE DEF pc
<1>7. CallOf(h) /\ TypeOK' /\ SlugsUnique' /\ IssuedInv'
  <2> HIDE DEF r, good
  <2> QED
    BY <1>1, <1>2, <1>3, <1>4, <1>5, <1>6, RowCall
<1>8. pc \in {"respond", "delete"}
  BY DEF pc
<1>9. /\ handler'[h].kind = handler[h].kind /\ handler'[h].id = i
      /\ handler'[h].site = handler[h].site /\ handler'[h].row = handler[h].row
      /\ handler'[h].pc = pc /\ handler'[h].clean = (handler[h].clean /\ good)
  BY <1>1, <1>3, MovesKeeps
<1>10. \A k \in Ids : sites'[k] = IF k = i THEN r ELSE sites[k]
  BY <1>2, <1>5 DEF IInv, TypeOK
<1>11. HandlerOK(h)'
  <2> HIDE DEF r, good
  <2> QED
    BY <1>2, <1>4, <1>6, <1>8, <1>9, <1>10 DEF HandlerOK
<1>12. ASSUME handler'[h].clean
       PROVE  /\ handler[h].clean
              /\ \A s \in Slugs : Touches(h) = {s} /\ Progress(h, s)
                                  => Progress(h, s)'
  <2>1. good /\ handler[h].clean /\ pc = "delete"
    BY <1>9, <1>12 DEF pc
  <2>2. ASSUME NEW s \in Slugs, Touches(h) = {s}, Progress(h, s)
        PROVE  Progress(h, s)'
    <3>1. HeldBy(i, s)
      BY <1>1, <1>2, <2>2 DEF Progress, Touches, HeldBy
    <3>2. \A k \in Ids : ~HeldBy(k, s)'
      BY <1>2, <1>10, <2>1, <3>1 DEF IInv, SlugsUnique, HeldBy
    <3>3. Owners(s)' = {}
      BY <3>2 DEF Owners
    <3> QED
      BY <1>2, <1>9, <2>1, <3>3 DEF Progress
  <2> QED
    BY <2>1, <2>2
<1> QED
  BY <1>7, <1>11, <1>12, CallStep

\* What h holds once the id of its new row is known.
LEMMA InsertHolds ==
    ASSUME TypeOK, NEW h \in Handlers, Busy(h), NEW i \in Ids,
           handler' = [handler EXCEPT ![h].pc = "get", ![h].id = ReturnedId(i)]
    PROVE  /\ handler' \in [Handlers -> AtWork \union {None}]
           /\ handler'[h] # None
           /\ handler'[h].kind = handler[h].kind /\ handler'[h].id = i
           /\ handler'[h].site = handler[h].site
           /\ handler'[h].row = handler[h].row
           /\ handler'[h].pc = "get" /\ handler'[h].clean = handler[h].clean
           /\ \A g \in Handlers : g # h => Keeps(g)
<1> DEFINE me == [handler[h] EXCEPT !.pc = "get", !.id = i]
<1>1. handler[h] \in AtWork
  BY DEF TypeOK, Busy
<1>2. me \in AtWork /\ me # None
  BY <1>1, NoneAssumption DEF AtWork, PCs
<1>3. /\ me.kind = handler[h].kind /\ me.id = i /\ me.pc = "get"
      /\ me.site = handler[h].site /\ me.row = handler[h].row
      /\ me.clean = handler[h].clean
  BY <1>1 DEF AtWork
<1>4. handler' = [handler EXCEPT ![h] = me]
  BY DEF TypeOK, ReturnedId
<1> HIDE DEF me
<1> QED
  BY <1>2, <1>3, <1>4 DEF TypeOK, Keeps, Busy

LEMMA InsertStep ==
    ASSUME IInv, NEW h \in Handlers, NEW i \in Ids, NEW outcome \in Outcomes,
           Insert(h, i, outcome)
    PROVE  IInv'
<1> DEFINE slug == handler[h].site.slug
           free == UniqueSlug(slug)
           good == free /\ outcome = "done"
           stored == free /\ outcome # "failed"
<1>1. Busy(h) /\ handler[h].pc = "insert" /\ i \notin issued
  BY DEF Insert
<1>2. /\ handler[h] \in AtWork /\ HandlerOK(h) /\ handler[h].site \in Site
      /\ handler[h].site # None /\ slug \in Slugs
      /\ handler[h].kind = "create" /\ handler[h].id = None
      /\ slug = handler[h].row
  BY <1>1, Held DEF HandlerOK
<1>3. sites[i] = None
  BY <1>1 DEF IInv, IssuedInv
<1>4. /\ issued' = issued \union {i} /\ faults' \in 0 .. MaxFaults
      /\ UNCHANGED <<cronJobs, unsettled>>
  BY CallType DEF Insert, IInv
<1>5. \A k \in Ids : sites'[k] = IF k = i /\ stored THEN handler[h].site
                                 ELSE sites[k]
  BY DEF Insert, IInv, TypeOK
<1>6. sites' \in [Ids -> Site \union {None}]
  BY <1>2 DEF Insert, IInv, TypeOK
<1>7. good => handler' = [handler EXCEPT ![h].pc = "get",
                                         ![h].id = ReturnedId(i)]
  BY DEF Insert
<1>8. ~good => Moves(handler', h, "respond", FALSE)
  BY <1>1, GoesMoves DEF Insert, IInv, PCs
<1>9. /\ handler' \in [Handlers -> AtWork \union {None}] /\ handler'[h] # None
      /\ handler'[h].kind = "create" /\ handler'[h].row = handler[h].row
      /\ handler'[h].site = handler[h].site
      /\ \A g \in Handlers : g # h => Keeps(g)
  <2>1. CASE good
    BY <1>1, <1>2, <1>7, <2>1, InsertHolds DEF IInv
  <2>2. CASE ~good
    <3> HIDE DEF good
    <3> QED
      BY <1>1, <1>2, <1>8, <2>2, MovesKeeps
  <2> QED
    BY <2>1, <2>2
<1>10. good => /\ handler'[h].pc = "get" /\ handler'[h].id = i
               /\ handler'[h].clean = handler[h].clean
  BY <1>1, <1>7, InsertHolds DEF IInv
<1>11. ~good => /\ handler'[h].pc = "respond" /\ handler'[h].id = None
                /\ ~handler'[h].clean
  <2> HIDE DEF good
  <2> QED
    BY <1>1, <1>2, <1>8, MovesKeeps
<1>12. good => stored
  OBVIOUS
<1>13. stored => \A k \in Ids : ~HeldBy(k, slug)
  BY DEF UniqueSlug, Owners
<1> HIDE DEF good, stored
<1>14. CallOf(h)
  <2>1. \A k \in Ids : RowKept(k, Touches(h))
    BY <1>1, <1>3, <1>5 DEF RowKept, Touches
  <2> QED
    BY <1>1, <1>4, <1>9, <2>1 DEF CallOf
<1>15. TypeOK'
  BY <1>4, <1>6, <1>9 DEF IInv, TypeOK
<1>16. SlugsUnique'
  <2>1. \A k \in Ids : \A s \in Slugs :
            HeldBy(k, s)' => \/ HeldBy(k, s)
                             \/ k = i /\ stored /\ s = slug
    BY <1>5 DEF HeldBy
  <2> QED
    BY <1>13, <2>1 DEF IInv, SlugsUnique
<1>17. IssuedInv'
  BY <1>4, <1>5 DEF IInv, IssuedInv
<1>18. HandlerOK(h)'
  <2>1. CASE good
    <3>1. sites'[i] = handler[h].site
      BY <1>5, <1>12, <2>1
    <3> QED
      BY <1>2, <1>4, <1>9, <1>10, <2>1, <3>1 DEF HandlerOK
  <2>2. CASE ~good
    BY <1>2, <1>9, <1>11, <2>2, NoneAssumption DEF HandlerOK
  <2> QED
    BY <2>1, <2>2
<1>19. ASSUME handler'[h].clean
       PROVE  /\ handler[h].clean
              /\ \A s \in Slugs : Touches(h) = {s} /\ Progress(h, s)
                                  => Progress(h, s)'
  <2>1. good
    BY <1>11, <1>19
  <2>2. sites'[i] = handler[h].site
    BY <1>5, <1>12, <2>1
  <2> QED
    BY <1>9, <1>10, <1>19, <2>1, <2>2 DEF Progress
<1> QED
  BY <1>14, <1>15, <1>16, <1>17, <1>18, <1>19, CallStep

(***************************************************************************)
(* The calls to the API server.                                            *)
(***************************************************************************)
\* A call that changes at most the CronJob of the handler's slug.
LEMMA ClusterCallOf ==
    ASSUME IInv, NEW h \in Handlers, Busy(h), NEW pc, NEW good,
           Moves(handler', h, pc, good), UNCHANGED <<sites, issued, unsettled>>,
           faults' \in 0 .. MaxFaults,
           NEW c \in CronJob \union {None},
           cronJobs' = [cronJobs EXCEPT ![handler[h].site.slug] = c]
    PROVE  /\ CallOf(h) /\ TypeOK' /\ SlugsUnique' /\ IssuedInv'
           /\ cronJobs'[handler[h].site.slug] = c
<1>1. handler[h].site.slug \in Slugs
  BY Held
<1>2. TypeOK'
  BY MovesKeeps DEF IInv, TypeOK
<1>3. CallOf(h)
  BY MovesKeeps DEF CallOf, RowKept, Touches, IInv, TypeOK
<1>4. \A k \in Ids : \A s \in Slugs : HeldBy(k, s)' <=> HeldBy(k, s)
  BY DEF HeldBy
<1> QED
  BY <1>1, <1>2, <1>3, <1>4 DEF IInv, IssuedInv, SlugsUnique, TypeOK

\* The CronJob c is what the site in row i asks for.
Agree(c, i, site) ==
    /\ c # None /\ c.site = i
    /\ c.suspend = ~site.enabled /\ c.interval = site.interval

LEMMA AgreedInStep ==
    ASSUME NEW s \in Slugs, NEW i \in Ids, HeldBy(i, s)',
           Agree(cronJobs'[s], i, sites'[i])
    PROVE  InStep(s)'
<1>1. Owners(s)' # {}
  BY DEF Owners
<1> QED
  BY <1>1 DEF InStep, Agree

LEMMA AfterEnsureType ==
    ASSUME NEW h \in Handlers
    PROVE  /\ AfterEnsure(h) \in {"kick", "respond"}
           /\ AfterEnsure(h) = "kick" => handler[h].kind = "create"
BY DEF AfterEnsure

LEMMA GetStep ==
    ASSUME IInv, NEW h \in Handlers, NEW outcome \in Outcomes,
           GetCronJob(h, outcome)
    PROVE  IInv'
<1> DEFINE good == outcome = "done"
           pc == IF good THEN "apply" ELSE AfterEnsure(h)
           seen == IF cronJobs[handler[h].site.slug] = None
                   THEN "nothing" ELSE "latest"
           me == [handler[h] EXCEPT !.pc = "apply", !.seen = seen]
<1>1. Busy(h) /\ handler[h].pc = "get"
  BY DEF GetCronJob
<1>2. /\ handler[h] \in AtWork /\ HandlerOK(h) /\ handler[h].site.slug \in Slugs
      /\ handler[h].kind \in {"create", "edit"} /\ handler[h].id \in Ids
  BY <1>1, Held DEF HandlerOK
<1>3. Moves(handler', h, pc, good)
  <2>1. CASE good
    <3>1. me \in AtWork /\ me # None
      BY <1>2, NoneAssumption DEF AtWork, PCs, Seen
    <3>2. /\ me.kind = handler[h].kind /\ me.id = handler[h].id
          /\ me.site = handler[h].site /\ me.row = handler[h].row
          /\ me.pc = "apply" /\ me.clean = handler[h].clean
      BY <1>2 DEF AtWork
    <3>3. handler' = [handler EXCEPT ![h] = me]
      BY <2>1 DEF GetCronJob, IInv, TypeOK
    <3>4. handler[h].clean \in BOOLEAN
      BY <1>2 DEF AtWork
    <3> HIDE DEF me
    <3> QED
      BY <1>1, <2>1, <3>1, <3>2, <3>3, <3>4 DEF Moves, IInv, TypeOK, Busy
  <2>2. CASE ~good
    BY <1>1, <2>2, GoesMoves, AfterEnsureType DEF GetCronJob, IInv, PCs
  <2> QED
    BY <2>1, <2>2
<1>4. /\ faults' \in 0 .. MaxFaults
      /\ UNCHANGED <<sites, issued, cronJobs, unsettled>>
  BY CallType DEF GetCronJob, IInv, tables
<1>5. cronJobs[handler[h].site.slug] \in CronJob \union {None}
      /\ cronJobs' = [cronJobs EXCEPT ![handler[h].site.slug] =
                                      cronJobs[handler[h].site.slug]]
  BY <1>2, <1>4 DEF IInv, TypeOK
<1>6. pc \in {"apply", "kick", "respond"} /\ (good => pc = "apply")
      /\ (pc = "kick" => handler[h].kind = "create")
  BY AfterEnsureType
<1> HIDE DEF pc, good
<1>7. CallOf(h) /\ TypeOK' /\ SlugsUnique' /\ IssuedInv'
  BY <1>1, <1>3, <1>4, <1>5, ClusterCallOf
<1>8. /\ handler'[h].kind = handler[h].kind /\ handler'[h].id = handler[h].id
      /\ handler'[h].site = handler[h].site /\ handler'[h].row = handler[h].row
      /\ handler'[h].pc = pc /\ handler'[h].clean = (handler[h].clean /\ good)
  BY <1>1, <1>3, MovesKeeps
<1>9. HandlerOK(h)'
  BY <1>2, <1>4, <1>6, <1>8 DEF HandlerOK
<1>10. ASSUME handler'[h].clean
       PROVE  /\ handler[h].clean
              /\ \A s \in Slugs : Touches(h) = {s} /\ Progress(h, s)
                                  => Progress(h, s)'
  <2>1. good /\ handler[h].clean
    BY <1>8, <1>10
  <2> QED
    BY <1>1, <1>4, <1>6, <1>8, <2>1 DEF Progress
<1> QED
  BY <1>7, <1>9, <1>10, CallStep

LEMMA ApplyStep ==
    ASSUME IInv, NEW h \in Handlers, NEW outcome \in Outcomes,
           ApplyCronJob(h, outcome)
    PROVE  IInv'
<1> DEFINE slug == handler[h].site.slug
           good == Accepted(h) /\ outcome = "done"
           built == BuildCronJob(handler[h].id, handler[h].site)
           c == IF Accepted(h) /\ outcome # "failed" THEN built
                ELSE cronJobs[slug]
           pc == AfterEnsure(h)
<1>1. Busy(h) /\ handler[h].pc = "apply"
  BY DEF ApplyCronJob
<1>2. /\ handler[h] \in AtWork /\ HandlerOK(h) /\ slug \in Slugs
      /\ handler[h].site \in Site /\ handler[h].site # None
      /\ handler[h].kind \in {"create", "edit"} /\ handler[h].id \in Ids
  BY <1>1, Held DEF HandlerOK
<1>3. pc \in {"kick", "respond"} /\ (pc = "kick" => handler[h].kind = "create")
  BY AfterEnsureType
<1>4. Moves(handler', h, pc, good)
  <2>1. handler' = Outdate(Goes(h, pc, good), slug, c)
    BY DEF ApplyCronJob, SetCronJob
  <2>2. good \in BOOLEAN
    OBVIOUS
  <2>3. Moves(Goes(h, pc, good), h, pc, good)
    <3> HIDE DEF pc, good
    <3> QED
      BY <1>1, <1>3, <2>2, GoesMoves DEF IInv, PCs
  <2> HIDE DEF pc, good, c
  <2> QED
    BY <1>1, <2>1, <2>2, <2>3, OutdateMoves
<1>5. /\ faults' \in 0 .. MaxFaults /\ UNCHANGED <<sites, issued, unsettled>>
      /\ cronJobs' = [cronJobs EXCEPT ![slug] = c]
  BY CallType DEF ApplyCronJob, SetCronJob, IInv, tables
<1>6. built \in CronJob /\ Agree(built, handler[h].id, handler[h].site)
  <2>1. built \in CronJob
    BY <1>2 DEF BuildCronJob, CronJob, Site
  <2>2. built # None
    BY <2>1, NoneAssumption
  <2> QED
    BY <2>1, <2>2 DEF BuildCronJob, Agree
<1>7. c \in CronJob \union {None} /\ (good => c = built)
  BY <1>2, <1>6 DEF IInv, TypeOK
<1> HIDE DEF pc, good, c, built
<1>8. CallOf(h) /\ TypeOK' /\ SlugsUnique' /\ IssuedInv' /\ cronJobs'[slug] = c
  BY <1>1, <1>4, <1>5, <1>7, ClusterCallOf
<1>9. /\ handler'[h].kind = handler[h].kind /\ handler'[h].id = handler[h].id
      /\ handler'[h].site = handler[h].site /\ handler'[h].row = handler[h].row
      /\ handler'[h].pc = pc /\ handler'[h].clean = (handler[h].clean /\ good)
  BY <1>1, <1>4, MovesKeeps
<1>10. HandlerOK(h)'
  BY <1>2, <1>3, <1>5, <1>9 DEF HandlerOK
<1>11. ASSUME handler'[h].clean
       PROVE  /\ handler[h].clean
              /\ \A s \in Slugs : Touches(h) = {s} /\ Progress(h, s)
                                  => Progress(h, s)'
  <2>1. good /\ handler[h].clean
    BY <1>9, <1>11
  <2>2. ASSUME NEW s \in Slugs, Touches(h) = {s}, Progress(h, s)
        PROVE  Progress(h, s)'
    <3>1. sites'[handler[h].id] = handler[h].site /\ slug = s
      BY <1>1, <1>5, <2>2 DEF Progress, Touches
    <3>0. PICK i \in Ids : i = handler[h].id
      BY <1>2
    <3>2. HeldBy(i, s)'
      BY <1>2, <3>0, <3>1 DEF HeldBy
    <3>3. InStep(s)'
      <4>1. cronJobs'[s] = built
        BY <1>7, <1>8, <2>1, <3>1
      <4>2. Agree(cronJobs'[s], i, sites'[i])
        BY <1>6, <3>0, <3>1, <4>1
      <4> QED
        BY <3>2, <4>2, AgreedInStep
    <3> QED
      BY <1>2, <1>3, <1>9, <3>3 DEF Progress
  <2> QED
    BY <2>1, <2>2
<1> QED
  BY <1>8, <1>10, <1>11, CallStep

LEMMA SuspendStep ==
    ASSUME IInv, NEW h \in Handlers, NEW outcome \in Outcomes,
           SuspendCronJob(h, outcome)
    PROVE  IInv'
<1> DEFINE slug == handler[h].site.slug
           found == cronJobs[slug] # None
           good == found /\ outcome = "done"
           patched == [cronJobs[slug] EXCEPT !.suspend = ~handler[h].site.enabled]
           c == IF found /\ outcome # "failed" THEN patched ELSE cronJobs[slug]
<1>1. Busy(h) /\ handler[h].pc = "suspend"
  BY DEF SuspendCronJob
<1>2. /\ handler[h] \in AtWork /\ HandlerOK(h) /\ slug \in Slugs
      /\ handler[h].site \in Site /\ handler[h].site # None
      /\ handler[h].kind = "toggle" /\ handler[h].id \in Ids
  BY <1>1, Held DEF HandlerOK
<1>3. Moves(handler', h, "respond", good)
  <2>1. handler' = Outdate(Goes(h, "respond", good), slug, c)
    BY DEF SuspendCronJob, SetCronJob
  <2>2. good \in BOOLEAN
    OBVIOUS
  <2>3. Moves(Goes(h, "respond", good), h, "respond", good)
    <3> HIDE DEF good
    <3> QED
      BY <1>1, <2>2, GoesMoves DEF IInv, PCs
  <2> HIDE DEF good, c
  <2> QED
    BY <1>1, <2>1, <2>2, <2>3, OutdateMoves
<1>4. /\ faults' \in 0 .. MaxFaults /\ UNCHANGED <<sites, issued, unsettled>>
      /\ cronJobs' = [cronJobs EXCEPT ![slug] = c]
  BY CallType DEF SuspendCronJob, SetCronJob, IInv, tables
<1>5. found => /\ patched \in CronJob /\ patched # None
               /\ patched.site = cronJobs[slug].site
               /\ patched.suspend = ~handler[h].site.enabled
               /\ patched.interval = cronJobs[slug].interval
  <2>1. cronJobs[slug] \in CronJob \union {None}
    BY <1>2 DEF IInv, TypeOK
  <2>2. ASSUME found PROVE patched \in CronJob
    BY <1>2, <2>1, <2>2 DEF CronJob, Site
  <2> QED
    BY <2>1, <2>2, NoneAssumption DEF CronJob
<1>6. c \in CronJob \union {None} /\ (good => found /\ c = patched)
  BY <1>2, <1>5 DEF IInv, TypeOK
<1> HIDE DEF good, c, patched
<1>7. CallOf(h) /\ TypeOK' /\ SlugsUnique' /\ IssuedInv' /\ cronJobs'[slug] = c
  BY <1>1, <1>3, <1>4, <1>6, ClusterCallOf
<1>8. /\ handler'[h].kind = handler[h].kind /\ handler'[h].id = handler[h].id
      /\ handler'[h].site = handler[h].site /\ handler'[h].row = handler[h].row
      /\ handler'[h].pc = "respond"
      /\ handler'[h].clean = (handler[h].clean /\ good)
  BY <1>1, <1>3, MovesKeeps
<1>9. HandlerOK(h)'
  BY <1>2, <1>4, <1>8 DEF HandlerOK
<1>10. ASSUME handler'[h].clean
       PROVE  /\ handler[h].clean
              /\ \A s \in Slugs : Touches(h) = {s} /\ Progress(h, s)
                                  => Progress(h, s)'
  <2>1. good /\ handler[h].clean
    BY <1>8, <1>10
  <2>2. ASSUME NEW s \in Slugs, Touches(h) = {s}, Progress(h, s)
        PROVE  Progress(h, s)'
    <3>1. sites'[handler[h].id] = handler[h].site /\ slug = s
      BY <1>1, <1>4, <2>2 DEF Progress, Touches
    <3>0. PICK i \in Ids : i = handler[h].id
      BY <1>2
    <3>2. HeldBy(i, s)'
      BY <1>2, <3>0, <3>1 DEF HeldBy
    <3>3. ASSUME s \notin unsettled PROVE InStep(s)'
      <4>1. cronJobs[s].site = handler[h].id
            /\ cronJobs[s].interval = handler[h].site.interval
        BY <1>1, <2>2, <3>3 DEF Progress
      <4>2. found /\ cronJobs'[s] = patched
        BY <1>6, <1>7, <2>1, <3>1
      <4>3. Agree(patched, handler[h].id, handler[h].site)
        BY <1>5, <3>1, <4>1, <4>2 DEF Agree
      <4>4. Agree(cronJobs'[s], i, sites'[i])
        BY <3>0, <3>1, <4>2, <4>3
      <4> QED
        BY <3>2, <4>4, AgreedInStep
    <3> QED
      BY <1>2, <1>4, <1>8, <3>3 DEF Progress
  <2> QED
    BY <2>1, <2>2
<1> QED
  BY <1>7, <1>9, <1>10, CallStep

LEMMA DeleteCronJobStep ==
    ASSUME IInv, NEW h \in Handlers, NEW outcome \in Outcomes,
           DeleteCronJob(h, outcome)
    PROVE  IInv'
<1> DEFINE slug == handler[h].site.slug
           good == outcome = "done"
           c == IF outcome = "failed" THEN cronJobs[slug] ELSE None
<1>1. Busy(h) /\ handler[h].pc = "delete"
  BY DEF DeleteCronJob
<1>2. /\ handler[h] \in AtWork /\ HandlerOK(h) /\ slug \in Slugs
      /\ handler[h].kind = "delete" /\ handler[h].id \in Ids
  BY <1>1, Held DEF HandlerOK
<1>3. Moves(handler', h, "respond", good)
  <2>1. handler' = Outdate(Goes(h, "respond", good), slug, c)
    BY DEF DeleteCronJob, SetCronJob
  <2>2. good \in BOOLEAN
    OBVIOUS
  <2>3. Moves(Goes(h, "respond", good), h, "respond", good)
    <3> HIDE DEF good
    <3> QED
      BY <1>1, <2>2, GoesMoves DEF IInv, PCs
  <2> HIDE DEF good, c
  <2> QED
    BY <1>1, <2>1, <2>2, <2>3, OutdateMoves
<1>4. /\ faults' \in 0 .. MaxFaults /\ UNCHANGED <<sites, issued, unsettled>>
      /\ cronJobs' = [cronJobs EXCEPT ![slug] = c]
  BY CallType DEF DeleteCronJob, SetCronJob, IInv, tables
<1>5. c \in CronJob \union {None} /\ (good => c = None)
  BY <1>2 DEF IInv, TypeOK
<1> HIDE DEF good, c
<1>6. CallOf(h) /\ TypeOK' /\ SlugsUnique' /\ IssuedInv' /\ cronJobs'[slug] = c
  BY <1>1, <1>3, <1>4, <1>5, ClusterCallOf
<1>7. /\ handler'[h].kind = handler[h].kind /\ handler'[h].id = handler[h].id
      /\ handler'[h].site = handler[h].site /\ handler'[h].row = handler[h].row
      /\ handler'[h].pc = "respond"
      /\ handler'[h].clean = (handler[h].clean /\ good)
  BY <1>1, <1>3, MovesKeeps
<1>8. HandlerOK(h)'
  BY <1>2, <1>4, <1>7 DEF HandlerOK
<1>9. ASSUME handler'[h].clean
      PROVE  /\ handler[h].clean
             /\ \A s \in Slugs : Touches(h) = {s} /\ Progress(h, s)
                                 => Progress(h, s)'
  <2>1. good /\ handler[h].clean
    BY <1>7, <1>9
  <2>2. ASSUME NEW s \in Slugs, Touches(h) = {s}, Progress(h, s)
        PROVE  Progress(h, s)'
    <3>1. Owners(s) = {} /\ slug = s
      BY <1>1, <2>2 DEF Progress, Touches
    <3>2. Owners(s)' = {}
      BY <1>4, <3>1 DEF Owners, HeldBy
    <3>3. InStep(s)'
      BY <1>5, <1>6, <2>1, <3>1, <3>2 DEF InStep
    <3> QED
      BY <1>2, <1>7, <3>3 DEF Progress
  <2> QED
    BY <2>1, <2>2
<1> QED
  BY <1>6, <1>8, <1>9, CallStep

LEMMA KickStep ==
    ASSUME IInv, NEW h \in Handlers, NEW outcome \in Outcomes, Kick(h, outcome)
    PROVE  IInv'
<1> DEFINE slug == handler[h].site.slug
<1>1. Busy(h) /\ handler[h].pc = "kick"
  BY DEF Kick
<1>2. /\ handler[h] \in AtWork /\ HandlerOK(h) /\ slug \in Slugs
      /\ handler[h].kind = "create" /\ handler[h].id \in Ids
  BY <1>1, Held DEF HandlerOK
<1>3. Moves(handler', h, "respond", TRUE)
  BY <1>1, GoesMoves DEF Kick, IInv, PCs
<1>4. /\ faults' \in 0 .. MaxFaults
      /\ UNCHANGED <<sites, issued, cronJobs, unsettled>>
  BY CallType DEF Kick, IInv, tables
<1>5. /\ cronJobs[slug] \in CronJob \union {None}
      /\ cronJobs' = [cronJobs EXCEPT ![slug] = cronJobs[slug]]
  BY <1>2, <1>4 DEF IInv, TypeOK
<1>6. CallOf(h) /\ TypeOK' /\ SlugsUnique' /\ IssuedInv'
  BY <1>1, <1>3, <1>4, <1>5, ClusterCallOf
<1>7. /\ handler'[h].kind = handler[h].kind /\ handler'[h].id = handler[h].id
      /\ handler'[h].site = handler[h].site /\ handler'[h].row = handler[h].row
      /\ handler'[h].pc = "respond" /\ handler'[h].clean = handler[h].clean
  <2>1. handler[h].clean \in BOOLEAN
    BY <1>2 DEF AtWork
  <2> QED
    BY <1>1, <1>3, <2>1, MovesKeeps
<1>8. HandlerOK(h)'
  BY <1>2, <1>4, <1>7 DEF HandlerOK
<1>9. ASSUME NEW s \in Slugs, Progress(h, s)
      PROVE  Progress(h, s)'
  <2>1. InStep(s)
    BY <1>1, <1>2, <1>9 DEF Progress
  <2>2. InStep(s)'
    BY <1>4, <2>1 DEF InStep, Owners, HeldBy
  <2> QED
    BY <1>2, <1>7, <2>2 DEF Progress
<1> QED
  BY <1>6, <1>7, <1>8, <1>9, CallStep

(***************************************************************************)
(* Handlers that start and end.                                            *)
(***************************************************************************)
\* Where a handler starts.
Starts(kind, pc, id, site, row) ==
    \/ kind = "create" /\ pc = "insert" /\ id = None /\ site.slug = row
    \/ /\ id \in Ids /\ sites[id] # None /\ sites[id].slug = row
       /\ \/ kind = "edit" /\ pc = "update"
          \/ kind = "toggle" /\ pc = "update" /\ site.slug = row
             /\ sites[id] = [site EXCEPT !.enabled = ~site.enabled]
          \/ kind = "delete" /\ pc = "delete row" /\ site.slug = row

LEMMA BeginStep ==
    ASSUME IInv, NEW h \in Handlers, NEW kind, NEW pc, NEW id,
           NEW site \in Site, NEW row \in Slugs,
           Begin(h, kind, pc, id, site, row), Starts(kind, pc, id, site, row),
           faults' \in 0 .. MaxFaults
    PROVE  IInv'
<1> DEFINE rivals == Rivals({row, site.slug})
           me == [kind |-> kind, pc |-> pc, id |-> id, site |-> site,
                  row |-> row, seen |-> "nothing", clean |-> rivals = {}]
<1>1. ~Busy(h) /\ UNCHANGED <<sites, issued, cronJobs, unsettled>>
  BY DEF Begin, tables
<1>2. me \in AtWork /\ me # None
  <2>1. kind \in Kinds /\ pc \in PCs /\ id \in Ids \union {None}
    BY DEF Starts, Kinds, PCs
  <2>2. (rivals = {}) \in BOOLEAN
    OBVIOUS
  <2>3. me \in AtWork
    BY <2>1, <2>2 DEF AtWork, Seen
  <2> QED
    BY <2>3, NoneAssumption
<1>3. /\ me.kind = kind /\ me.pc = pc /\ me.id = id /\ me.site = site
      /\ me.row = row /\ (me.clean => rivals = {})
  OBVIOUS
<1>4. /\ handler'[h] = me
      /\ \A g \in Handlers : g # h =>
            handler'[g] = IF g \in rivals THEN [handler[g] EXCEPT !.clean = FALSE]
                          ELSE handler[g]
      /\ handler' = [g \in Handlers |-> handler'[g]]
  BY DEF Begin
<1>5. \A g \in rivals : Busy(g) /\ g \in Handlers
  BY DEF Rivals
<1>6. \A g \in Handlers : Busy(g) /\ g \notin rivals =>
          row \notin Touches(g) /\ site.slug \notin Touches(g)
  BY DEF Rivals
<1> HIDE DEF me, rivals
<1>7. ASSUME NEW g \in rivals, g # h
      PROVE  /\ handler'[g] \in AtWork /\ handler'[g] # None
             /\ handler'[g].kind = handler[g].kind
             /\ handler'[g].pc = handler[g].pc /\ handler'[g].id = handler[g].id
             /\ handler'[g].site = handler[g].site
             /\ handler'[g].row = handler[g].row /\ ~handler'[g].clean
  <2> DEFINE marked == [handler[g] EXCEPT !.clean = FALSE]
  <2>1. handler[g] \in AtWork
    BY <1>5 DEF IInv, TypeOK, Busy
  <2>2. /\ marked \in AtWork /\ marked # None /\ ~marked.clean
        /\ marked.kind = handler[g].kind /\ marked.pc = handler[g].pc
        /\ marked.id = handler[g].id /\ marked.site = handler[g].site
        /\ marked.row = handler[g].row
    BY <2>1, NoneAssumption DEF AtWork
  <2>3. handler'[g] = marked
    BY <1>4, <1>5, <1>7
  <2> QED
    BY <2>2, <2>3
<1>8. TypeOK'
  <2>1. \A g \in Handlers : handler'[g] \in AtWork \union {None}
    BY <1>2, <1>4, <1>7 DEF IInv, TypeOK
  <2> QED
    BY <1>1, <1>4, <2>1 DEF IInv, TypeOK
<1>9. SlugsUnique' /\ IssuedInv'
  BY <1>1 DEF IInv, SlugsUnique, IssuedInv, HeldBy
<1>10. \A g \in Handlers : g # h =>
           (Busy(g)' <=> Busy(g)) /\ (Busy(g) => Touches(g)' = Touches(g))
  BY <1>4, <1>5, <1>7 DEF Busy, Touches
<1>11. Busy(h)' /\ Touches(h)' = {row, site.slug}
  BY <1>2, <1>3, <1>4 DEF Busy, Touches
<1>12. \A s \in Slugs : InStep(s)' <=> InStep(s)
  BY <1>1 DEF InStep, Owners, HeldBy
<1>13. HandlerInv'
  <2>1. ASSUME NEW g \in Handlers, Busy(g)', g # h PROVE HandlerOK(g)'
    <3>1. HandlerOK(g)
      BY <1>10, <2>1 DEF IInv, HandlerInv
    <3> QED
      BY <1>1, <1>4, <1>7, <2>1, <3>1 DEF HandlerOK
  <2>2. HandlerOK(h)'
    <3>1. id \in Ids => id \in issued
      BY NoneAssumption DEF Starts, IInv, IssuedInv
    <3> QED
      BY <1>1, <1>3, <1>4, <3>1, NoneAssumption DEF HandlerOK, Starts
  <2> QED
    BY <2>1, <2>2 DEF HandlerInv
<1>14. CleanInv'
  <2>1. ASSUME NEW g \in Handlers, Busy(g)', g # h, handler'[g].clean
        PROVE  CleanOK(g)'
    <3>1. g \notin rivals /\ handler'[g] = handler[g] /\ Busy(g)
      BY <1>4, <1>7, <1>10, <2>1
    <3>2. Alone(g) /\ \A s \in Slugs : Touches(g) = {s} => Progress(g, s)
      BY <2>1, <3>1 DEF IInv, CleanInv, CleanOK
    <3>3. Alone(g)'
      <4>1. SUFFICES ASSUME NEW k \in Handlers, k # g, Busy(k)'
                     PROVE  Touches(k)' \cap Touches(g)' = {}
        BY DEF Alone
      <4>2. Touches(g)' = Touches(g)
        BY <1>10, <2>1, <3>1
      <4>3. CASE k = h
        BY <1>6, <1>11, <3>1, <4>2, <4>3
      <4>4. CASE k # h
        BY <1>10, <3>2, <4>1, <4>2, <4>4 DEF Alone
      <4> QED
        BY <4>3, <4>4
    <3>4. ASSUME NEW s \in Slugs, Progress(g, s) PROVE Progress(g, s)'
      <4>1. Owners(s)' = Owners(s)
        BY <1>1 DEF Owners, HeldBy
      <4> QED
        BY <1>1, <1>12, <3>1, <3>4, <4>1 DEF Progress
    <3> QED
      BY <1>10, <2>1, <3>1, <3>2, <3>3, <3>4 DEF CleanOK
  <2>2. ASSUME handler'[h].clean PROVE CleanOK(h)'
    <3>1. rivals = {}
      BY <1>3, <1>4, <2>2
    <3>2. Alone(h)'
      BY <1>6, <1>10, <1>11, <3>1 DEF Alone
    <3>3. ASSUME NEW s \in Slugs, {row, site.slug} = {s}
          PROVE  Progress(h, s)'
      <4>1. ASSUME s \notin unsettled PROVE InStep(s)
        BY <1>1, <1>6, <3>1, <3>3, <4>1 DEF IInv, ScheduleInStep
      <4>2. /\ handler'[h].kind = kind /\ handler'[h].pc = pc
            /\ handler'[h].id = id /\ handler'[h].site = site
        BY <1>3, <1>4
      <4> QED
        BY <1>1, <1>12, <4>1, <4>2 DEF Starts, Progress
    <3> QED
      BY <1>11, <3>2, <3>3 DEF CleanOK
  <2> QED
    BY <2>1, <2>2 DEF CleanInv, CleanOK
<1>15. ScheduleInStep'
  <2>1. SUFFICES ASSUME NEW s \in Slugs, s \notin unsettled',
                        \A g \in Handlers : Busy(g)' => s \notin Touches(g)'
                 PROVE  InStep(s)'
    BY DEF ScheduleInStep
  <2>2. \A g \in Handlers : Busy(g) => s \notin Touches(g)
    BY <1>1, <1>10, <2>1
  <2> QED
    BY <1>1, <1>12, <2>1, <2>2 DEF IInv, ScheduleInStep
<1> QED
  BY <1>8, <1>9, <1>13, <1>14, <1>15 DEF IInv

LEMMA LeaveStep ==
    ASSUME IInv, NEW h \in Handlers, Busy(h),
           handler' = [handler EXCEPT ![h] = None],
           UNCHANGED <<sites, issued, cronJobs, faults>>, unsettled' \subseteq Slugs,
           \A s \in Slugs : s \notin Touches(h) =>
               (s \in unsettled' <=> s \in unsettled),
           \A s \in Slugs : s \in Touches(h) /\ s \notin unsettled' => InStep(s)
    PROVE  IInv'
<1>1. TypeOK' /\ SlugsUnique' /\ IssuedInv'
  BY DEF IInv, TypeOK, SlugsUnique, IssuedInv, HeldBy
<1>2. ~Busy(h)' /\ \A g \in Handlers : g # h => handler'[g] = handler[g]
  BY DEF IInv, TypeOK, Busy
<1>3. \A s \in Slugs : (InStep(s)' <=> InStep(s)) /\ Owners(s)' = Owners(s)
  BY DEF InStep, Owners, HeldBy
<1>4. HandlerInv'
  <2>1. SUFFICES ASSUME NEW g \in Handlers, Busy(g)' PROVE HandlerOK(g)'
    BY DEF HandlerInv
  <2>2. handler'[g] = handler[g] /\ HandlerOK(g)
    BY <1>2, <2>1 DEF IInv, HandlerInv, Busy
  <2>3. /\ sites' = sites /\ issued' = issued
        /\ \A s \in Slugs : Owners(s)' = Owners(s)
    BY <1>3
  <2> QED
    BY <2>2, <2>3 DEF HandlerOK
<1>5. CleanInv'
  <2>1. SUFFICES ASSUME NEW g \in Handlers, Busy(g)', handler'[g].clean
                 PROVE  CleanOK(g)'
    BY DEF CleanInv, CleanOK
  <2>2. g # h /\ handler'[g] = handler[g] /\ Busy(g)
    BY <1>2, <2>1 DEF Busy
  <2>3. Alone(g) /\ \A s \in Slugs : Touches(g) = {s} => Progress(g, s)
    BY <2>1, <2>2 DEF IInv, CleanInv, CleanOK
  <2>4. Alone(g)'
    BY <1>2, <2>2, <2>3 DEF Alone, Touches, Busy
  <2>5. ASSUME NEW s \in Slugs, Touches(g) = {s} PROVE Progress(g, s)'
    <3>1. s \in unsettled' <=> s \in unsettled
      BY <2>2, <2>3, <2>5 DEF Alone
    <3> QED
      BY <1>3, <2>2, <2>3, <2>5, <3>1 DEF Progress
  <2> QED
    BY <2>2, <2>4, <2>5 DEF CleanOK, Touches
<1>6. ScheduleInStep'
  <2>1. SUFFICES ASSUME NEW s \in Slugs, s \notin unsettled',
                        \A g \in Handlers : Busy(g)' => s \notin Touches(g)'
                 PROVE  InStep(s)
    BY <1>3 DEF ScheduleInStep
  <2>2. \A g \in Handlers : g # h /\ Busy(g) => s \notin Touches(g)
    BY <1>2, <2>1 DEF Busy, Touches
  <2>3. CASE s \in Touches(h)
    BY <2>1, <2>3
  <2>4. CASE s \notin Touches(h)
    BY <2>1, <2>2, <2>4 DEF IInv, ScheduleInStep
  <2> QED
    BY <2>3, <2>4
<1> QED
  BY <1>1, <1>4, <1>5, <1>6 DEF IInv

LEMMA EndStep ==
    ASSUME IInv, NEW h \in Handlers, Respond(h) \/ HandlerLost(h)
    PROVE  IInv'
<1>1. /\ Busy(h) /\ handler' = [handler EXCEPT ![h] = None]
      /\ UNCHANGED <<sites, issued, cronJobs, faults>>
  BY DEF Respond, HandlerLost, tables
<1>2. Touches(h) \subseteq Slugs /\ handler[h].site.slug \in Touches(h)
  BY <1>1, Held DEF Touches
<1>3. /\ unsettled' \subseteq Slugs
      /\ \A s \in Slugs : s \notin Touches(h) =>
             (s \in unsettled' <=> s \in unsettled)
  BY <1>2 DEF Respond, HandlerLost, IInv, TypeOK
<1>4. ASSUME NEW s \in Slugs, s \in Touches(h), s \notin unsettled'
      PROVE  InStep(s)
  <2>1. /\ handler[h].pc = "respond" /\ handler[h].clean /\ Touches(h) = {s}
        /\ handler[h].kind = "toggle" => s \notin unsettled
    BY <1>4 DEF Respond, HandlerLost, Touches
  <2>2. Progress(h, s)
    BY <1>1, <2>1 DEF IInv, CleanInv, CleanOK
  <2> QED
    BY <2>1, <2>2 DEF Progress
<1> QED
  BY <1>1, <1>3, <1>4, LeaveStep

LEMMA StatusStep ==
    ASSUME IInv, NEW s \in Slugs, StatusWritten(s)
    PROVE  IInv'
<1>1. UNCHANGED <<sites, issued, cronJobs, unsettled, faults>>
  BY DEF StatusWritten, tables
<1>2. /\ handler' \in [Handlers -> AtWork \union {None}]
      /\ \A g \in Handlers : Keeps(g)
  BY OutdateSame DEF StatusWritten, IInv, TypeOK, Keeps, Busy
<1>3. TypeOK' /\ SlugsUnique' /\ IssuedInv'
  BY <1>1, <1>2 DEF IInv, TypeOK, SlugsUnique, IssuedInv, HeldBy
<1>4. \A t \in Slugs : (InStep(t)' <=> InStep(t)) /\ Owners(t)' = Owners(t)
  BY <1>1 DEF InStep, Owners, HeldBy
<1>5. \A g \in Handlers : (Busy(g)' <=> Busy(g))
                          /\ (Busy(g) => Touches(g)' = Touches(g))
  BY <1>2 DEF Keeps, Busy, Touches
<1>6. HandlerInv'
  <2>1. SUFFICES ASSUME NEW g \in Handlers, Busy(g)' PROVE HandlerOK(g)'
    BY DEF HandlerInv
  <2>2. Keeps(g) /\ Busy(g) /\ HandlerOK(g)
    BY <1>2, <1>5, <2>1 DEF IInv, HandlerInv
  <2> QED
    BY <1>1, <2>2 DEF HandlerOK, Keeps
<1>7. CleanInv'
  <2>1. SUFFICES ASSUME NEW g \in Handlers, Busy(g)', handler'[g].clean
                 PROVE  CleanOK(g)'
    BY DEF CleanInv, CleanOK
  <2>2. Busy(g) /\ Keeps(g) /\ handler[g].clean
    BY <1>2, <1>5, <2>1 DEF Keeps
  <2>3. Alone(g) /\ \A t \in Slugs : Touches(g) = {t} => Progress(g, t)
    BY <2>2 DEF IInv, CleanInv, CleanOK
  <2>4. Alone(g)'
    BY <1>5, <2>2, <2>3 DEF Alone
  <2>5. ASSUME NEW t \in Slugs, Progress(g, t) PROVE Progress(g, t)'
    BY <1>1, <1>4, <2>2, <2>5 DEF Progress, Keeps
  <2> QED
    BY <1>5, <2>2, <2>3, <2>4, <2>5 DEF CleanOK
<1>8. ScheduleInStep'
  BY <1>1, <1>4, <1>5 DEF IInv, ScheduleInStep
<1> QED
  BY <1>3, <1>6, <1>7, <1>8 DEF IInv

LEMMA StartStep ==
    ASSUME IInv, NEW h \in Handlers, Start(h)
    PROVE  IInv'
<1>1. ASSUME NEW form \in Site, NEW outcome \in {"done", "failed"},
             BeginCreate(h, form, outcome)
      PROVE  IInv'
  <2>1. form.slug \in Slugs /\ faults' \in 0 .. MaxFaults
    BY <1>1, CallType DEF BeginCreate, Site, IInv, Outcomes
  <2>2. Starts("create", "insert", None, form, form.slug)
    BY DEF Starts
  <2> QED
    BY <1>1, <2>1, <2>2, BeginStep DEF BeginCreate
<1>2. ASSUME NEW i \in Ids, sites[i] # None
      PROVE  sites[i] \in Site /\ sites[i].slug \in Slugs
  BY <1>2 DEF IInv, TypeOK, Site
<1>3. UNCHANGED faults => faults' \in 0 .. MaxFaults
  BY DEF IInv, TypeOK
<1>4. ASSUME NEW form \in Site, NEW i \in Ids, BeginEdit(h, i, form)
      PROVE  IInv'
  <2>1. Starts("edit", "update", i, form, sites[i].slug)
    BY <1>4 DEF BeginEdit, Starts
  <2> QED
    BY <1>2, <1>3, <1>4, <2>1, BeginStep DEF BeginEdit
<1>5. ASSUME NEW i \in Ids, BeginToggle(h, i)
      PROVE  IInv'
  <2> DEFINE site == [sites[i] EXCEPT !.enabled = ~@]
  <2>1. sites[i] \in Site /\ sites[i].slug \in Slugs
    BY <1>2, <1>5 DEF BeginToggle
  <2>2. site \in Site /\ site.slug = sites[i].slug
    BY <2>1 DEF Site
  <2>3. sites[i] = [site EXCEPT !.enabled = ~site.enabled]
    BY <2>1 DEF Site
  <2>4. Begin(h, "toggle", "update", i, site, sites[i].slug) /\ sites[i] # None
    BY <1>5 DEF BeginToggle
  <2> HIDE DEF site
  <2>5. Starts("toggle", "update", i, site, sites[i].slug)
    BY <2>2, <2>3, <2>4 DEF Starts
  <2> QED
    BY <1>3, <1>5, <2>1, <2>2, <2>4, <2>5, BeginStep DEF BeginToggle
<1>6. ASSUME NEW i \in Ids, BeginDelete(h, i)
      PROVE  IInv'
  <2>1. Starts("delete", "delete row", i, sites[i], sites[i].slug)
    BY <1>6 DEF BeginDelete, Starts
  <2> QED
    BY <1>2, <1>3, <1>6, <2>1, BeginStep DEF BeginDelete
<1> QED
  BY <1>1, <1>4, <1>5, <1>6 DEF Start

(***************************************************************************)
(* The theorems.                                                           *)
(***************************************************************************)
LEMMA InvInit == Init => IInv
<1> SUFFICES ASSUME Init PROVE IInv
  OBVIOUS
<1>1. TypeOK
  BY FaultAssumption DEF Init, TypeOK
<1>2. \A h \in Handlers : ~Busy(h)
  BY DEF Init, Busy
<1>3. \A i \in Ids : sites[i] = None
  BY DEF Init
<1>4. SlugsUnique /\ IssuedInv /\ HandlerInv /\ CleanInv
  BY <1>2, <1>3 DEF SlugsUnique, HeldBy, IssuedInv, HandlerInv, CleanInv
<1>5. ScheduleInStep
  <2>1. \A s \in Slugs : Owners(s) = {}
    BY <1>3 DEF Owners, HeldBy
  <2> QED
    BY <2>1 DEF ScheduleInStep, InStep, Init
<1> QED
  BY <1>1, <1>4, <1>5 DEF IInv

LEMMA InvStep == IInv /\ [Next]_vars => IInv'
<1> SUFFICES ASSUME IInv, [Next]_vars PROVE IInv'
  OBVIOUS
<1>1. ASSUME NEW h \in Handlers, DatabaseCall(h) PROVE IInv'
  BY <1>1, InsertStep, UpdateStep, DeleteRowStep DEF DatabaseCall
<1>2. ASSUME NEW h \in Handlers, ClusterCall(h) PROVE IInv'
  BY <1>2, GetStep, ApplyStep, SuspendStep, DeleteCronJobStep, KickStep
     DEF ClusterCall
<1>3. CASE UNCHANGED vars
  <2>1. UNCHANGED <<sites, issued, cronJobs, handler, unsettled, faults>>
    BY <1>3 DEF vars, tables
  <2>2. TypeOK' /\ SlugsUnique' /\ IssuedInv'
    BY <2>1 DEF IInv, TypeOK, SlugsUnique, IssuedInv, HeldBy
  <2>3. \A h \in Handlers : Busy(h)' = Busy(h) /\ Touches(h)' = Touches(h)
    BY <2>1 DEF Busy, Touches
  <2>4. \A s \in Slugs : (InStep(s)' <=> InStep(s)) /\ Owners(s)' = Owners(s)
    BY <2>1 DEF InStep, Owners, HeldBy
  <2>5. HandlerInv'
    BY <2>1 DEF IInv, HandlerInv, HandlerOK, Busy
  <2>6. ASSUME NEW h \in Handlers, Busy(h)', handler'[h].clean
        PROVE  CleanOK(h)'
    <3>1. Alone(h) /\ \A s \in Slugs : Touches(h) = {s} => Progress(h, s)
      BY <2>1, <2>3, <2>6 DEF IInv, CleanInv, CleanOK
    <3>2. Alone(h)'
      BY <2>3, <3>1 DEF Alone
    <3>3. \A s \in Slugs : Progress(h, s) => Progress(h, s)'
      BY <2>1, <2>4 DEF Progress
    <3> QED
      BY <2>3, <3>1, <3>2, <3>3 DEF CleanOK
  <2>7. CleanInv'
    BY <2>6 DEF CleanInv, CleanOK
  <2>8. ScheduleInStep'
    BY <2>1, <2>3, <2>4 DEF IInv, ScheduleInStep
  <2> QED
    BY <2>2, <2>5, <2>7, <2>8 DEF IInv
<1> QED
  BY <1>1, <1>2, <1>3, StartStep, EndStep, StatusStep DEF Next

\* What handlers hold fits the tables at every step, and one that is alone on
\* its slug and has met no error has done what its place says it has.
THEOREM Invariant == Spec => []IInv
BY InvInit, InvStep, PTL DEF Spec

\* Tables, CronJobs and handlers hold what their columns and fields can hold,
\* and a CronJob always names an id that the database gave out.
THEOREM TypeCorrect == Spec => []TypeOK
BY Invariant, PTL DEF IInv

\* The UNIQUE column settles every race of handlers that found a slug free.
THEOREM OneSitePerSlug == Spec => []SlugsUnique
BY Invariant, PTL DEF IInv

\* The CronJob of a slug follows its site, and is brought back in step by the
\* next undisturbed create, edit or delete.
THEOREM ScheduleFollowsSites == Spec => []ScheduleInStep
BY Invariant, PTL DEF IInv
=============================================================================
