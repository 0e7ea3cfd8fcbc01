--------------------------- MODULE MigrateProofs ---------------------------
(***************************************************************************)
(* What a migration promises, for every source, every database it may      *)
(* meet, every bound and whatever the portal does meanwhile.               *)
(***************************************************************************)
EXTENDS Migrate, TLAPS

(***************************************************************************)
(* The schema.                                                             *)
(***************************************************************************)
LEMMA Bounds ==
    MaxId \in Nat /\ 1 <= MaxId /\ MaxDraws \in Nat /\ MaxDeletes \in Nat
BY BoundAssumption DEF BoundAssumption

LEMMA SequencesAre ==
    /\ Len(Sequences) = 4 /\ DOMAIN Sequences = 1 .. 4
    /\ Sequences[1] = "sites" /\ Sequences[2] = "crawls"
    /\ Sequences[3] = "robots_logs" /\ Sequences[4] = "visited_urls"
BY DEF Sequences

LEMMA SerialAre == Serial = {"sites", "crawls", "robots_logs", "visited_urls"}
<1>1. Serial = {Sequences[i] : i \in 1 .. 4}
  BY SequencesAre DEF Serial
<1>2. 1 .. 4 = {1, 2, 3, 4}
  OBVIOUS
<1> QED
  BY <1>1, <1>2, SequencesAre

LEMMA OrderAre ==
    /\ DOMAIN Order = 1 .. 5
    /\ Order[1] = "settings" /\ Order[2] = "sites" /\ Order[3] = "crawls"
    /\ Order[4] = "robots_logs" /\ Order[5] = "visited_urls"
BY DEF Order

LEMMA TablesAre == Tables = Serial \union {"settings"}
<1>1. Tables = {Order[i] : i \in 1 .. 5}
  BY OrderAre DEF Tables
<1>2. 1 .. 5 = {1, 2, 3, 4, 5}
  OBVIOUS
<1> QED
  BY <1>1, <1>2, OrderAre, SerialAre

LEMMA ParentsAre ==
    /\ DOMAIN ParentOf = {"crawls", "robots_logs", "visited_urls"}
    /\ ParentOf["crawls"] = "sites" /\ ParentOf["robots_logs"] = "sites"
    /\ ParentOf["visited_urls"] = "crawls"
BY DEF ParentOf

LEMMA ParentBefore ==
    \A t \in DOMAIN ParentOf : Position(ParentOf[t]) < Position(t)
<1> DEFINE Place(t, i) == i \in 1 .. 5 /\ Order[i] = t
<1>1. \A t, i : Position(t) = (CHOOSE j \in 1 .. 5 : Order[j] = t)
  BY OrderAre DEF Position
<1>2. \A i, j \in 1 .. 5 : Order[i] = Order[j] => i = j
  <2>1. 1 .. 5 = {1, 2, 3, 4, 5}
    OBVIOUS
  <2> QED
    BY <2>1, OrderAre
<1>3. ASSUME NEW i \in 1 .. 5 PROVE Position(Order[i]) = i
  BY <1>1, <1>2
<1>4. Position("sites") = 2 /\ Position("crawls") = 3
      /\ Position("robots_logs") = 4 /\ Position("visited_urls") = 5
  <2>1. Position(Order[2]) = 2 /\ Position(Order[3]) = 3
        /\ Position(Order[4]) = 4 /\ Position(Order[5]) = 5
    BY <1>3
  <2> QED
    BY <2>1, OrderAre
<1> QED
  BY <1>4, ParentsAre

(***************************************************************************)
(* Sound sets of rows.                                                     *)
(***************************************************************************)
LEMMA SoundAdd ==
    ASSUME NEW some, NEW r, Sound(some), r.table # "sites" => r.slug = "none",
           ~Taken(r, some), ~SlugTaken(r, some), ~Orphan(r, some)
    PROVE  Sound(some \union {r})
BY DEF Sound, Taken, SlugTaken, Orphan

LEMMA SoundCut ==
    ASSUME NEW some, NEW gone, Sound(some),
           \A r \in some \ gone, q \in gone : ~Hangs(r, q)
    PROVE  Sound(some \ gone)
BY DEF Sound

LEMMA SoundSetting ==
    ASSUME NEW some, Sound(some), NEW r, NEW new, r.table = "settings",
           Key(new) = Key(r), new.table = "settings", new.slug = "none"
    PROVE  Sound({q \in some : Key(q) # Key(r)} \union {new})
<1> DEFINE kept == {q \in some : Key(q) # Key(r)}
<1>1. ~Taken(new, kept) /\ ~SlugTaken(new, kept) /\ ~Orphan(new, kept)
  BY ParentsAre DEF Taken, SlugTaken, Orphan
<1>2. \A p, q : Hangs(p, q) => Key(q) # Key(r)
  BY ParentsAre DEF Hangs, Key
<1>3. kept \subseteq some /\ \A q \in some : Key(q) # Key(r) => q \in kept
  OBVIOUS
<1> HIDE DEF kept
<1>4. Sound(kept)
  BY <1>2, <1>3 DEF Sound
<1> QED
  BY <1>1, <1>4, SoundAdd DEF kept

\* Nothing that is left hangs on what a DELETE takes with it.
LEMMA UnderClosed ==
    ASSUME NEW s \in rows, s.table = "sites", NEW r \in rows,
           NEW q \in Under(s), Hangs(r, q)
    PROVE  r \in Under(s)
<1>1. CASE q = s
  BY <1>1 DEF Under
<1>2. CASE Hangs(q, s)
  BY <1>2 DEF Under
<1>3. CASE \E p \in rows : Hangs(p, s) /\ Hangs(q, p)
  BY <1>3, ParentsAre DEF Hangs
<1> QED
  BY <1>1, <1>2, <1>3 DEF Under

(***************************************************************************)
(* The inductive invariant.                                                *)
(***************************************************************************)
Underway(t) == \E i \in 1 .. 4 : i <= run.reset /\ Sequences[i] = t
Set(t) == run # Idle /\ Underway(t)

Shape ==
    /\ TypeOK /\ Sound(rows)
    /\ \A d \in drawn : /\ d.table \in Serial /\ d.from = "portal"
                        /\ d.table # "sites" => d.slug = "none"
    /\ \A m \in mine : ~Taken(m, rows)
    /\ \A r \in rows : r.from = "sqlite" => r \in Source
    /\ run = Idle => mine = {}
    /\ run # Idle => /\ mine \subseteq run.done
                     /\ run.done \subseteq Wanted(run.visited)
                     /\ run.reset # 0 => run.done = Wanted(run.visited)
                     /\ run.max # 0 => run.done = Wanted(run.visited)

\* Sequences are at or past the ids of their table, those of the transaction
\* too once they have been set.
Behind ==
    \A t \in Serial \ outrun :
       /\ \A r \in rows : r.table = t => r.id <= seq[t]
       /\ \A d \in drawn : d.table = t => d.id <= seq[t] /\ ~Taken(d, rows)
       /\ \A d, e \in drawn : d.table = t /\ Key(d) = Key(e) => d = e
       /\ Set(t) => /\ \A m \in mine : m.table = t => m.id <= seq[t]
                    /\ \A d \in drawn : d.table = t => ~Taken(d, mine)

\* While rows are copied, no row of the portal can get a key that has been
\* dealt with.
Settled ==
    run # Idle /\ run.reset = 0 =>
    \A s \in run.done : s.table \in Serial \ outrun /\ Key(s) \notin run.skipped =>
       /\ \/ s \in mine
          \/ s.id <= seq[s.table] /\ \A d \in drawn : Key(d) # Key(s)
       /\ \A q \in rows : Key(q) = Key(s) => q.from = "sqlite"

\* A maximum that has been read and outrun by nobody still is one.
Read ==
    run # Idle /\ run.max # 0 /\ ~run.raced =>
    \A t \in Serial : Due(t) =>
       /\ \A r \in rows \union mine : r.table = t => r.id <= run.max
       /\ \A d \in drawn : d.table # t

\* A row that has been dealt with is there, or its key is the portal's.
Dealt ==
    run # Idle =>
    \A s \in run.done :
       s \in rows \union mine \/ Key(s) \in run.skipped \union run.touched

MigrateInv == Shape /\ Behind /\ Settled /\ Read /\ Dealt

LEMMA RunOn ==
    ASSUME run = Idle \/ run \in Run
    PROVE  /\ run.on <=> run # Idle
           /\ run # Idle => run \in Run
<1>1. CASE run = Idle
  BY <1>1 DEF Idle
<1>2. CASE run \in Run
  <2>1. run.on = TRUE
    BY <1>2 DEF Run
  <2>2. Idle.on = FALSE
    BY DEF Idle
  <2>3. run # Idle
    BY <2>1, <2>2, Zenon
  <2> QED
    BY <1>2, <2>1, <2>3, Zenon
<1> QED
  BY <1>1, <1>2

LEMMA RowIds == \A r \in Row : r.id \in Nat /\ r.id <= MaxId /\ r.table \in Tables
<1>1. \A r \in Row : r.id \in 1 .. MaxId /\ r.table \in Tables
  BY DEF Row
<1> QED
  BY <1>1, Bounds

LEMMA NotIdle == \A some \in Run : some # Idle
<1> SUFFICES ASSUME NEW some \in Run PROVE some # Idle
  OBVIOUS
<1>1. some.on = TRUE
  BY DEF Run
<1>2. Idle.on = FALSE
  BY DEF Idle
<1> QED
  BY <1>1, <1>2, Zenon

\* What the portal writes is noted in the run there is.
LEMMA TouchedRun ==
    ASSUME run = Idle \/ run \in Run, NEW keys,
           keys \subseteq Tables \X (1 .. MaxId), run' = Touched(keys)
    PROVE  /\ run = Idle => run' = Idle
           /\ run # Idle =>
              /\ run' # Idle /\ run' \in Run
              /\ run'.on = run.on /\ run'.visited = run.visited
              /\ run'.done = run.done /\ run'.reset = run.reset
              /\ run'.max = run.max /\ run'.raced = run.raced
              /\ run'.skipped = run.skipped
              /\ run'.touched = run.touched \union keys
<1>1. CASE run = Idle
  BY <1>1, RunOn DEF Touched
<1>2. CASE run # Idle
  <2>1. run \in Run /\ run' = [run EXCEPT !.touched = run.touched \union keys]
    BY <1>2, RunOn DEF Touched
  <2>2. /\ run' \in Run
        /\ run'.on = run.on /\ run'.visited = run.visited
        /\ run'.done = run.done /\ run'.reset = run.reset
        /\ run'.max = run.max /\ run'.raced = run.raced
        /\ run'.skipped = run.skipped
        /\ run'.touched = run.touched \union keys
    BY <2>1 DEF Run
  <2>3. run' # Idle
    BY <2>2, NotIdle
  <2> QED
    BY <1>2, <2>2, <2>3
<1> QED
  BY <1>1, <1>2

LEMMA MigrateInit == Init => MigrateInv
<1> SUFFICES ASSUME Init PROVE MigrateInv
  OBVIOUS
<1>1. /\ rows \subseteq Row /\ Sound(rows)
      /\ mine = {} /\ drawn = {} /\ run = Idle /\ outrun = {}
      /\ draws = 0 /\ deletes = 0 /\ seq \in [Serial -> 0 .. MaxId]
  BY ExistingAssumption DEF Init, ExistingAssumption
<1>2. Shape
  <2>1. rows \union mine = rows
    BY <1>1
  <2>2. TypeOK
    BY <1>1, <2>1, BoundAssumption DEF TypeOK, BoundAssumption
  <2>3. \A r \in rows : r.from # "sqlite"
    BY ExistingAssumption DEF Init, ExistingAssumption
  <2> QED
    BY <1>1, <2>2, <2>3 DEF Shape
<1>3. Behind
  <2>1. ASSUME NEW t \in Serial, NEW r \in rows, r.table = t
        PROVE  r.id <= seq[t]
    <3>1. r.id \in Ids(rows, t)
      BY <2>1 DEF Ids
    <3>2. seq[t] \in Top(Ids(rows, t), 0)
      BY DEF Init
    <3> QED
      BY <3>1, <3>2 DEF Top
  <2> QED
    BY <1>1, <2>1 DEF Behind, Set
<1> QED
  BY <1>1, <1>2, <1>3 DEF MigrateInv, Settled, Read, Dealt

(***************************************************************************)
(* The steps of the migration.                                             *)
(***************************************************************************)
LEMMA BeginKeeps ==
    ASSUME MigrateInv, NEW visited \in BOOLEAN, Begin(visited)
    PROVE  MigrateInv'
<1>1. run = Idle /\ mine = {}
  BY RunOn DEF MigrateInv, Shape, TypeOK, Begin
<1>2. /\ UNCHANGED <<rows, drawn, draws, deletes, mine, seq, outrun>>
      /\ run'.done = {} /\ run'.reset = 0 /\ run'.max = 0 /\ run' \in Run
  BY SequencesAre, Bounds DEF Begin, portal, Run
<1>3. Shape'
  <2>1. TypeOK'
    BY <1>2 DEF MigrateInv, Shape, TypeOK
  <2> QED
    BY <1>1, <1>2, <2>1 DEF MigrateInv, Shape, Taken
<1>4. Behind'
  BY <1>1, <1>2 DEF MigrateInv, Behind, Taken
<1> QED
  BY <1>2, <1>3, <1>4 DEF MigrateInv, Settled, Read, Dealt

LEMMA SkipKeeps ==
    ASSUME MigrateInv, NEW r \in Source, Skip(r) PROVE MigrateInv'
<1> DEFINE taking == {p \in rows : Key(p) = Key(r) /\ p.from = "portal"}
<1>1. run \in Run /\ run # Idle /\ r \in Wanted(run.visited) /\ run.reset = 0
      /\ run.max = 0 /\ Taken(r, rows)
  BY RunOn DEF MigrateInv, Shape, TypeOK, Skip, NextRow
<1>2. /\ UNCHANGED <<rows, drawn, draws, deletes, mine, seq, outrun>>
      /\ run' = [run EXCEPT !.done = run.done \union {r},
                            !.skipped = run.skipped \union {Key(q) : q \in taking}]
  BY DEF Skip, portal
<1>3. {Key(q) : q \in taking} \subseteq Keys(Source)
  BY DEF Keys
<1>4. (taking # {}) => Key(r) \in {Key(q) : q \in taking}
  OBVIOUS
<1>5. taking = {} => \A q \in rows : Key(q) = Key(r) => q.from = "sqlite"
  BY DEF MigrateInv, Shape, TypeOK, Row
<1> DEFINE more == {Key(q) : q \in taking}
<1> HIDE DEF more, taking
<1>6. /\ run'.done = run.done \union {r} /\ run'.skipped = run.skipped \union more
      /\ run'.visited = run.visited /\ run'.reset = run.reset
      /\ run'.touched = run.touched /\ run'.max = 0 /\ run' \in Run
  BY <1>1, <1>2, <1>3 DEF Run, more
<1>7. run' # Idle
  BY <1>6, NotIdle
<1>8. Shape'
  <2>1. TypeOK'
    BY <1>2, <1>6 DEF MigrateInv, Shape, TypeOK
  <2> QED
    BY <1>1, <1>2, <1>6, <1>7, <2>1 DEF MigrateInv, Shape, Taken
<1>9. Behind'
  BY <1>1, <1>2, <1>6, <1>7 DEF MigrateInv, Behind, Taken, Set, Underway
<1>10. Settled'
  <2>1. ASSUME NEW s \in run'.done, s.table \in Serial \ outrun,
               Key(s) \notin run'.skipped
        PROVE  /\ \/ s \in mine
                  \/ s.id <= seq[s.table] /\ \A d \in drawn : Key(d) # Key(s)
               /\ \A q \in rows : Key(q) = Key(s) => q.from = "sqlite"
    <3>1. CASE s \in run.done
      BY <1>1, <1>6, <2>1, <3>1 DEF MigrateInv, Settled
    <3>2. CASE s = r
      <4>1. \A q \in rows : Key(q) = Key(s) => q.from = "sqlite"
        BY <1>4, <1>5, <1>6, <2>1, <3>2 DEF more
      <4>2. PICK q \in rows : Key(q) = Key(s)
        BY <1>1, <3>2 DEF Taken
      <4>3. q.table = s.table /\ q.id = s.id
        BY <4>2 DEF Key
      <4>4. s.id <= seq[s.table]
        BY <2>1, <4>3 DEF MigrateInv, Behind
      <4>5. \A d \in drawn : Key(d) # Key(s)
        BY <2>1, <4>2 DEF MigrateInv, Behind, Taken, Key
      <4> QED
        BY <4>1, <4>4, <4>5
    <3> QED
      BY <1>6, <2>1, <3>1, <3>2
  <2> QED
    BY <1>2, <2>1 DEF Settled
<1>11. Dealt'
  <2>1. r \in rows \/ Key(r) \in run'.skipped
    <3>1. PICK q \in rows : Key(q) = Key(r)
      BY <1>1 DEF Taken
    <3>2. CASE taking = {}
      <4>1. q \in Source
        BY <1>5, <3>1, <3>2 DEF MigrateInv, Shape
      <4>2. q = r
        BY <3>1, <4>1, SourceAssumption DEF SourceAssumption, Sound
      <4> QED
        BY <4>2
    <3>3. CASE taking # {}
      BY <1>4, <1>6, <3>3 DEF more
    <3> QED
      BY <3>2, <3>3
  <2> QED
    BY <1>1, <1>2, <1>6, <2>1 DEF MigrateInv, Dealt
<1>12. Read'
  BY <1>6 DEF Read
<1> QED
  BY <1>8, <1>9, <1>10, <1>11, <1>12 DEF MigrateInv

LEMMA CopyKeeps ==
    ASSUME MigrateInv, NEW r \in Source, Copy(r) PROVE MigrateInv'
<1>1. /\ run \in Run /\ run # Idle /\ r \in Wanted(run.visited) \ run.done
      /\ run.reset = 0 /\ run.max = 0
      /\ ~Taken(r, rows) /\ ~SlugTaken(r, rows \union mine)
      /\ ~Orphan(r, rows \union mine)
  BY RunOn DEF MigrateInv, Shape, TypeOK, Copy, NextRow
<1>2. /\ UNCHANGED <<rows, drawn, draws, deletes, seq, outrun>>
      /\ mine' = mine \union {r}
      /\ run' = [run EXCEPT !.done = run.done \union {r}]
  BY DEF Copy, portal
<1>3. /\ run'.done = run.done \union {r} /\ run'.skipped = run.skipped
      /\ run'.visited = run.visited /\ run'.reset = run.reset
      /\ run'.touched = run.touched /\ run'.max = 0 /\ run' \in Run
  BY <1>1, <1>2 DEF Run
<1>4. run' # Idle
  BY <1>3, NotIdle
<1>5. Sound((rows \union mine) \union {r})
  <2>1. ~Taken(r, mine)
    <3>1. \A m \in mine : m \in Source /\ m # r
      BY <1>1 DEF MigrateInv, Shape, TypeOK
    <3> QED
      BY <3>1, SourceAssumption DEF Taken, SourceAssumption, Sound
  <2>2. ~Taken(r, rows \union mine)
    BY <1>1, <2>1 DEF Taken
  <2>3. r.table # "sites" => r.slug = "none"
    BY SourceAssumption DEF SourceAssumption, Sound
  <2> QED
    BY <1>1, <2>2, <2>3, SoundAdd DEF MigrateInv, Shape, TypeOK
<1>6. rows' \union mine' = (rows \union mine) \union {r}
  BY <1>2
<1>7. Shape'
  <2>1. TypeOK'
    BY <1>2, <1>3, <1>5, <1>6 DEF MigrateInv, Shape, TypeOK
  <2> QED
    BY <1>1, <1>2, <1>3, <1>4, <2>1 DEF MigrateInv, Shape, Taken
<1>8. Behind'
  <2>1. \A t : ~Underway(t)'
    BY <1>1, <1>3 DEF Underway
  <2> QED
    BY <1>1, <1>2, <2>1 DEF MigrateInv, Behind, Taken, Set
<1>9. Settled'
  <2>1. ASSUME NEW s \in run'.done, s.table \in Serial \ outrun,
               Key(s) \notin run'.skipped
        PROVE  /\ \/ s \in mine'
                  \/ s.id <= seq[s.table] /\ \A d \in drawn : Key(d) # Key(s)
               /\ \A q \in rows : Key(q) = Key(s) => q.from = "sqlite"
    <3>1. CASE s \in run.done
      BY <1>1, <1>2, <1>3, <2>1, <3>1 DEF MigrateInv, Settled
    <3>2. CASE s = r
      BY <1>1, <1>2, <3>2 DEF Taken
    <3> QED
      BY <1>3, <2>1, <3>1, <3>2
  <2> QED
    BY <1>2, <2>1 DEF Settled
<1>10. Dealt'
  BY <1>1, <1>2, <1>3 DEF MigrateInv, Dealt
<1>11. Read'
  BY <1>3 DEF Read
<1> QED
  BY <1>7, <1>8, <1>9, <1>10, <1>11 DEF MigrateInv

LEMMA ReadKeeps ==
    ASSUME MigrateInv, NEW t \in Serial, ReadMax(t) PROVE MigrateInv'
<1> DEFINE ids == Ids(rows \union mine, t)
           had == \E d \in drawn : d.table = t
<1>1. /\ run \in Run /\ run # Idle /\ run.done = Wanted(run.visited)
      /\ t = Sequences[run.reset + 1] /\ UNCHANGED <<portal, mine, seq, outrun>>
  BY RunOn DEF MigrateInv, Shape, TypeOK, ReadMax, MaxOf, Due
<1>2. PICK top \in Top(ids, 1) : run' = [run EXCEPT !.max = top, !.raced = had]
  BY DEF ReadMax, MaxOf
<1>3. top \in 0 .. MaxId /\ \A r \in rows \union mine : r.table = t => r.id <= top
  <2>1. \A r \in rows \union mine : r \in Row
    BY SourceAssumption DEF MigrateInv, Shape, TypeOK, SourceAssumption
  <2>2. /\ top \in Top(ids, 1) /\ ids \subseteq 1 .. MaxId
        /\ \A r \in rows \union mine : r.table = t => r.id \in ids
    BY <2>1 DEF Ids, Row
  <2> HIDE DEF ids
  <2>3. CASE ids = {}
    <3>1. top = 1
      BY <2>2, <2>3 DEF Top
    <3> QED
      BY <2>2, <2>3, <3>1, Bounds
  <2>4. CASE ids # {}
    <3>1. top \in ids /\ \A i \in ids : i <= top
      BY <2>2, <2>4 DEF Top
    <3>2. top \in 0 .. MaxId
      BY <2>2, <3>1, Bounds
    <3> QED
      BY <2>2, <3>1, <3>2
  <2> QED
    BY <2>3, <2>4
<1>4. had \in BOOLEAN /\ (~had => \A d \in drawn : d.table # t)
  OBVIOUS
<1> HIDE DEF ids, had
<1>5. /\ run'.on = run.on /\ run'.visited = run.visited /\ run'.done = run.done
      /\ run'.reset = run.reset /\ run'.skipped = run.skipped
      /\ run'.touched = run.touched /\ run'.max = top /\ run'.raced = had
      /\ run' \in Run
  BY <1>1, <1>2, <1>3, <1>4 DEF Run
<1>6. run' # Idle
  BY <1>5, NotIdle
<1>7. UNCHANGED <<rows, drawn, draws, deletes, mine, seq, outrun>>
  BY <1>1 DEF portal
<1>8. Shape'
  <2>1. TypeOK'
    BY <1>5, <1>7 DEF MigrateInv, Shape, TypeOK
  <2> QED
    BY <1>1, <1>5, <1>6, <1>7, <2>1 DEF MigrateInv, Shape, Taken
<1>9. Behind'
  BY <1>1, <1>5, <1>7 DEF MigrateInv, Behind, Taken, Set, Underway
<1>10. Settled'
  BY <1>1, <1>5, <1>7 DEF MigrateInv, Settled
<1>11. Read'
  <2>1. ASSUME NEW u \in Serial, Due(u)' PROVE u = t
    BY <1>1, <1>5, <2>1 DEF Due
  <2> QED
    BY <1>3, <1>4, <1>5, <1>7, <2>1 DEF Read
<1>12. Dealt'
  BY <1>1, <1>5, <1>7 DEF MigrateInv, Dealt
<1> QED
  BY <1>8, <1>9, <1>10, <1>11, <1>12 DEF MigrateInv

LEMMA SetKeeps ==
    ASSUME MigrateInv, NEW t \in Serial, SetSequence(t) PROVE MigrateInv'
<1>1. /\ run \in Run /\ run # Idle /\ run.max # 0
      /\ run.done = Wanted(run.visited)
      /\ run.reset \in 0 .. 3 /\ t = Sequences[run.reset + 1]
  <2>1. run \in Run /\ run # Idle
    BY RunOn DEF MigrateInv, Shape, TypeOK, SetSequence, Due
  <2>2. run.reset \in 0 .. 4
    BY <2>1, SequencesAre DEF Run
  <2>3. run.max # 0 /\ run.reset < 4 /\ t = Sequences[run.reset + 1]
    BY SequencesAre DEF SetSequence, Due
  <2>4. run.done = Wanted(run.visited)
    BY <2>1, <2>3 DEF MigrateInv, Shape
  <2> QED
    BY <2>1, <2>2, <2>3, <2>4
<1>2. /\ UNCHANGED <<rows, drawn, draws, deletes, mine>>
      /\ seq' = [seq EXCEPT ![t] = run.max]
      /\ run' = [run EXCEPT !.reset = run.reset + 1, !.max = 0, !.raced = FALSE]
      /\ outrun' = IF run.raced THEN outrun \union {t} ELSE outrun \ {t}
  BY DEF SetSequence, portal
<1>3. /\ run'.done = run.done /\ run'.skipped = run.skipped
      /\ run'.visited = run.visited /\ run'.reset = run.reset + 1
      /\ run'.touched = run.touched /\ run'.max = 0 /\ run' \in Run
  <2>1. run.reset + 1 \in 0 .. Len(Sequences)
    BY <1>1, SequencesAre
  <2>2. 0 \in 0 .. MaxId
    BY Bounds
  <2> QED
    BY <1>1, <1>2, <2>1, <2>2 DEF Run
<1>4. run' # Idle
  BY <1>3, NotIdle
<1>5. run.max \in 0 .. MaxId
  BY <1>1 DEF Run
<1>6. ~run.raced => /\ \A r \in rows \union mine : r.table = t => r.id <= run.max
                    /\ \A d \in drawn : d.table # t
  BY <1>1 DEF MigrateInv, Read, SetSequence
<1>7. /\ seq' \in [Serial -> 0 .. MaxId] /\ seq'[t] = run.max
      /\ \A u \in Serial \ {t} : seq'[u] = seq[u]
  BY <1>2, <1>5 DEF MigrateInv, Shape, TypeOK
<1>8. outrun' \subseteq Serial /\ (t \notin outrun' => ~run.raced)
      /\ \A u \in Serial \ {t} : u \in outrun' <=> u \in outrun
  BY <1>2 DEF MigrateInv, Shape, TypeOK
<1>9. Shape'
  <2>1. TypeOK'
    BY <1>2, <1>3, <1>7, <1>8 DEF MigrateInv, Shape, TypeOK
  <2> QED
    BY <1>1, <1>2, <1>3, <1>4, <2>1 DEF MigrateInv, Shape, Taken
<1>10. \A u \in Serial \ {t} : Set(u)' => Set(u)
  <2>1. ASSUME NEW u \in Serial \ {t}, Underway(u)' PROVE Underway(u)
    <3>1. PICK i \in 1 .. 4 : i <= run.reset + 1 /\ Sequences[i] = u
      BY <1>3, <2>1 DEF Underway
    <3>2. i <= run.reset
      BY <1>1, <3>1
    <3> QED
      BY <3>1, <3>2 DEF Underway
  <2> QED
    BY <1>1, <2>1 DEF Set
<1>11. Behind'
  <2>1. ASSUME NEW u \in Serial, u \notin outrun'
        PROVE  /\ \A r \in rows : r.table = u => r.id <= seq'[u]
               /\ \A d \in drawn : d.table = u => d.id <= seq'[u] /\ ~Taken(d, rows)
               /\ \A d, e \in drawn : d.table = u /\ Key(d) = Key(e) => d = e
               /\ Set(u)' => /\ \A m \in mine : m.table = u => m.id <= seq'[u]
                             /\ \A d \in drawn : d.table = u => ~Taken(d, mine)
    <3>1. CASE u = t
      BY <1>6, <1>7, <1>8, <2>1, <3>1
    <3>2. CASE u # t
      BY <1>7, <1>8, <1>10, <2>1, <3>2 DEF MigrateInv, Behind
    <3> QED
      BY <3>1, <3>2
  <2> QED
    BY <1>2, <2>1 DEF Behind, Taken
<1>12. Settled'
  BY <1>1, <1>3 DEF Settled
<1>13. Dealt'
  BY <1>1, <1>2, <1>3 DEF MigrateInv, Dealt
<1>14. Read'
  BY <1>3 DEF Read
<1> QED
  BY <1>9, <1>11, <1>12, <1>13, <1>14 DEF MigrateInv

LEMMA CommitKeeps == ASSUME MigrateInv, Commit PROVE MigrateInv'
<1>1. run \in Run /\ run # Idle /\ run.reset = 4
  BY RunOn, SequencesAre DEF MigrateInv, Shape, TypeOK, Commit
<1>2. /\ rows' = rows \union mine /\ mine' = {} /\ run' = Idle
      /\ UNCHANGED <<seq, drawn, outrun, draws, deletes>>
  BY DEF Commit
<1>3. rows' \union mine' = rows \union mine
  BY <1>2
<1>4. \A t \in Serial : Set(t)
  BY <1>1, SerialAre, SequencesAre DEF Set, Underway
<1>5. Shape'
  <2>1. TypeOK'
    BY <1>2, <1>3, SourceAssumption DEF MigrateInv, Shape, TypeOK, SourceAssumption
  <2> QED
    BY <1>2, <2>1, SourceAssumption
    DEF MigrateInv, Shape, TypeOK, SourceAssumption
<1>6. Behind'
  <2>1. ASSUME NEW t \in Serial \ outrun
        PROVE  /\ \A r \in rows' : r.table = t => r.id <= seq[t]
               /\ \A d \in drawn : d.table = t => d.id <= seq[t] /\ ~Taken(d, rows')
               /\ \A d, e \in drawn : d.table = t /\ Key(d) = Key(e) => d = e
    BY <1>2, <1>4 DEF MigrateInv, Behind, Taken
  <2> QED
    BY <1>2, <2>1 DEF Behind, Set, Taken
<1> QED
  BY <1>2, <1>5, <1>6 DEF MigrateInv, Settled, Read, Dealt

LEMMA RollBackKeeps == ASSUME MigrateInv, RollBack PROVE MigrateInv'
<1>1. /\ mine' = {} /\ run' = Idle
      /\ UNCHANGED <<rows, seq, drawn, outrun, draws, deletes>>
  BY DEF RollBack, portal
<1>2. rows' \union mine' = rows
  BY <1>1
<1>3. Shape'
  <2>1. TypeOK'
    BY <1>1, <1>2 DEF MigrateInv, Shape, TypeOK
  <2> QED
    BY <1>1, <2>1 DEF MigrateInv, Shape
<1>4. Behind'
  BY <1>1 DEF MigrateInv, Behind, Set, Taken
<1> QED
  BY <1>1, <1>3, <1>4 DEF MigrateInv, Settled, Read, Dealt

(***************************************************************************)
(* The steps of the portal.                                                *)
(***************************************************************************)
LEMMA DrawKeeps ==
    ASSUME MigrateInv, NEW t \in Serial, NEW parent \in 0 .. MaxId,
           NEW slug \in Slugs \union {"none"}, Draw(t, parent, slug)
    PROVE  MigrateInv'
<1>0. PICK row : row = [table |-> t, id |-> seq[t] + 1, parent |-> parent,
                        slug |-> slug, from |-> "portal"]
  OBVIOUS
<1>1. /\ UNCHANGED <<rows, mine, outrun, deletes>>
      /\ run' = IF Due(t) /\ run.max # 0 THEN [run EXCEPT !.raced = TRUE] ELSE run
      /\ drawn' = drawn \union {row} /\ seq' = [seq EXCEPT ![t] = seq[t] + 1]
      /\ draws' = draws + 1
      /\ t = "sites" <=> slug # "none"
  BY <1>0 DEF Draw
<1>2. /\ row.table = t /\ row.id = seq[t] + 1 /\ row.from = "portal"
      /\ row.slug = slug /\ Key(row) = <<t, seq[t] + 1>>
  BY <1>0 DEF Key
<1>3. seq[t] \in Nat /\ seq[t] + 1 \in 1 .. MaxId /\ draws + 1 \in 0 .. MaxDraws
  <2>1. draws < MaxDraws /\ seq[t] < MaxId
    BY DEF Draw
  <2>2. seq[t] \in 0 .. MaxId /\ draws \in 0 .. MaxDraws
    BY DEF MigrateInv, Shape, TypeOK
  <2>3. seq[t] \in Nat /\ seq[t] + 1 \in 1 .. MaxId
    BY <2>1, <2>2, Bounds
  <2>4. draws + 1 \in 0 .. MaxDraws
    BY <2>1, <2>2, Bounds
  <2> QED
    BY <2>3, <2>4
<1>4. row \in Row
  <2>1. seq[t] + 1 \in 1 .. MaxId
    BY <1>3
  <2>2. t \in Tables
    BY TablesAre
  <2> QED
    BY <1>0, <2>1, <2>2 DEF Row
<1>5. /\ seq' \in [Serial -> 0 .. MaxId] /\ seq'[t] = seq[t] + 1
      /\ \A u \in Serial \ {t} : seq'[u] = seq[u]
  <2>1. seq[t] + 1 \in 0 .. MaxId
    BY <1>3, Bounds
  <2> QED
    BY <1>1, <2>1 DEF MigrateInv, Shape, TypeOK
<1>6. \A u \in Serial : seq[u] \in Nat /\ seq'[u] \in Nat /\ seq[u] <= seq'[u]
  <2>1. \A u \in Serial : seq[u] \in Nat
    BY DEF MigrateInv, Shape, TypeOK
  <2> QED
    BY <1>5, <2>1
<1>13. /\ run = Idle => run' = Idle
       /\ run # Idle =>
          /\ run' # Idle /\ run' \in Run
          /\ run'.on = run.on /\ run'.visited = run.visited
          /\ run'.done = run.done /\ run'.reset = run.reset
          /\ run'.max = run.max /\ run'.skipped = run.skipped
          /\ run'.touched = run.touched
          /\ ~run'.raced /\ run.max # 0 => ~run.raced /\ ~Due(t)
  <2>1. CASE run = Idle
    BY <1>1, <2>1, RunOn DEF Due
  <2>2. CASE run # Idle
    <3>1. run \in Run
      BY <2>2 DEF MigrateInv, Shape, TypeOK
    <3>2. run' \in Run
      BY <1>1, <3>1 DEF Run
    <3>3. run' # Idle
      BY <3>2, NotIdle
    <3>4. /\ run'.on = run.on /\ run'.visited = run.visited
          /\ run'.done = run.done /\ run'.reset = run.reset
          /\ run'.max = run.max /\ run'.skipped = run.skipped
          /\ run'.touched = run.touched
          /\ ~run'.raced /\ run.max # 0 => ~run.raced /\ ~Due(t)
      BY <1>1, <3>1 DEF Run
    <3> QED
      BY <2>2, <3>2, <3>3, <3>4
  <2> QED
    BY <2>1, <2>2
<1>7. Shape'
  <2>1. draws' \in 0 .. MaxDraws
    BY <1>1, <1>3
  <2>2. TypeOK'
    BY <1>1, <1>4, <1>5, <1>13, <2>1 DEF MigrateInv, Shape, TypeOK
  <2>3. \A d \in drawn' : /\ d.table \in Serial /\ d.from = "portal"
                          /\ d.table # "sites" => d.slug = "none"
    BY <1>1, <1>2 DEF MigrateInv, Shape
  <2> QED
    BY <1>1, <1>13, <2>2, <2>3 DEF MigrateInv, Shape, Taken
<1>8. \A r \in rows \union mine \union drawn : r.id \in Nat
  BY SourceAssumption, RowIds DEF MigrateInv, Shape, TypeOK, SourceAssumption
<1>9. ASSUME t \notin outrun
      PROVE  /\ ~Taken(row, rows) /\ \A d \in drawn : Key(d) # Key(row)
             /\ Set(t) => ~Taken(row, mine)
  <2>1. \A r : Key(r) = Key(row) => r.table = t /\ r.id = seq[t] + 1
    BY <1>2 DEF Key
  <2>2. \A r \in rows : r.table = t => r.id <= seq[t]
    BY <1>9 DEF MigrateInv, Behind
  <2>3. \A d \in drawn : d.table = t => d.id <= seq[t]
    BY <1>9 DEF MigrateInv, Behind
  <2>4. Set(t) => \A m \in mine : m.table = t => m.id <= seq[t]
    BY <1>9 DEF MigrateInv, Behind
  <2> QED
    BY <1>3, <2>1, <2>2, <2>3, <2>4 DEF Taken
<1>10. Behind'
  <2>1. ASSUME NEW u \in Serial, u \notin outrun
        PROVE  /\ \A r \in rows : r.table = u => r.id <= seq'[u]
               /\ \A d \in drawn' : d.table = u => d.id <= seq'[u] /\ ~Taken(d, rows)
               /\ \A d, e \in drawn' : d.table = u /\ Key(d) = Key(e) => d = e
               /\ Set(u) => /\ \A m \in mine : m.table = u => m.id <= seq'[u]
                            /\ \A d \in drawn' : d.table = u => ~Taken(d, mine)
    <3>1. \A r \in rows : r.table = u => r.id <= seq'[u]
      <4>1. \A r \in rows : r.table = u => r.id <= seq[u]
        BY <2>1 DEF MigrateInv, Behind
      <4> QED
        BY <1>6, <1>8, <4>1
    <3>2. \A d \in drawn' : d.table = u => d.id <= seq'[u] /\ ~Taken(d, rows)
      <4>1. \A d \in drawn : d.table = u => d.id <= seq'[u] /\ ~Taken(d, rows)
        <5>1. \A d \in drawn : d.table = u => d.id <= seq[u] /\ ~Taken(d, rows)
          BY <2>1 DEF MigrateInv, Behind
        <5> QED
          BY <1>6, <1>8, <5>1
      <4>2. row.table = u => row.id <= seq'[u] /\ ~Taken(row, rows)
        BY <1>2, <1>3, <1>5, <1>9, <2>1
      <4> QED
        BY <1>1, <4>1, <4>2
    <3>3. \A d, e \in drawn' : d.table = u /\ Key(d) = Key(e) => d = e
      <4>1. \A d, e \in drawn : d.table = u /\ Key(d) = Key(e) => d = e
        BY <2>1 DEF MigrateInv, Behind
      <4>2. \A d \in drawn : d.table = u => Key(d) # Key(row)
        BY <1>2, <1>9, <2>1 DEF Key
      <4>3. \A d : Key(d) = Key(row) => d.table = row.table
        BY DEF Key
      <4> QED
        BY <1>1, <4>1, <4>2, <4>3
    <3>4. Set(u) => \A m \in mine : m.table = u => m.id <= seq'[u]
      <4>1. Set(u) => \A m \in mine : m.table = u => m.id <= seq[u]
        BY <2>1 DEF MigrateInv, Behind
      <4> QED
        BY <1>6, <1>8, <4>1
    <3>5. Set(u) => \A d \in drawn' : d.table = u => ~Taken(d, mine)
      <4>1. Set(u) => \A d \in drawn : d.table = u => ~Taken(d, mine)
        BY <2>1 DEF MigrateInv, Behind
      <4> QED
        BY <1>1, <1>2, <1>9, <2>1, <4>1
    <3> QED
      BY <3>1, <3>2, <3>3, <3>4, <3>5
  <2>2. \A u : Set(u)' => Set(u)
    BY <1>13 DEF Set, Underway
  <2> QED
    BY <1>1, <2>1, <2>2 DEF Behind, Taken
<1>11. Settled'
  <2>1. ASSUME run # Idle /\ run.reset = 0, NEW s \in run.done,
               s.table \in Serial \ outrun, Key(s) \notin run.skipped, s \notin mine
        PROVE  s.id <= seq'[s.table] /\ \A d \in drawn' : Key(d) # Key(s)
    <3>1. s.id <= seq[s.table] /\ \A d \in drawn : Key(d) # Key(s)
      BY <2>1 DEF MigrateInv, Settled
    <3>2. s.id \in Nat
      <4>1. s \in Row
        BY <2>1, SourceAssumption DEF MigrateInv, Shape, Wanted, SourceAssumption
      <4> QED
        BY <4>1, RowIds
    <3>3. Key(row) # Key(s)
      BY <1>2, <1>3, <2>1, <3>1, <3>2 DEF Key
    <3> QED
      BY <1>1, <1>6, <2>1, <3>1, <3>2, <3>3
  <2> QED
    BY <1>1, <1>13, <2>1 DEF MigrateInv, Settled
<1>12. Dealt'
  BY <1>1, <1>13 DEF MigrateInv, Dealt
<1>14. Read'
  <2>1. \A u \in Serial : Due(u)' => run = Idle \/ Due(u)
    BY <1>13 DEF Due
  <2> QED
    BY <1>1, <1>2, <1>13, <2>1 DEF MigrateInv, Read
<1> QED
  BY <1>7, <1>10, <1>11, <1>12, <1>14 DEF MigrateInv

LEMMA InsertKeeps ==
    ASSUME MigrateInv, NEW d \in drawn, Insert(d) PROVE MigrateInv'
<1>1. /\ UNCHANGED <<mine, seq, run, outrun, draws, deletes>>
      /\ rows' = rows \union {d} /\ drawn' = drawn \ {d}
      /\ ~Taken(d, mine) /\ ~SlugTaken(d, mine)
      /\ ~Taken(d, rows) /\ ~SlugTaken(d, rows) /\ ~Orphan(d, rows)
  BY DEF Insert
<1>2. d \in Row /\ d.table \in Serial /\ (d.table # "sites" => d.slug = "none")
  BY DEF MigrateInv, Shape, TypeOK
<1>3. Sound(rows \union {d})
  BY <1>1, <1>2, SoundAdd DEF MigrateInv, Shape
<1>4. Sound((rows \union mine) \union {d})
  <2>1. /\ ~Taken(d, rows \union mine) /\ ~SlugTaken(d, rows \union mine)
        /\ ~Orphan(d, rows \union mine)
    BY <1>1 DEF Taken, SlugTaken, Orphan
  <2> QED
    BY <1>2, <2>1, SoundAdd DEF MigrateInv, Shape, TypeOK
<1>5. rows' \union mine' = (rows \union mine) \union {d}
  BY <1>1
<1>6. Shape'
  <2>1. TypeOK'
    BY <1>1, <1>2, <1>4, <1>5 DEF MigrateInv, Shape, TypeOK
  <2>2. \A m \in mine : ~Taken(m, rows \union {d})
    BY <1>1 DEF MigrateInv, Shape, Taken
  <2>3. d.from = "portal"
    BY DEF MigrateInv, Shape
  <2> QED
    BY <1>1, <1>3, <2>1, <2>2, <2>3 DEF MigrateInv, Shape
<1>7. Behind'
  <2>1. ASSUME NEW u \in Serial, u \notin outrun
        PROVE  /\ \A r \in rows' : r.table = u => r.id <= seq[u]
               /\ \A e \in drawn' : e.table = u => e.id <= seq[u] /\ ~Taken(e, rows')
               /\ \A e, f \in drawn' : e.table = u /\ Key(e) = Key(f) => e = f
               /\ Set(u) => /\ \A m \in mine : m.table = u => m.id <= seq[u]
                            /\ \A e \in drawn' : e.table = u => ~Taken(e, mine)
    <3>1. \A r \in rows' : r.table = u => r.id <= seq[u]
      BY <1>1, <2>1 DEF MigrateInv, Behind
    <3>2. \A e \in drawn' : e.table = u => e.id <= seq[u] /\ ~Taken(e, rows')
      BY <1>1, <2>1 DEF MigrateInv, Behind, Taken
    <3> QED
      BY <1>1, <2>1, <3>1, <3>2 DEF MigrateInv, Behind
  <2> QED
    BY <1>1, <2>1 DEF Behind, Taken, Set, Underway
<1>8. Settled'
  <2>1. ASSUME run # Idle /\ run.reset = 0, NEW s \in run.done,
               s.table \in Serial \ outrun, Key(s) \notin run.skipped
        PROVE  /\ \/ s \in mine
                  \/ s.id <= seq[s.table] /\ \A e \in drawn' : Key(e) # Key(s)
               /\ \A q \in rows' : Key(q) = Key(s) => q.from = "sqlite"
    <3>1. /\ \/ s \in mine
             \/ s.id <= seq[s.table] /\ \A e \in drawn : Key(e) # Key(s)
          /\ \A q \in rows : Key(q) = Key(s) => q.from = "sqlite"
      BY <2>1 DEF MigrateInv, Settled
    <3>2. Key(d) # Key(s)
      BY <1>1, <3>1 DEF Taken
    <3> QED
      BY <1>1, <3>1, <3>2
  <2> QED
    BY <1>1, <2>1 DEF Settled
<1>9. Dealt'
  BY <1>1 DEF MigrateInv, Dealt
<1>10. Read'
  BY <1>1 DEF MigrateInv, Read, Due
<1> QED
  BY <1>6, <1>7, <1>8, <1>9, <1>10 DEF MigrateInv

LEMMA InsertFailsKeeps ==
    ASSUME MigrateInv, NEW d \in drawn, InsertFails(d) PROVE MigrateInv'
<1>1. /\ UNCHANGED <<rows, mine, seq, run, outrun, draws, deletes>>
      /\ drawn' = drawn \ {d}
  BY DEF InsertFails
<1>2. Shape'
  BY <1>1 DEF MigrateInv, Shape, TypeOK, Taken
<1>3. Behind'
  BY <1>1 DEF MigrateInv, Behind, Taken, Set, Underway
<1>4. Settled'
  BY <1>1 DEF MigrateInv, Settled
<1>5. Read'
  BY <1>1 DEF MigrateInv, Read, Due
<1> QED
  BY <1>1, <1>2, <1>3, <1>4, <1>5 DEF MigrateInv, Dealt

LEMMA SettingKeeps ==
    ASSUME MigrateInv, NEW r \in Source, SetSetting(r) PROVE MigrateInv'
<1>0. PICK new : new = [r EXCEPT !.from = "portal"]
  OBVIOUS
<1> DEFINE kept == {q \in rows : Key(q) # Key(r)}
<1>1. /\ UNCHANGED <<mine, seq, drawn, outrun, draws, deletes>>
      /\ run' = Touched({Key(r)})
      /\ rows' = kept \union {new}
      /\ r.table = "settings" /\ ~Taken(r, mine)
  BY <1>0 DEF SetSetting
<1>2. r \in Row /\ r.slug = "none"
  BY <1>1, SourceAssumption DEF SourceAssumption, Sound
<1>3. /\ new \in Row /\ new.table = "settings" /\ new.slug = "none"
      /\ Key(new) = Key(r)
  BY <1>0, <1>1, <1>2 DEF Row, Key
<1>4. Sound(kept \union {new})
  BY <1>1, <1>3, SoundSetting DEF MigrateInv, Shape
<1>5. Sound({q \in rows \union mine : Key(q) # Key(r)} \union {new})
  BY <1>1, <1>3, SoundSetting DEF MigrateInv, Shape, TypeOK
<1>6. rows' \union mine' = {q \in rows \union mine : Key(q) # Key(r)} \union {new}
  BY <1>1 DEF Taken
<1>7. kept \subseteq rows /\ \A q \in rows : Key(q) # Key(r) => q \in kept
  OBVIOUS
<1>15. /\ run = Idle => run' = Idle
       /\ run # Idle =>
          /\ run' # Idle /\ run' \in Run
          /\ run'.on = run.on /\ run'.visited = run.visited
          /\ run'.done = run.done /\ run'.reset = run.reset
          /\ run'.max = run.max /\ run'.raced = run.raced
          /\ run'.skipped = run.skipped
          /\ run'.touched = run.touched \union {Key(r)}
  <2>1. {Key(r)} \subseteq Tables \X (1 .. MaxId)
    BY <1>2 DEF Key, Row
  <2> QED
    BY <1>1, <2>1, TouchedRun DEF MigrateInv, Shape, TypeOK
<1>8. "settings" \notin Serial
  BY SerialAre
<1> HIDE DEF kept
<1>9. Shape'
  <2>1. TypeOK'
    BY <1>1, <1>3, <1>5, <1>6, <1>7, <1>15 DEF MigrateInv, Shape, TypeOK
  <2>2. \A m \in mine : ~Taken(m, rows')
    BY <1>1, <1>3, <1>7 DEF MigrateInv, Shape, Taken
  <2>3. new.from = "portal"
    BY <1>0, <1>2 DEF Row
  <2>4. \A q \in rows' : q.from = "sqlite" => q \in Source
    BY <1>1, <1>7, <2>3 DEF MigrateInv, Shape
  <2> QED
    BY <1>1, <1>4, <1>15, <2>1, <2>2, <2>4 DEF MigrateInv, Shape
<1>10. \A q \in rows' : q.table \in Serial => q \in rows
  BY <1>1, <1>3, <1>7, <1>8
<1>11. \A p, q : Key(p) = Key(q) => p.table = q.table
  BY DEF Key
<1>12. Behind'
  <2>1. \A d \in drawn : d.table \in Serial /\ ~Taken(d, rows) => ~Taken(d, rows')
    BY <1>10, <1>11 DEF Taken
  <2>2. ASSUME NEW u \in Serial, u \notin outrun
        PROVE  /\ \A p \in rows' : p.table = u => p.id <= seq[u]
               /\ \A d \in drawn : d.table = u => d.id <= seq[u] /\ ~Taken(d, rows')
    BY <1>10, <2>1, <2>2 DEF MigrateInv, Behind
  <2>3. \A u : Set(u)' => Set(u)
    BY <1>15 DEF Set, Underway
  <2> QED
    BY <1>1, <2>2, <2>3 DEF MigrateInv, Behind, Taken
<1>13. Settled'
  BY <1>1, <1>10, <1>11, <1>15 DEF MigrateInv, Settled
<1>14. Dealt'
  BY <1>1, <1>7, <1>15 DEF MigrateInv, Dealt
<1>16. Read'
  <2>1. \A u \in Serial : Due(u)' => run = Idle \/ Due(u)
    BY <1>15 DEF Due
  <2> QED
    BY <1>1, <1>10, <1>15, <2>1 DEF MigrateInv, Read
<1> QED
  BY <1>9, <1>12, <1>13, <1>14, <1>16 DEF MigrateInv

LEMMA DeleteKeeps ==
    ASSUME MigrateInv, NEW s \in rows, DeleteSite(s) PROVE MigrateInv'
<1> DEFINE gone == Under(s)
<1>1. /\ UNCHANGED <<mine, seq, drawn, draws, outrun>>
      /\ rows' = rows \ gone /\ deletes' = deletes + 1 /\ deletes < MaxDeletes
      /\ s.table = "sites" /\ \A m \in mine, q \in gone : ~Hangs(m, q)
      /\ run' = Touched(Keys(gone))
  BY DEF DeleteSite
<1>2. gone \subseteq rows
  BY DEF Under
<1>3. \A r \in rows \ gone, q \in gone : ~Hangs(r, q)
  BY <1>1, UnderClosed
<1> HIDE DEF gone
<1>4. Sound(rows \ gone)
  BY <1>3, SoundCut DEF MigrateInv, Shape
<1>5. Sound((rows \union mine) \ gone)
  BY <1>1, <1>3, SoundCut DEF MigrateInv, Shape, TypeOK
<1>6. rows' \union mine' = (rows \union mine) \ gone
  BY <1>1, <1>2 DEF MigrateInv, Shape, Taken
<1>7. deletes' \in 0 .. MaxDeletes
  <2>1. deletes \in 0 .. MaxDeletes
    BY DEF MigrateInv, Shape, TypeOK
  <2> QED
    BY <1>1, <2>1, Bounds
<1>8. Keys(gone) \subseteq Tables \X (1 .. MaxId)
  <2>1. \A r \in gone : r.table \in Tables /\ r.id \in 1 .. MaxId
    BY <1>2 DEF MigrateInv, Shape, TypeOK, Row
  <2> QED
    BY <2>1 DEF Keys, Key
<1>9. /\ run = Idle => run' = Idle
      /\ run # Idle =>
         /\ run' # Idle /\ run' \in Run
         /\ run'.on = run.on /\ run'.visited = run.visited
         /\ run'.done = run.done /\ run'.reset = run.reset
         /\ run'.max = run.max /\ run'.raced = run.raced
         /\ run'.skipped = run.skipped
         /\ run'.touched = run.touched \union Keys(gone)
  BY <1>1, <1>8, TouchedRun DEF MigrateInv, Shape, TypeOK
<1>10. Shape'
  <2>1. TypeOK'
    BY <1>1, <1>5, <1>6, <1>7, <1>9 DEF MigrateInv, Shape, TypeOK
  <2>2. \A m \in mine : ~Taken(m, rows')
    BY <1>1 DEF MigrateInv, Shape, Taken
  <2> QED
    BY <1>1, <1>4, <1>9, <2>1, <2>2 DEF MigrateInv, Shape
<1>11. Behind'
  <2>1. \A u : Set(u)' => Set(u)
    BY <1>9 DEF Set, Underway
  <2> QED
    BY <1>1, <2>1 DEF MigrateInv, Behind, Taken
<1>12. Settled'
  BY <1>1, <1>9 DEF MigrateInv, Settled
<1>13. Read'
  <2>1. \A u \in Serial : Due(u)' => run = Idle \/ Due(u)
    BY <1>9 DEF Due
  <2> QED
    BY <1>1, <1>9, <2>1 DEF MigrateInv, Read
<1>14. Dealt'
  <2>1. \A q \in gone : Key(q) \in Keys(gone)
    BY DEF Keys
  <2> QED
    BY <1>1, <1>9, <2>1 DEF MigrateInv, Dealt
<1> QED
  BY <1>10, <1>11, <1>12, <1>13, <1>14 DEF MigrateInv

LEMMA MigrateNext == MigrateInv /\ [Next]_vars => MigrateInv'
<1>1. ASSUME MigrateInv, Next PROVE MigrateInv'
  BY <1>1, BeginKeeps, SkipKeeps, CopyKeeps, ReadKeeps, SetKeeps, CommitKeeps,
     RollBackKeeps, DrawKeeps, InsertKeeps, InsertFailsKeeps, SettingKeeps,
     DeleteKeeps DEF Next
<1>2. ASSUME MigrateInv, UNCHANGED vars PROVE MigrateInv'
  <2>1. UNCHANGED <<rows, drawn, draws, deletes, mine, seq, run, outrun>>
    BY <1>2 DEF vars, portal
  <2>2. Shape'
    BY <1>2, <2>1 DEF MigrateInv, Shape, TypeOK, Taken
  <2>3. Behind'
    BY <1>2, <2>1 DEF MigrateInv, Behind, Taken, Set, Underway
  <2> QED
    BY <1>2, <2>1, <2>2, <2>3 DEF MigrateInv, Settled, Read, Due, Dealt
<1> QED
  BY <1>1, <1>2

(***************************************************************************)
(* The theorems.                                                           *)
(***************************************************************************)
\* Rows stay unique by key and slug and keep their parents, also those that
\* the transaction would add.
THEOREM TypeCorrect == Spec => []TypeOK
<1>1. MigrateInv => TypeOK
  BY DEF MigrateInv, Shape
<1> QED
  BY MigrateInit, MigrateNext, <1>1, PTL DEF Spec

\* No INSERT of the portal is refused for its id, unless one was under way
\* while a migration last set the sequence.
THEOREM IdsStayFresh == Spec => []FreshIds
<1>1. MigrateInv => FreshIds
  BY DEF MigrateInv, Shape, Behind, FreshIds
<1> QED
  BY MigrateInit, MigrateNext, <1>1, PTL DEF Spec

\* A migration that commits has added every row of SQLite that was not there,
\* but for those whose key a row of the portal had when their turn came, and
\* those the portal has deleted or written over since.
THEOREM NothingLeftOut == Spec => MigrationComplete
<1>1. ASSUME MigrateInv, Commit, NEW r \in Wanted(run.visited)
      PROVE  r \in rows' \/ Key(r) \in run.skipped \union run.touched
  <2>1. run # Idle /\ run.reset = 4
    BY <1>1, RunOn, SequencesAre DEF MigrateInv, Shape, TypeOK, Commit
  <2>2. r \in run.done
    BY <1>1, <2>1 DEF MigrateInv, Shape
  <2>3. rows' = rows \union mine
    BY <1>1 DEF Commit
  <2> QED
    BY <1>1, <2>1, <2>2, <2>3 DEF MigrateInv, Dealt
<1>2. MigrateInv /\ [Next]_vars
      => [Commit => \A r \in Wanted(run.visited) :
                       r \in rows' \/ Key(r) \in run.skipped \union run.touched]_vars
  BY <1>1
<1> QED
  BY MigrateInit, MigrateNext, <1>2, PTL DEF Spec, MigrationComplete

\* A migrated row hangs on the row it hung on, but for the exceptions.
THEOREM Attributed == Spec => Attribution
<1>1. ASSUME MigrateInv, NEW r \in Source, Copy(r), NEW q \in rows \union mine,
             Hangs(r, q), q.from = "portal"
      PROVE  Key(q) \in run.skipped \/ q.table \in outrun
  <2>1. /\ run # Idle /\ run.reset = 0 /\ r \in Wanted(run.visited) \ run.done
        /\ \A p \in Wanted(run.visited) \ run.done : ~Before(p, r)
    BY <1>1, RunOn DEF MigrateInv, Shape, TypeOK, Copy, NextRow
  <2>2. q \in rows
    BY <1>1, SourceAssumption DEF MigrateInv, Shape, TypeOK, SourceAssumption
  <2>3. r.table \in DOMAIN ParentOf
    BY <1>1 DEF Hangs
  <2>4. PICK p \in Source : Hangs(r, p)
    BY <2>3, SourceAssumption DEF SourceAssumption, Sound
  <2>5. Key(p) = Key(q) /\ p.table = q.table /\ p.table = ParentOf[r.table]
    BY <1>1, <2>4 DEF Hangs, Key
  <2>6. p \in Wanted(run.visited)
    BY <2>3, <2>4, <2>5, ParentsAre DEF Wanted
  <2>7. Before(p, r)
    BY <2>3, <2>5, ParentBefore DEF Before
  <2>8. p \in run.done
    BY <2>1, <2>6, <2>7
  <2>9. p.table \in Serial
    BY <2>3, <2>5, ParentsAre, SerialAre
  <2> QED
    BY <1>1, <2>1, <2>2, <2>5, <2>8, <2>9 DEF MigrateInv, Settled
<1>2. ASSUME MigrateInv, Next, NEW r \in mine' \ mine
      PROVE  r \in Source /\ Copy(r)
  BY <1>2 DEF Next, Begin, Skip, Copy, ReadMax, MaxOf, SetSequence, Commit,
     RollBack, Draw, Insert, InsertFails, SetSetting, DeleteSite
<1>3. MigrateInv /\ [Next]_vars
      => [\A r \in mine' \ mine : \A q \in rows \union mine :
             Hangs(r, q) /\ q.from = "portal"
             => Key(q) \in run.skipped \/ q.table \in outrun]_vars
  BY <1>1, <1>2
<1> QED
  BY MigrateInit, MigrateNext, <1>3, PTL DEF Spec, Attribution
============================================================================
