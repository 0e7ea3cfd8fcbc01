------------------------------ MODULE Migrate ------------------------------
(***************************************************************************)
(* grabr migrate (cmd/grabr/migrate.go): the rows of a SQLite database are *)
(* inserted with their ids into the PostgreSQL database of a portal, in    *)
(* one transaction, and the sequences are moved past them.  The portal and *)
(* its crawls can be at work on the database all the while, as they are    *)
(* when scripts/k3s-setup.sh migrates, and a run that failed is repeated.  *)
(*                                                                         *)
(* Of PostgreSQL the model has: an INSERT draws its id from the sequence   *)
(* before it looks whether the id is free; draws and setval are outside of *)
(* the transaction, and SELECT setval(..., MAX) reads the maximum from its *)
(* snapshot before it sets it; an INSERT waits for a transaction that      *)
(* holds its key or slug, a DELETE for one that has added children.        *)
(***************************************************************************)
EXTENDS Integers, Sequences, FiniteSets

CONSTANTS
    Source,      \* the rows of the SQLite file, which nobody writes to now
    Existing,    \* sets of rows, each a database the portal may have
    Slugs,       \* slugs of new sites
    MaxId,       \* bound on the ids
    MaxDraws,    \* bound on the INSERTs of the portal
    MaxDeletes   \* bound on the sites deleted

VARIABLES
    rows,        \* what is committed
    mine,        \* what the transaction has inserted
    seq,         \* [Serial -> last id drawn]
    drawn,       \* rows of INSERTs of the portal that have drawn their id
    run,         \* the migration under way
    outrun,      \* history: tables whose sequence was last set by a statement
                 \* during which an INSERT of the portal had or drew its id
    draws,       \* INSERTs of the portal so far
    deletes      \* sites deleted so far

portal == <<rows, drawn, draws, deletes>>
vars == <<portal, mine, seq, run, outrun>>

\* The tables in the order in which they are copied, the tables with a
\* sequence in the order of resetSequences, and what a foreign key points to.
Order == <<"settings", "sites", "crawls", "robots_logs", "visited_urls">>
Sequences == <<"sites", "crawls", "robots_logs", "visited_urls">>
Tables == {Order[i] : i \in DOMAIN Order}
Serial == {Sequences[i] : i \in DOMAIN Sequences}
ParentOf == [crawls |-> "sites", robots_logs |-> "sites", visited_urls |-> "crawls"]

\* The parent is 0 in a table without a foreign key, the slug "none" but for
\* sites; the key of a setting is a number here.
Row == [table : Tables, id : 1 .. MaxId, parent : 0 .. MaxId,
        slug : Slugs \union {"none"}, from : {"sqlite", "portal"}]
Key(r) == <<r.table, r.id>>
Keys(some) == {Key(r) : r \in some}
Hangs(r, q) == /\ r.table \in DOMAIN ParentOf
               /\ ParentOf[r.table] = q.table /\ r.parent = q.id

\* Keys and slugs unique, slugs for sites only, no row without its parent.
Sound(some) ==
    /\ \A r \in some : r.table # "sites" => r.slug = "none"
    /\ \A r, q \in some :
          r # q => Key(r) # Key(q) /\ (r.slug = q.slug => r.slug = "none")
    /\ \A r \in some : r.table \in DOMAIN ParentOf => \E q \in some : Hangs(r, q)

ASSUME BoundAssumption == MaxId \in Nat \ {0} /\ MaxDraws \in Nat /\ MaxDeletes \in Nat
ASSUME SourceAssumption ==
    Source \subseteq Row /\ Sound(Source) /\ \A r \in Source : r.from = "sqlite"
ASSUME ExistingAssumption ==
    \A db \in Existing :
        db \subseteq Row /\ Sound(db) /\ \A r \in db : r.from = "portal"

\* done: rows that have been dealt with; reset: sequences that have been set;
\* max: the maximum that is to be set, 0 between the statements.  History of
\* this run: raced, whether an INSERT of the portal had or drew its id in the
\* table during the statement; skipped, keys that rows of the portal had taken;
\* touched, keys of rows the portal has deleted or written since.
Idle == [on |-> FALSE]
Run == [on : {TRUE}, visited : BOOLEAN, done : SUBSET Source,
        reset : 0 .. Len(Sequences), max : 0 .. MaxId, raced : BOOLEAN,
        skipped : SUBSET Keys(Source), touched : SUBSET (Tables \X (1 .. MaxId))]

TypeOK ==
    /\ rows \subseteq Row /\ mine \subseteq Source /\ drawn \subseteq Row
    /\ Sound(rows \union mine)
    /\ seq \in [Serial -> 0 .. MaxId]
    /\ run = Idle \/ run \in Run
    /\ outrun \subseteq Serial
    /\ draws \in 0 .. MaxDraws /\ deletes \in 0 .. MaxDeletes

Ids(some, t) == {r.id : r \in {q \in some : q.table = t}}
Top(ids, none) == IF ids = {} THEN {none} ELSE {i \in ids : \A j \in ids : j <= i}

Init ==
    /\ rows \in Existing
    /\ seq \in [Serial -> 0 .. MaxId]
    /\ \A t \in Serial : seq[t] \in Top(Ids(rows, t), 0)
    /\ mine = {} /\ drawn = {} /\ run = Idle /\ outrun = {}
    /\ draws = 0 /\ deletes = 0

(***************************************************************************)
(* The migration.                                                          *)
(***************************************************************************)
\* Rows that are copied: visited_urls on request only.
Wanted(visited) == {r \in Source : r.table = "visited_urls" => visited}

Position(t) == CHOOSE i \in DOMAIN Order : Order[i] = t

\* Tables one after the other, rows by id (settings in any order).
Before(r, q) == \/ Position(r.table) < Position(q.table)
                \/ r.table = q.table /\ r.table # "settings" /\ r.id < q.id

Begin(visited) ==
    /\ ~run.on
    /\ run' = [on |-> TRUE, visited |-> visited, done |-> {}, reset |-> 0,
               max |-> 0, raced |-> FALSE, skipped |-> {}, touched |-> {}]
    /\ UNCHANGED <<portal, mine, seq, outrun>>

\* Faulty: tables in any order.
RowInAnyOrder(r) ==
    run.on /\ run.reset = 0 /\ r \in Wanted(run.visited) \ run.done

NextRow(r) ==
    /\ run.on /\ run.reset = 0 /\ r \in Wanted(run.visited) \ run.done
    /\ \A q \in Wanted(run.visited) \ run.done : ~Before(q, r)

Taken(r, some) == \E q \in some : Key(q) = Key(r)
SlugTaken(r, some) == r.slug # "none" /\ \E q \in some : q.slug = r.slug
Orphan(r, some) == r.table \in DOMAIN ParentOf /\ ~\E q \in some : Hangs(r, q)

\* Faulty: ON CONFLICT (id) DO UPDATE.
SkipOverwrites(r) ==
    /\ NextRow(r) /\ Taken(r, rows)
    /\ mine' = mine \union {r}
    /\ run' = [run EXCEPT !.done = run.done \union {r}]
    /\ UNCHANGED <<portal, seq, outrun>>

\* ON CONFLICT (id) DO NOTHING.
Skip(r) ==
    /\ NextRow(r) /\ Taken(r, rows)
    /\ run' = [run EXCEPT
          !.done = run.done \union {r},
          !.skipped = run.skipped \union
              {Key(q) : q \in {p \in rows : Key(p) = Key(r) /\ p.from = "portal"}}]
    /\ UNCHANGED <<portal, mine, seq, outrun>>

\* A slug that another site has or a parent that is gone is an error.
Copy(r) ==
    /\ NextRow(r) /\ ~Taken(r, rows)
    /\ ~SlugTaken(r, rows \union mine) /\ ~Orphan(r, rows \union mine)
    /\ mine' = mine \union {r}
    /\ run' = [run EXCEPT !.done = run.done \union {r}]
    /\ UNCHANGED <<portal, seq, outrun>>

\* The next sequence to be set.
Due(t) == /\ run.on /\ run.reset < Len(Sequences)
          /\ t = Sequences[run.reset + 1]

MaxOf(t, some) ==
    /\ Due(t) /\ run.max = 0
    /\ \E top \in Top(Ids(some, t), 1) :
          run' = [run EXCEPT !.max = top, !.raced = \E d \in drawn : d.table = t]
    /\ UNCHANGED <<portal, mine, seq, outrun>>

\* Faulty: a SELECT that ended with an error counts as read to its end.
ReadMaxAfterCutCopy(t) == MaxOf(t, rows \union mine)

\* Faulty: the maximum is asked for outside of the transaction.
ReadMaxCommitted(t) ==
    run.on /\ run.done = Wanted(run.visited) /\ MaxOf(t, rows)

ReadMax(t) ==
    run.on /\ run.done = Wanted(run.visited) /\ MaxOf(t, rows \union mine)

\* setval, which the rest of the world sees at once.
SetSequence(t) ==
    /\ Due(t) /\ run.max # 0
    /\ seq' = [seq EXCEPT ![t] = run.max]
    /\ outrun' = IF run.raced THEN outrun \union {t} ELSE outrun \ {t}
    /\ run' = [run EXCEPT !.reset = run.reset + 1, !.max = 0, !.raced = FALSE]
    /\ UNCHANGED <<portal, mine>>

Commit ==
    /\ run.on /\ run.reset = Len(Sequences)
    /\ rows' = rows \union mine
    /\ mine' = {} /\ run' = Idle
    /\ UNCHANGED <<seq, drawn, outrun, draws, deletes>>

\* An error, a deadlock, a process or a connection that dies.
RollBack ==
    /\ run.on
    /\ mine' = {} /\ run' = Idle
    /\ UNCHANGED <<portal, seq, outrun>>

(***************************************************************************)
(* The portal and its crawls.                                              *)
(***************************************************************************)
\* CreateSite, StartCrawl, AddRobotsLog, AddVisitedURL: the id comes first.
Draw(t, parent, slug) ==
    /\ draws < MaxDraws /\ seq[t] < MaxId
    /\ LET row == [table |-> t, id |-> seq[t] + 1, parent |-> parent,
                   slug |-> slug, from |-> "portal"]
       IN /\ t = "sites" <=> slug # "none"
          /\ IF t \in DOMAIN ParentOf THEN \E q \in rows : Hangs(row, q)
                                      ELSE parent = 0
          /\ drawn' = drawn \union {row}
    /\ draws' = draws + 1
    /\ seq' = [seq EXCEPT ![t] = seq[t] + 1]
    /\ run' = IF Due(t) /\ run.max # 0 THEN [run EXCEPT !.raced = TRUE] ELSE run
    /\ UNCHANGED <<rows, mine, outrun, deletes>>

\* One waits for the transaction that has inserted the same key or slug.
Insert(d) ==
    /\ ~Taken(d, mine) /\ ~SlugTaken(d, mine)
    /\ ~Taken(d, rows) /\ ~SlugTaken(d, rows) /\ ~Orphan(d, rows)
    /\ rows' = rows \union {d}
    /\ drawn' = drawn \ {d}
    /\ UNCHANGED <<mine, seq, run, outrun, draws, deletes>>

\* A key, a slug or a parent is refused, or the request dies.
InsertFails(d) ==
    /\ drawn' = drawn \ {d}
    /\ UNCHANGED <<rows, mine, seq, run, outrun, draws, deletes>>

Touched(keys) ==
    IF run.on THEN [run EXCEPT !.touched = run.touched \union keys] ELSE run

\* The upsert of a setting.
SetSetting(r) ==
    /\ r.table = "settings" /\ ~Taken(r, mine)
    /\ rows' = {q \in rows : Key(q) # Key(r)} \union {[r EXCEPT !.from = "portal"]}
    /\ run' = Touched({Key(r)})
    /\ UNCHANGED <<mine, seq, drawn, outrun, draws, deletes>>

\* A site with everything that hangs on it.
Under(s) == {s} \union {r \in rows : \/ Hangs(r, s)
                                     \/ \E q \in rows : Hangs(q, s) /\ Hangs(r, q)}

DeleteSite(s) ==
    /\ s.table = "sites" /\ deletes < MaxDeletes
    /\ \A m \in mine, q \in Under(s) : ~Hangs(m, q)
    /\ rows' = rows \ Under(s)
    /\ deletes' = deletes + 1
    /\ run' = Touched(Keys(Under(s)))
    /\ UNCHANGED <<mine, seq, drawn, draws, outrun>>

Next ==
    \/ \E visited \in BOOLEAN : Begin(visited)
    \/ \E r \in Source : Skip(r) \/ Copy(r) \/ SetSetting(r)
    \/ \E t \in Serial :
          \/ ReadMax(t) \/ SetSequence(t)
          \/ \E parent \in 0 .. MaxId, slug \in Slugs \union {"none"} :
                Draw(t, parent, slug)
    \/ Commit \/ RollBack
    \/ \E d \in drawn : Insert(d) \/ InsertFails(d)
    \/ \E s \in rows : DeleteSite(s)

Spec == Init /\ [][Next]_vars

(***************************************************************************)
(* Properties.                                                             *)
(***************************************************************************)
\* When a migration commits, in a first run or in a repeated one, every row of
\* SQLite it was to copy is there, but for those whose key a row of the portal
\* had, of which migrate.go warns that they are skipped, and those the portal
\* has deleted or written over meanwhile.
MigrationComplete ==
    [][Commit => \A r \in Wanted(run.visited) :
                     r \in rows' \/ Key(r) \in run.skipped \union run.touched]_vars

\* A row from SQLite hangs on the row from SQLite it hung on there, unless
\* the portal had a row of its own under that id, which the migration skipped,
\* or was inserting one while the sequence was set.
Attribution ==
    [][\A r \in mine' \ mine : \A q \in rows \union mine :
          Hangs(r, q) /\ q.from = "portal"
          => Key(q) \in run.skipped \/ q.table \in outrun]_vars

\* Migrated ids are behind the sequence of their table: no INSERT of the
\* portal is refused for its id, unless one was under way while a migration
\* last set the sequence.
FreshIds == \A d \in drawn : d.table \notin outrun => ~Taken(d, rows)
============================================================================
