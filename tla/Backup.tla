------------------------------- MODULE Backup -------------------------------
(***************************************************************************)
(* The archives of one site: Snapshot, writeTarGz and prune                *)
(* (internal/backup/backup.go), which every crawl calls before it starts.  *)
(* Crawls of a site can overlap, each in a pod of its own, and only the    *)
(* names of the files keep their snapshots apart.  A call of the file      *)
(* system is a step; each can fail, and the pod can be killed before any.  *)
(***************************************************************************)
EXTENDS Integers, FiniteSets

CONSTANTS
    Crawls,        \* crawls that can be at work at the same time
    Stamps,        \* UTC seconds; the clocks of two nodes may disagree
    MaxEntries,    \* bound on the files and directories of the mirror
    KeepN,         \* backup_keep_n of the site
    DefaultKeepN,  \* 5, for a site that cannot be read
    Idle           \* the crawl is not in Snapshot

VARIABLES
    tmp,           \* [Stamps -> Contents], <stamp>.tar.gz.tmp
    archive,       \* [Stamps -> Contents], <stamp>.tar.gz
    snapshot,      \* [Crawls -> where Snapshot is and what it holds]
    published,     \* history: stamps that have named an archive
    unread         \* history: a prune could not read backup_keep_n

vars == <<tmp, archive, snapshot, published, unread>>

\* "partial" holds less than the mirror, "whole" all of it; whether the last
\* bytes got to the disk when it was closed is left out.  "shared": two
\* snapshots of that second were at work at the same time, so that both may
\* have written to it, or one to a file the other has removed.
Contents == {"absent", "partial", "whole", "shared"}

Walking == [pc : {"walk"}, stamp : Stamps, left : 0 .. MaxEntries]
Renaming == [pc : {"rename"}, stamp : Stamps]
Listing == [pc : {"list"}]
\* exact, history: since the directory was listed no archive has been
\* published and every removal has worked.
Removing == [pc : {"remove"}, keep : {KeepN, DefaultKeepN},
             victims : SUBSET Stamps, exact : BOOLEAN]

ASSUME StampAssumption == IsFiniteSet(Stamps) /\ Stamps \subseteq Nat
ASSUME EntryAssumption == MaxEntries \in Nat \ {0}
ASSUME KeepAssumption == KeepN \in Nat \ {0} /\ DefaultKeepN \in Nat \ {0}
ASSUME IdleAssumption ==
    Idle \notin Walking \union Renaming \union Listing \union Removing

TypeOK ==
    /\ tmp \in [Stamps -> Contents] /\ archive \in [Stamps -> Contents]
    /\ snapshot \in
         [Crawls -> {Idle} \union Walking \union Renaming \union Listing
                           \union Removing]
    /\ published \subseteq Stamps /\ unread \in BOOLEAN

Init ==
    /\ tmp = [s \in Stamps |-> "absent"]
    /\ archive = [s \in Stamps |-> "absent"]
    /\ snapshot = [c \in Crawls |-> Idle]
    /\ published = {} /\ unread = FALSE

At(c, pc) == snapshot[c] # Idle /\ snapshot[c].pc = pc
HasStamp(c, s) == (At(c, "walk") \/ At(c, "rename")) /\ snapshot[c].stamp = s

Present == {s \in Stamps : archive[s] # "absent"}
Newer(stamps, s) == {t \in stamps : t > s}

Leave(c) == snapshot' = [snapshot EXCEPT ![c] = Idle]

(***************************************************************************)
(* writeTarGz.                                                             *)
(***************************************************************************)
\* os.Create cuts a file that is there, whoever is writing to it.
Create(c, s, entries) ==
    /\ snapshot[c] = Idle
    /\ tmp' = [tmp EXCEPT ![s] = IF \E d \in Crawls : HasStamp(d, s)
                                 THEN "shared" ELSE "partial"]
    /\ snapshot' = [snapshot EXCEPT ![c] =
                       [pc |-> "walk", stamp |-> s, left |-> entries]]
    /\ UNCHANGED <<archive, published, unread>>

\* os.Remove of the .tmp, which may be somebody else's.
Discard(s) ==
    /\ tmp' = [tmp EXCEPT ![s] = "absent"]
    /\ UNCHANGED <<archive, published, unread>>

CreateFails(c, s) == snapshot[c] = Idle /\ Discard(s) /\ UNCHANGED snapshot

\* The next entry of the mirror is in the file.
Written(c) ==
    LET s == snapshot[c].stamp IN
    /\ snapshot' = [snapshot EXCEPT ![c].left = @ - 1]
    /\ tmp' = IF snapshot[c].left = 1 /\ tmp[s] = "partial"
              THEN [tmp EXCEPT ![s] = "whole"] ELSE tmp
    /\ UNCHANGED <<archive, published, unread>>

Entry(c) ==
    /\ At(c, "walk") /\ snapshot[c].left > 0
    /\ Written(c)

\* SIGTERM, a file that has grown or gone, a failing read or write.
WalkFails(c) ==
    /\ At(c, "walk") /\ snapshot[c].left > 0
    /\ Discard(snapshot[c].stamp) /\ Leave(c)

\* Faulty: an error in the middle of the walk is dropped.
EndedAnywhere(c) == TRUE

WalkEnded(c) == snapshot[c].left = 0

\* The deferred Close of tar, gzip and file.
Close(c) ==
    /\ At(c, "walk") /\ WalkEnded(c)
    /\ snapshot' = [snapshot EXCEPT ![c] =
                       [pc |-> "rename", stamp |-> snapshot[c].stamp]]
    /\ UNCHANGED <<tmp, archive, published, unread>>

(***************************************************************************)
(* Snapshot after writeTarGz, and prune.                                   *)
(***************************************************************************)
Rename(c) ==
    /\ At(c, "rename")
    /\ LET s == snapshot[c].stamp IN
       /\ tmp[s] # "absent"
       /\ archive' = [archive EXCEPT ![s] = tmp[s]]
       /\ tmp' = [tmp EXCEPT ![s] = "absent"]
       /\ published' = published \union {s}
    /\ snapshot' = [d \in Crawls |->
          IF d = c THEN [pc |-> "list"]
          ELSE IF At(d, "remove") THEN [snapshot[d] EXCEPT !.exact = FALSE]
          ELSE snapshot[d]]
    /\ UNCHANGED unread

\* Nothing is there under the .tmp name any more, or rename fails.
RenameFails(c) ==
    /\ At(c, "rename") /\ Leave(c)
    /\ UNCHANGED <<tmp, archive, published, unread>>

\* Faulty: one archive too few is kept.
BeyondOrLast(stamps, keep) ==
    {s \in stamps : Cardinality(Newer(stamps, s)) + 1 >= keep}

\* Sorted newest first, names[keep:].
Beyond(stamps, keep) == {s \in stamps : Cardinality(Newer(stamps, s)) >= keep}

\* Faulty: neither KeepNFn nor Snapshot has a default.
KeepOrNone(found) == IF found THEN KeepN ELSE 0

\* KeepNFn (crawl.go), which has 5 for a site it cannot read, as Snapshot has
\* for an answer that is not above 0.
Keep(found) == IF found THEN KeepN ELSE DefaultKeepN

\* The listing of the directory.
List(c, found) ==
    /\ At(c, "list")
    /\ LET keep == Keep(found)
           victims == Beyond(Present, keep)
       IN snapshot' = [snapshot EXCEPT ![c] =
             IF victims = {} THEN Idle
             ELSE [pc |-> "remove", keep |-> keep, victims |-> victims,
                   exact |-> TRUE]]
    /\ unread' = (unread \/ ~found)
    /\ UNCHANGED <<tmp, archive, published>>

ListFails(c) ==
    /\ At(c, "list") /\ Leave(c)
    /\ UNCHANGED <<tmp, archive, published, unread>>

\* Faulty: the loop ends at the first archive.
OnlyOne(victims, s) == {}

OthersThan(victims, s) == victims \ {s}

\* The newest of the victims goes first; an error is dropped.
Remove(c, s, works) ==
    /\ At(c, "remove") /\ s \in snapshot[c].victims
    /\ Newer(snapshot[c].victims, s) = {}
    /\ archive' = IF works THEN [archive EXCEPT ![s] = "absent"] ELSE archive
    /\ LET left == OthersThan(snapshot[c].victims, s)
       IN snapshot' = [snapshot EXCEPT ![c] =
             IF left = {} THEN Idle
             ELSE [snapshot[c] EXCEPT !.victims = left,
                                      !.exact = snapshot[c].exact /\ works]]
    /\ UNCHANGED <<tmp, published, unread>>

\* The pod is killed: what is there stays there.
Killed(c) ==
    /\ snapshot[c] # Idle /\ Leave(c)
    /\ UNCHANGED <<tmp, archive, published, unread>>

WriteTarGz(c) ==
    \/ \E s \in Stamps :
          \/ \E entries \in 1 .. MaxEntries : Create(c, s, entries)
          \/ CreateFails(c, s)
    \/ Entry(c) \/ WalkFails(c) \/ Close(c)

Prune(c) ==
    \/ \E outcome \in BOOLEAN :
          List(c, outcome) \/ \E s \in Stamps : Remove(c, s, outcome)
    \/ ListFails(c)

Next ==
    \E c \in Crawls :
       WriteTarGz(c) \/ Rename(c) \/ RenameFails(c) \/ Prune(c) \/ Killed(c)

Spec == Init /\ [][Next]_vars

(***************************************************************************)
(* Properties.                                                             *)
(***************************************************************************)
\* No archive gets its name before its snapshot is through the mirror: one
\* that is stopped, killed or fails on the way leaves a .tmp or nothing, what
\* other snapshots, prunes and leftovers of killed ones may do.  Only two that
\* run at the same time with the same second can publish less ("shared").
PublishedAtEnd == \A s \in Stamps : archive[s] # "partial"

\* As README.md says of backup_keep_n: the newest archives are kept, however
\* prunes and snapshots of several crawls interleave, whatever fails and
\* whatever the clocks say.  A prune that cannot read the site counts with
\* the default instead.
NewestKept ==
    \A s \in published :
        /\ Cardinality(Newer(published, s)) < KeepN
        /\ unread => Cardinality(Newer(published, s)) < DefaultKeepN
        => archive[s] # "absent"

\* A prune that nothing fails for and nobody publishes next to leaves no more
\* archives than it is to keep, whatever other prunes and kills left behind.
RetentionHolds ==
    [][\A c \in Crawls :
          /\ At(c, "remove") /\ snapshot[c].exact
          /\ \E s \in snapshot[c].victims : Remove(c, s, TRUE)
          /\ snapshot'[c] = Idle
          => Cardinality(Present') <= snapshot[c].keep]_vars
=============================================================================
