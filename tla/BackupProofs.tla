---------------------------- MODULE BackupProofs ----------------------------
(***************************************************************************)
(* Safety of the archives of a site for every number of crawls, seconds    *)
(* and entries and for every retention.                                    *)
(***************************************************************************)
EXTENDS Backup, FiniteSetTheorems, WellFoundedInduction, TLAPS

(***************************************************************************)
(* What is kept: facts about Newer and Beyond.                             *)
(***************************************************************************)
LEMMA CardMonotone ==
    ASSUME NEW big \in SUBSET Stamps, NEW small \in SUBSET big
    PROVE  /\ Cardinality(small) \in Nat /\ Cardinality(big) \in Nat
           /\ Cardinality(small) <= Cardinality(big)
<1>1. IsFiniteSet(big)
  BY StampAssumption, FS_Subset DEF StampAssumption
<1> QED
  BY <1>1, FS_Subset, FS_CardinalityType

LEMMA NewerMonotone ==
    ASSUME NEW big \in SUBSET Stamps, NEW small \in SUBSET big, NEW s
    PROVE  /\ Cardinality(Newer(small, s)) \in Nat
           /\ Cardinality(Newer(big, s)) \in Nat
           /\ Cardinality(Newer(small, s)) <= Cardinality(Newer(big, s))
<1>1. Newer(big, s) \in SUBSET Stamps /\ Newer(small, s) \in SUBSET Newer(big, s)
  BY DEF Newer
<1> QED
  BY <1>1, CardMonotone

LEMMA Oldest ==
    ASSUME NEW some \in SUBSET Stamps, some # {}
    PROVE  \E s \in some : \A t \in some : s <= t
<1>1. some \subseteq Nat
  BY StampAssumption DEF StampAssumption
<1>2. PICK s \in some : \A t \in some : ~(<<t, s>> \in OpToRel(<, Nat))
  BY <1>1, NatLessThanWellFounded, WFMin, Zenon
<1>3. \A t \in some : ~(t < s)
  BY <1>1, <1>2 DEF OpToRel
<1>4. ASSUME NEW t \in some PROVE s <= t
  <2>1. s \in Nat /\ t \in Nat /\ ~(t < s)
    BY <1>1, <1>3
  <2> QED
    BY <2>1
<1> QED
  BY <1>4

\* At most "keep" archives are not beyond the "keep" newest ones.
LEMMA KeptFew ==
    ASSUME NEW some \in SUBSET Stamps, NEW keep \in Nat \ {0}
    PROVE  Cardinality(some \ Beyond(some, keep)) <= keep
<1> DEFINE kept == some \ Beyond(some, keep)
<1>1. IsFiniteSet(kept) /\ kept \in SUBSET Stamps /\ kept \in SUBSET some
  BY StampAssumption, FS_Subset DEF StampAssumption
<1>2. CASE kept = {}
  BY <1>2, FS_EmptySet
<1>3. CASE kept # {}
  <2>1. PICK s \in kept : \A t \in kept : s <= t
    BY <1>1, <1>3, Oldest
  <2>2. kept \ {s} \in SUBSET Newer(some, s)
    <3> SUFFICES ASSUME NEW t \in kept, t # s PROVE t \in some /\ t > s
      BY DEF Newer
    <3>1. t \in Nat /\ s \in Nat /\ s <= t /\ t \in some
      BY <1>1, <2>1, StampAssumption DEF StampAssumption
    <3> QED
      BY <3>1
  <2>3. Newer(some, s) \in SUBSET Stamps
    BY DEF Newer
  <2>4. /\ Cardinality(kept \ {s}) <= Cardinality(Newer(some, s))
        /\ Cardinality(Newer(some, s)) \in Nat
    BY <2>2, <2>3, CardMonotone
  <2>5. Cardinality(Newer(some, s)) < keep
    BY <1>1, <2>1, <2>4 DEF Beyond
  <2>6. Cardinality(kept \ {s}) = Cardinality(kept) - 1
    BY <1>1, <2>1, FS_RemoveElement
  <2>7. Cardinality(kept) \in Nat
    BY <1>1, FS_CardinalityType
  <2> HIDE DEF kept
  <2>8. Cardinality(kept) <= keep
    BY <2>4, <2>5, <2>6, <2>7
  <2> QED
    BY <2>8 DEF kept
<1> QED
  BY <1>2, <1>3

(***************************************************************************)
(* Types.                                                                  *)
(***************************************************************************)
LEMMA PhaseType ==
    ASSUME TypeOK, NEW c \in Crawls
    PROVE  /\ At(c, "walk") => snapshot[c] \in Walking
           /\ At(c, "rename") => snapshot[c] \in Renaming
           /\ At(c, "remove") => snapshot[c] \in Removing
BY DEF TypeOK, At, Walking, Renaming, Listing, Removing

LEMMA TypeInit == Init => TypeOK
BY DEF Init, TypeOK, Contents

LEMMA WalkType ==
    ASSUME TypeOK, NEW c \in Crawls, WriteTarGz(c)
    PROVE  TypeOK'
<1>1. ASSUME NEW s \in Stamps, NEW entries \in 1 .. MaxEntries,
             Create(c, s, entries)
      PROVE  TypeOK'
  <2>1. [pc |-> "walk", stamp |-> s, left |-> entries] \in Walking
    BY EntryAssumption DEF EntryAssumption, Walking
  <2> QED
    BY <1>1, <2>1 DEF TypeOK, Create, Contents
<1>2. ASSUME NEW s \in Stamps, CreateFails(c, s)
      PROVE  TypeOK'
  BY <1>2 DEF TypeOK, CreateFails, Discard, Contents
<1>3. CASE Entry(c)
  <2>1. snapshot[c] \in Walking /\ snapshot[c].left > 0
    BY <1>3, PhaseType DEF Entry
  <2>2. [snapshot[c] EXCEPT !.left = @ - 1] \in Walking
    BY <2>1, EntryAssumption DEF EntryAssumption, Walking
  <2>3. snapshot' = [snapshot EXCEPT ![c] = [snapshot[c] EXCEPT !.left = @ - 1]]
    BY <1>3 DEF Entry, Written
  <2>4. tmp' \in [Stamps -> Contents]
    BY <1>3 DEF Entry, Written, TypeOK, Contents
  <2> QED
    BY <1>3, <2>2, <2>3, <2>4 DEF TypeOK, Entry, Written
<1>4. CASE WalkFails(c)
  BY <1>4 DEF TypeOK, WalkFails, Discard, Leave, Contents
<1>5. CASE Close(c)
  <2>1. [pc |-> "rename", stamp |-> snapshot[c].stamp] \in Renaming
    BY <1>5, PhaseType DEF Close, Walking, Renaming
  <2> QED
    BY <1>5, <2>1 DEF TypeOK, Close
<1> QED
  BY <1>1, <1>2, <1>3, <1>4, <1>5 DEF WriteTarGz

LEMMA RenameType ==
    ASSUME TypeOK, NEW c \in Crawls, Rename(c)
    PROVE  TypeOK'
<1>1. snapshot[c].stamp \in Stamps
  BY PhaseType DEF Rename, Renaming
<1>2. ASSUME NEW d \in Crawls, At(d, "remove")
      PROVE  [snapshot[d] EXCEPT !.exact = FALSE] \in Removing
  BY <1>2, PhaseType DEF Removing
<1>3. snapshot' \in [Crawls -> {Idle} \union Walking \union Renaming
                               \union Listing \union Removing]
  <2>1. [pc |-> "list"] \in Listing
    BY DEF Listing
  <2> QED
    BY <1>2, <2>1 DEF Rename, TypeOK
<1> QED
  BY <1>1, <1>3 DEF Rename, TypeOK, Contents

LEMMA PruneType ==
    ASSUME TypeOK, NEW c \in Crawls, Prune(c)
    PROVE  TypeOK'
<1>1. ASSUME NEW found \in BOOLEAN, List(c, found)
      PROVE  TypeOK'
  <2> DEFINE keep == IF found THEN KeepN ELSE DefaultKeepN
             victims == Beyond(Present, keep)
  <2>1. [pc |-> "remove", keep |-> keep, victims |-> victims, exact |-> TRUE]
          \in Removing
    BY DEF Removing, Beyond, Present
  <2> QED
    BY <1>1, <2>1 DEF TypeOK, List, Keep
<1>2. ASSUME NEW s \in Stamps, NEW works \in BOOLEAN, Remove(c, s, works)
      PROVE  TypeOK'
  <2> DEFINE left == OthersThan(snapshot[c].victims, s)
             rest == [snapshot[c] EXCEPT !.victims = left,
                                         !.exact = snapshot[c].exact /\ works]
  <2>1. snapshot[c] \in Removing
    BY <1>2, PhaseType DEF Remove
  <2>2. left \subseteq Stamps
    BY <2>1 DEF Removing, OthersThan
  <2>3. rest \in Removing
    BY <2>1, <2>2 DEF Removing
  <2>4. snapshot' = [snapshot EXCEPT ![c] = IF left = {} THEN Idle ELSE rest]
    BY <1>2 DEF Remove
  <2> HIDE DEF rest, left
  <2> QED
    BY <1>2, <2>3, <2>4 DEF TypeOK, Remove, Contents
<1>3. CASE ListFails(c)
  BY <1>3 DEF TypeOK, ListFails, Leave
<1> QED
  BY <1>1, <1>2, <1>3 DEF Prune

LEMMA TypeNext == TypeOK /\ [Next]_vars => TypeOK'
<1> SUFFICES ASSUME TypeOK, [Next]_vars PROVE TypeOK'
  OBVIOUS
<1>1. ASSUME NEW c \in Crawls, RenameFails(c) \/ Killed(c)
      PROVE  TypeOK'
  BY <1>1 DEF TypeOK, RenameFails, Killed, Leave
<1>2. CASE UNCHANGED vars
  BY <1>2 DEF TypeOK, vars
<1> QED
  BY <1>1, <1>2, WalkType, RenameType, PruneType DEF Next

\* Every state of the archives and their snapshots is well typed.
THEOREM TypeCorrect == Spec => []TypeOK
BY TypeInit, TypeNext, PTL DEF Spec

(***************************************************************************)
(* What is published.                                                      *)
(***************************************************************************)
\* A snapshot through the mirror has no unfinished file under its .tmp name.
EndReached ==
    \A c \in Crawls :
        \/ At(c, "rename")
        \/ At(c, "walk") /\ snapshot[c].left = 0
        => tmp[snapshot[c].stamp] # "partial"

WholeInv == PublishedAtEnd /\ EndReached

LEMMA WholeInit == Init => WholeInv
BY DEF Init, WholeInv, PublishedAtEnd, EndReached, At

LEMMA WholeWalk ==
    ASSUME TypeOK, WholeInv, NEW c \in Crawls, WriteTarGz(c)
    PROVE  WholeInv'
<1>1. archive' = archive
  BY DEF WriteTarGz, Create, CreateFails, Discard, Entry, Written, WalkFails,
     Close
<1>2. SUFFICES EndReached'
  BY <1>1 DEF WholeInv, PublishedAtEnd
<1> SUFFICES ASSUME NEW d \in Crawls,
                    (\/ At(d, "rename")
                     \/ At(d, "walk") /\ snapshot[d].left = 0)'
             PROVE  (tmp[snapshot[d].stamp] # "partial")'
  BY DEF EndReached
<1>3. ASSUME NEW s \in Stamps, NEW entries \in 1 .. MaxEntries,
             Create(c, s, entries)
      PROVE  (tmp[snapshot[d].stamp] # "partial")'
  <2>1. d # c
    BY <1>3, EntryAssumption DEF TypeOK, Create, At, EntryAssumption
  <2>2. snapshot'[d] = snapshot[d]
    BY <1>3, <2>1 DEF Create, TypeOK
  <2>3. \/ At(d, "rename")
        \/ At(d, "walk") /\ snapshot[d].left = 0
    BY <2>2 DEF At
  <2>4. CASE snapshot[d].stamp = s
    BY <1>3, <2>2, <2>3, <2>4 DEF Create, HasStamp, TypeOK
  <2>5. CASE snapshot[d].stamp # s
    BY <1>3, <2>2, <2>3, <2>5 DEF Create, EndReached, WholeInv
  <2> QED
    BY <2>4, <2>5
<1>4. ASSUME NEW s \in Stamps, CreateFails(c, s)
      PROVE  (tmp[snapshot[d].stamp] # "partial")'
  <2>1. snapshot' = snapshot /\ tmp' = [tmp EXCEPT ![s] = "absent"]
    BY <1>4 DEF CreateFails, Discard
  <2>2. tmp[snapshot[d].stamp] # "partial" /\ snapshot[d].stamp \in Stamps
    BY <2>1, PhaseType DEF At, EndReached, WholeInv, Walking, Renaming
  <2> QED
    BY <2>1, <2>2 DEF TypeOK
<1>5. CASE Entry(c)
  <2>1. snapshot[c] \in Walking /\ snapshot[c].left > 0
    BY <1>5, PhaseType DEF Entry
  <2>2. CASE d = c
    <3>1. snapshot[c].left = 1 /\ snapshot'[c].stamp = snapshot[c].stamp
      BY <1>5, <2>1, <2>2 DEF Entry, Written, At, TypeOK, Walking
    <3> QED
      BY <1>5, <2>1, <2>2, <3>1 DEF Entry, Written, TypeOK, Walking
  <2>3. CASE d # c
    <3>1. snapshot'[d] = snapshot[d]
      BY <1>5, <2>3 DEF Entry, Written, TypeOK
    <3>2. tmp[snapshot[d].stamp] # "partial" /\ snapshot[d].stamp \in Stamps
      BY <3>1, PhaseType DEF At, EndReached, WholeInv, Walking, Renaming
    <3> QED
      BY <1>5, <3>1, <3>2 DEF Entry, Written, TypeOK
  <2> QED
    BY <2>2, <2>3
<1>6. CASE WalkFails(c)
  <2>1. d # c
    BY <1>6 DEF WalkFails, Leave, At, TypeOK
  <2>2. snapshot'[d] = snapshot[d]
    BY <1>6, <2>1 DEF WalkFails, Leave, TypeOK
  <2>3. tmp[snapshot[d].stamp] # "partial" /\ snapshot[d].stamp \in Stamps
    BY <2>2, PhaseType DEF At, EndReached, WholeInv, Walking, Renaming
  <2> QED
    BY <1>6, <2>2, <2>3 DEF WalkFails, Discard, TypeOK
<1>7. CASE Close(c)
  <2>1. snapshot'[d].stamp = snapshot[d].stamp
    BY <1>7 DEF Close, TypeOK
  <2>2. \/ At(d, "rename")
        \/ At(d, "walk") /\ snapshot[d].left = 0
    BY <1>7 DEF Close, WalkEnded, At, TypeOK
  <2> QED
    BY <1>7, <2>1, <2>2 DEF Close, EndReached, WholeInv
<1> QED
  BY <1>3, <1>4, <1>5, <1>6, <1>7 DEF WriteTarGz

LEMMA WholeOther ==
    ASSUME TypeOK, WholeInv, NEW c \in Crawls,
           \/ Rename(c) \/ RenameFails(c) \/ Prune(c) \/ Killed(c)
    PROVE  WholeInv'
<1>1. CASE Rename(c)
  <2>1. tmp[snapshot[c].stamp] # "partial" /\ snapshot[c].stamp \in Stamps
    BY <1>1, PhaseType DEF Rename, EndReached, WholeInv, Renaming
  <2>2. PublishedAtEnd'
    BY <1>1, <2>1 DEF Rename, PublishedAtEnd, WholeInv, TypeOK
  <2>3. ASSUME NEW d \in Crawls,
               (\/ At(d, "rename")
                \/ At(d, "walk") /\ snapshot[d].left = 0)'
        PROVE  (tmp[snapshot[d].stamp] # "partial")'
    <3>1. d # c
      BY <1>1, <2>3 DEF Rename, At, TypeOK
    <3>2. ~At(d, "remove")
      <4> SUFFICES ASSUME At(d, "remove") PROVE FALSE
        OBVIOUS
      <4>1. snapshot'[d] = [snapshot[d] EXCEPT !.exact = FALSE]
        BY <1>1, <3>1 DEF Rename
      <4>2. snapshot'[d].pc = "remove"
        BY <4>1, PhaseType DEF Removing
      <4> QED
        BY <4>2, <2>3 DEF At
    <3>3. snapshot'[d] = snapshot[d]
      BY <1>1, <3>1, <3>2 DEF Rename
    <3>4. tmp[snapshot[d].stamp] # "partial" /\ snapshot[d].stamp \in Stamps
      BY <3>3, <2>3, PhaseType DEF At, EndReached, WholeInv, Walking, Renaming
    <3> QED
      BY <1>1, <2>1, <3>3, <3>4 DEF Rename, TypeOK
  <2> QED
    BY <2>2, <2>3 DEF WholeInv, EndReached
<1>2. CASE RenameFails(c) \/ Killed(c) \/ ListFails(c)
  BY <1>2 DEF RenameFails, Killed, ListFails, Leave, WholeInv, PublishedAtEnd,
     EndReached, At, TypeOK
<1>3. ASSUME NEW found \in BOOLEAN, List(c, found)
      PROVE  WholeInv'
  <2>1. snapshot'[c] = Idle \/ snapshot'[c].pc = "remove"
    BY <1>3 DEF List, TypeOK
  <2>2. \A d \in Crawls \ {c} : snapshot'[d] = snapshot[d]
    BY <1>3 DEF List, TypeOK
  <2> QED
    BY <1>3, <2>1, <2>2 DEF List, WholeInv, PublishedAtEnd, EndReached, At
<1>4. ASSUME NEW s \in Stamps, NEW works \in BOOLEAN, Remove(c, s, works)
      PROVE  WholeInv'
  <2>1. snapshot'[c] = Idle \/ snapshot'[c].pc = "remove"
    BY <1>4, PhaseType DEF Remove, TypeOK, Removing
  <2>2. \A d \in Crawls \ {c} : snapshot'[d] = snapshot[d]
    BY <1>4 DEF Remove, TypeOK
  <2>3. PublishedAtEnd'
    BY <1>4 DEF Remove, WholeInv, PublishedAtEnd, TypeOK
  <2> QED
    BY <1>4, <2>1, <2>2, <2>3 DEF Remove, WholeInv, EndReached, At
<1> QED
  BY <1>1, <1>2, <1>3, <1>4 DEF Prune

LEMMA WholeNext == TypeOK /\ WholeInv /\ [Next]_vars => WholeInv'
<1>1. CASE UNCHANGED vars
  BY <1>1 DEF vars, WholeInv, PublishedAtEnd, EndReached, At
<1> QED
  BY <1>1, WholeWalk, WholeOther DEF Next

\* No archive holds less than its snapshot's walk, unless two snapshots of one
\* second were at work at the same time.
THEOREM NothingHalfPublished == Spec => []PublishedAtEnd
<1>1. WholeInv => PublishedAtEnd
  BY DEF WholeInv
<1> QED
  BY <1>1, WholeInit, WholeNext, TypeCorrect, PTL DEF Spec

(***************************************************************************)
(* What is kept.                                                           *)
(***************************************************************************)
\* As many newer archives have been published as a prune keeps.
Expendable(s) ==
    \/ Cardinality(Newer(published, s)) >= KeepN
    \/ unread /\ Cardinality(Newer(published, s)) >= DefaultKeepN

VictimsExpendable ==
    \A c \in Crawls :
        At(c, "remove") => \A s \in snapshot[c].victims : Expendable(s)

KeepInv ==
    /\ Present \subseteq published
    /\ VictimsExpendable
    /\ \A s \in published \ Present : Expendable(s)

LEMMA KeepInit == Init => KeepInv
BY DEF Init, KeepInv, VictimsExpendable, Present, At

\* What has become expendable stays so: publishing more only adds newer ones.
LEMMA ExpendableStays ==
    ASSUME TypeOK, TypeOK', published \subseteq published', unread => unread',
           NEW s \in Stamps, Expendable(s)
    PROVE  Expendable(s)'
<1>1. published' \in SUBSET Stamps /\ published \in SUBSET published'
  BY DEF TypeOK
<1>2. PICK before : before = published
  OBVIOUS
<1>3. PICK after : after = published'
  OBVIOUS
<1>4. /\ Cardinality(Newer(before, s)) <= Cardinality(Newer(after, s))
      /\ Cardinality(Newer(before, s)) \in Nat
      /\ Cardinality(Newer(after, s)) \in Nat
  BY <1>1, <1>2, <1>3, NewerMonotone
<1>5. Newer(published, s)' = Newer(after, s) /\ Newer(published, s) = Newer(before, s)
  BY <1>2, <1>3 DEF Newer
<1> QED
  BY <1>4, <1>5, KeepAssumption DEF Expendable, KeepAssumption

\* A step that publishes and removes nothing and gives no crawl new victims.
LEMMA KeepQuiet ==
    ASSUME TypeOK, TypeOK', KeepInv, archive' = archive,
           published' = published, unread' = unread,
           \A d \in Crawls :
               At(d, "remove")' => At(d, "remove") /\ snapshot'[d] = snapshot[d]
    PROVE  KeepInv'
BY DEF KeepInv, VictimsExpendable, Present, Expendable, Newer

LEMMA KeepRename ==
    ASSUME TypeOK, TypeOK', KeepInv, NEW c \in Crawls, Rename(c)
    PROVE  KeepInv'
<1> DEFINE s == snapshot[c].stamp
<1>1. s \in Stamps /\ tmp[s] # "absent" /\ archive' = [archive EXCEPT ![s] = tmp[s]]
  BY PhaseType DEF Rename, Renaming
<1>2. published' = published \union {s} /\ unread' = unread
  BY DEF Rename
<1>3. Present' = Present \union {s}
  BY <1>1 DEF Present, TypeOK
<1>4. ASSUME NEW t \in Stamps, Expendable(t) PROVE Expendable(t)'
  BY <1>2, <1>4, ExpendableStays
<1>5. ASSUME NEW d \in Crawls, At(d, "remove")'
      PROVE  At(d, "remove") /\ snapshot'[d].victims = snapshot[d].victims
  <2>1. d # c
    BY <1>5 DEF Rename, At
  <2>2. At(d, "remove")
    BY <1>5, <2>1 DEF Rename, At
  <2> QED
    BY <2>1, <2>2, PhaseType DEF Rename, Removing
<1>6. VictimsExpendable'
  <2> SUFFICES ASSUME NEW d \in Crawls, At(d, "remove")',
                      NEW t \in snapshot'[d].victims
               PROVE  Expendable(t)'
    BY DEF VictimsExpendable
  <2>1. At(d, "remove") /\ t \in snapshot[d].victims
    BY <1>5
  <2>2. t \in Stamps
    BY <2>1, PhaseType DEF Removing
  <2>3. Expendable(t)
    BY <2>1 DEF KeepInv, VictimsExpendable
  <2> QED
    BY <1>4, <2>2, <2>3
<1>7. ASSUME NEW t \in published' \ Present' PROVE Expendable(t)'
  <2>1. t \in published \ Present /\ t \in Stamps
    BY <1>2, <1>3, <1>7 DEF TypeOK
  <2> QED
    BY <1>4, <2>1 DEF KeepInv
<1>8. Present' \subseteq published'
  BY <1>2, <1>3 DEF KeepInv
<1> QED
  BY <1>6, <1>7, <1>8 DEF KeepInv

LEMMA KeepList ==
    ASSUME TypeOK, TypeOK', KeepInv, NEW c \in Crawls, NEW found \in BOOLEAN,
           List(c, found)
    PROVE  KeepInv'
<1>1. archive' = archive /\ published' = published /\ (unread => unread')
  BY DEF List
<1>2. Present' = Present
  BY <1>1 DEF Present
<1>3. ASSUME NEW t \in Stamps, Expendable(t) PROVE Expendable(t)'
  BY <1>1, <1>3, ExpendableStays
<1>4. ASSUME NEW d \in Crawls, At(d, "remove")', NEW t \in snapshot'[d].victims
      PROVE  Expendable(t)'
  <2>1. CASE d # c
    <3>1. snapshot'[d] = snapshot[d]
      BY <2>1 DEF List, TypeOK
    <3>2. Expendable(t)
      BY <1>4, <3>1 DEF KeepInv, VictimsExpendable, At
    <3>3. t \in Stamps
      BY <1>4, <3>1, PhaseType DEF At, Removing
    <3> QED
      BY <1>3, <3>2, <3>3
  <2>2. CASE d = c
    <3> DEFINE keep == IF found THEN KeepN ELSE DefaultKeepN
    <3>1. t \in Beyond(Present, keep)
      BY <1>4, <2>2 DEF List, Keep, At, TypeOK
    <3>2. t \in Stamps /\ Cardinality(Newer(Present, t)) >= keep
      BY <3>1 DEF Beyond, Present
    <3>3. /\ Cardinality(Newer(Present, t)) <= Cardinality(Newer(published, t))
          /\ Cardinality(Newer(Present, t)) \in Nat
          /\ Cardinality(Newer(published, t)) \in Nat
      BY NewerMonotone DEF KeepInv, TypeOK
    <3>4. Cardinality(Newer(published, t)) >= keep
      BY <3>2, <3>3, KeepAssumption DEF KeepAssumption
    <3>5. Newer(published, t)' = Newer(published, t)
      BY <1>1 DEF Newer
    <3>6. ~found => unread'
      BY DEF List, TypeOK
    <3> QED
      BY <3>4, <3>5, <3>6 DEF Expendable
  <2> QED
    BY <2>1, <2>2
<1>5. ASSUME NEW t \in published' \ Present' PROVE Expendable(t)'
  <2>1. t \in published \ Present /\ t \in Stamps
    BY <1>1, <1>2, <1>5 DEF TypeOK
  <2> QED
    BY <1>3, <2>1 DEF KeepInv
<1> QED
  BY <1>1, <1>2, <1>4, <1>5 DEF KeepInv, VictimsExpendable

LEMMA KeepRemove ==
    ASSUME TypeOK, TypeOK', KeepInv, NEW c \in Crawls, NEW s \in Stamps,
           NEW works \in BOOLEAN, Remove(c, s, works)
    PROVE  KeepInv'
<1>1. published' = published /\ unread' = unread
  BY DEF Remove
<1>2. \A t : Expendable(t)' <=> Expendable(t)
  BY <1>1 DEF Expendable, Newer
<1>3. Expendable(s)
  BY DEF Remove, KeepInv, VictimsExpendable
<1>4. Present \ {s} \subseteq Present' /\ Present' \subseteq Present
  BY DEF Remove, Present, TypeOK
<1>5. ASSUME NEW d \in Crawls, At(d, "remove")', NEW t \in snapshot'[d].victims
      PROVE  At(d, "remove") /\ t \in snapshot[d].victims
  <2>1. CASE d # c
    BY <1>5, <2>1 DEF Remove, TypeOK, At
  <2>2. CASE d = c
    <3>1. snapshot[c] \in Removing
      BY PhaseType DEF Remove
    <3>2. snapshot'[c].victims = OthersThan(snapshot[c].victims, s)
      BY <1>5, <2>2, <3>1 DEF Remove, TypeOK, At, Removing
    <3> QED
      BY <1>5, <2>2, <3>2 DEF Remove, OthersThan
  <2> QED
    BY <2>1, <2>2
<1>6. VictimsExpendable'
  BY <1>2, <1>5 DEF KeepInv, VictimsExpendable
<1>7. ASSUME NEW t \in published' \ Present' PROVE Expendable(t)'
  BY <1>1, <1>2, <1>3, <1>4, <1>7 DEF KeepInv
<1> QED
  BY <1>1, <1>4, <1>6, <1>7 DEF KeepInv

LEMMA KeepNext == TypeOK /\ TypeOK' /\ KeepInv /\ [Next]_vars => KeepInv'
<1> SUFFICES ASSUME TypeOK, TypeOK', KeepInv, [Next]_vars PROVE KeepInv'
  OBVIOUS
<1>1. ASSUME NEW c \in Crawls, WriteTarGz(c) PROVE KeepInv'
  <2>1. archive' = archive /\ published' = published /\ unread' = unread
    BY <1>1 DEF WriteTarGz, Create, CreateFails, Discard, Entry, Written,
       WalkFails, Close
  <2>2. \A d \in Crawls \ {c} : snapshot'[d] = snapshot[d]
    BY <1>1 DEF WriteTarGz, Create, CreateFails, Discard, Entry, Written,
       WalkFails, Close, Leave, TypeOK
  <2>3. At(c, "remove")' => At(c, "remove") /\ snapshot'[c] = snapshot[c]
    <3>1. CASE Entry(c)
      <4>1. snapshot[c] \in Walking
        BY <3>1, PhaseType DEF Entry
      <4> QED
        BY <3>1, <4>1 DEF Entry, Written, At, TypeOK, Walking
    <3>2. CASE ~Entry(c)
      BY <1>1, <3>2 DEF WriteTarGz, Create, CreateFails, Discard, WalkFails,
         Close, Leave, TypeOK, At
    <3> QED
      BY <3>1, <3>2
  <2> QED
    BY <2>1, <2>2, <2>3, KeepQuiet DEF At
<1>2. ASSUME NEW c \in Crawls, RenameFails(c) \/ Killed(c) \/ ListFails(c)
      PROVE  KeepInv'
  <2>1. archive' = archive /\ published' = published /\ unread' = unread
    BY <1>2 DEF RenameFails, Killed, ListFails
  <2>2. snapshot' = [snapshot EXCEPT ![c] = Idle]
    BY <1>2 DEF RenameFails, Killed, ListFails, Leave
  <2> QED
    BY <2>1, <2>2, KeepQuiet DEF At, TypeOK
<1>3. CASE UNCHANGED vars
  BY <1>3, KeepQuiet DEF vars, At
<1> QED
  BY <1>1, <1>2, <1>3, KeepRename, KeepList, KeepRemove DEF Next, Prune

\* The newest KeepN archives that were ever published are there, or the newest
\* DefaultKeepN once a prune could not read the site.
THEOREM NewestAreKept == Spec => []NewestKept
<1>1. TypeOK /\ KeepInv => NewestKept
  <2> SUFFICES ASSUME TypeOK, KeepInv, NEW s \in published,
                      Cardinality(Newer(published, s)) < KeepN,
                      unread => Cardinality(Newer(published, s)) < DefaultKeepN
               PROVE  archive[s] # "absent"
    BY DEF NewestKept
  <2>1. s \in Stamps /\ Cardinality(Newer(published, s)) \in Nat
    BY NewerMonotone DEF TypeOK
  <2>2. ~Expendable(s)
    BY <2>1, KeepAssumption DEF Expendable, KeepAssumption
  <2> QED
    BY <2>1, <2>2 DEF KeepInv, Present
<1> QED
  BY <1>1, KeepInit, KeepNext, TypeCorrect, PTL DEF Spec

(***************************************************************************)
(* How much is left.                                                       *)
(***************************************************************************)
\* What an undisturbed prune has left once its victims are gone.
FewLeft ==
    \A c \in Crawls :
        At(c, "remove") /\ snapshot[c].exact
        => Cardinality(Present \ snapshot[c].victims) <= snapshot[c].keep

LEMMA FewInit == Init => FewLeft
BY DEF Init, FewLeft, At

\* A step that publishes nothing and leaves the prunes as they were.
LEMMA FewQuiet ==
    ASSUME TypeOK, FewLeft, NEW d \in Crawls, Present' \subseteq Present,
           At(d, "remove"), snapshot'[d] = snapshot[d], snapshot[d].exact
    PROVE  Cardinality(Present' \ snapshot'[d].victims) <= snapshot'[d].keep
<1>1. PICK before : before = Present \ snapshot[d].victims
  OBVIOUS
<1>2. PICK after : after = Present' \ snapshot[d].victims
  OBVIOUS
<1>3. before \in SUBSET Stamps /\ after \in SUBSET before
  BY <1>1, <1>2 DEF Present
<1>4. /\ Cardinality(after) <= Cardinality(before)
      /\ Cardinality(after) \in Nat /\ Cardinality(before) \in Nat
  BY <1>3, CardMonotone
<1>5. Cardinality(before) <= snapshot[d].keep /\ snapshot[d].keep \in Nat
  BY <1>1, PhaseType, KeepAssumption DEF FewLeft, Removing, KeepAssumption
<1> QED
  BY <1>2, <1>4, <1>5

LEMMA FewNext == TypeOK /\ FewLeft /\ [Next]_vars => FewLeft'
<1> SUFFICES ASSUME TypeOK, FewLeft, [Next]_vars,
                    NEW d \in Crawls, At(d, "remove")', snapshot'[d].exact
             PROVE  Cardinality(Present' \ snapshot'[d].victims)
                      <= snapshot'[d].keep
  BY DEF FewLeft
<1>1. ASSUME NEW c \in Crawls, WriteTarGz(c)
      PROVE  At(d, "remove") /\ snapshot'[d] = snapshot[d] /\ Present' \subseteq Present
  <2>1. archive' = archive
    BY <1>1 DEF WriteTarGz, Create, CreateFails, Discard, Entry, Written,
       WalkFails, Close
  <2>2. CASE Entry(c)
    <3>1. snapshot[c] \in Walking
      BY <2>2, PhaseType DEF Entry
    <3> QED
      BY <2>1, <2>2, <3>1 DEF Entry, Written, At, TypeOK, Walking, Present
  <2>3. CASE ~Entry(c)
    BY <1>1, <2>1, <2>3 DEF WriteTarGz, Create, CreateFails, Discard,
       WalkFails, Close, Leave, TypeOK, At, Present
  <2> QED
    BY <2>2, <2>3
<1>2. ASSUME NEW c \in Crawls, RenameFails(c) \/ Killed(c) \/ ListFails(c)
      PROVE  At(d, "remove") /\ snapshot'[d] = snapshot[d] /\ Present' \subseteq Present
  BY <1>2 DEF RenameFails, Killed, ListFails, Leave, At, TypeOK, Present
<1>3. ASSUME NEW c \in Crawls, Rename(c) PROVE FALSE
  <2>1. d # c
    BY <1>3 DEF Rename, At
  <2>2. At(d, "remove")
    BY <1>3, <2>1 DEF Rename, At
  <2>3. snapshot'[d] = [snapshot[d] EXCEPT !.exact = FALSE]
    BY <1>3, <2>1, <2>2 DEF Rename
  <2> QED
    BY <2>2, <2>3, PhaseType DEF Removing
<1>4. ASSUME NEW c \in Crawls, NEW found \in BOOLEAN, List(c, found)
      PROVE  Cardinality(Present' \ snapshot'[d].victims) <= snapshot'[d].keep
  <2>1. Present' = Present
    BY <1>4 DEF List, Present
  <2>2. CASE d # c
    <3>1. At(d, "remove") /\ snapshot'[d] = snapshot[d]
      BY <1>4, <2>2 DEF List, At, TypeOK
    <3> QED
      BY <2>1, <3>1, FewQuiet
  <2>3. CASE d = c
    <3> DEFINE keep == IF found THEN KeepN ELSE DefaultKeepN
    <3>1. snapshot'[d].keep = keep /\ snapshot'[d].victims = Beyond(Present, keep)
      BY <1>4, <2>3 DEF List, Keep, At, TypeOK
    <3>2. Present \in SUBSET Stamps /\ keep \in Nat \ {0}
      BY KeepAssumption DEF Present, KeepAssumption
    <3> QED
      BY <2>1, <3>1, <3>2, KeptFew
  <2> QED
    BY <2>2, <2>3
<1>5. ASSUME NEW c \in Crawls, NEW s \in Stamps, NEW works \in BOOLEAN,
             Remove(c, s, works)
      PROVE  Cardinality(Present' \ snapshot'[d].victims) <= snapshot'[d].keep
  <2>1. Present' \subseteq Present
    BY <1>5 DEF Remove, Present, TypeOK
  <2>2. CASE d # c
    <3>1. At(d, "remove") /\ snapshot'[d] = snapshot[d]
      BY <1>5, <2>2 DEF Remove, At, TypeOK
    <3> QED
      BY <2>1, <3>1, FewQuiet
  <2>3. CASE d = c
    <3>1. snapshot[c] \in Removing /\ s \in snapshot[c].victims
      BY <1>5, PhaseType DEF Remove
    <3>2. /\ snapshot'[c].victims = snapshot[c].victims \ {s}
          /\ snapshot'[c].keep = snapshot[c].keep
          /\ works /\ snapshot[c].exact
      BY <1>5, <2>3, <3>1 DEF Remove, TypeOK, At, Removing, OthersThan
    <3>3. Present' = Present \ {s}
      BY <1>5, <3>2 DEF Remove, Present, TypeOK
    <3>4. Present' \ snapshot'[c].victims = Present \ snapshot[c].victims
      BY <3>1, <3>2, <3>3
    <3> QED
      BY <1>5, <2>3, <3>2, <3>4 DEF FewLeft, Remove
  <2> QED
    BY <2>2, <2>3
<1>6. CASE UNCHANGED vars
  BY <1>6 DEF vars, FewLeft, Present, At
<1> QED
  BY <1>1, <1>2, <1>3, <1>4, <1>5, <1>6, FewQuiet DEF Next, Prune

\* An undisturbed prune leaves no more than it is to keep.
THEOREM Retention == Spec => RetentionHolds
<1>1. TypeOK /\ FewLeft /\ [Next]_vars
      => [\A c \in Crawls :
             /\ At(c, "remove") /\ snapshot[c].exact
             /\ \E s \in snapshot[c].victims : Remove(c, s, TRUE)
             /\ snapshot'[c] = Idle
             => Cardinality(Present') <= snapshot[c].keep]_vars
  <2> SUFFICES ASSUME TypeOK, FewLeft, NEW c \in Crawls,
                      At(c, "remove"), snapshot[c].exact,
                      NEW s \in snapshot[c].victims, Remove(c, s, TRUE),
                      snapshot'[c] = Idle
               PROVE  Cardinality(Present') <= snapshot[c].keep
    OBVIOUS
  <2>1. snapshot[c] \in Removing
    BY PhaseType
  <2>2. snapshot[c].victims = {s}
    <3> SUFFICES ASSUME snapshot[c].victims \ {s} # {} PROVE FALSE
      OBVIOUS
    <3>1. snapshot'[c] = [snapshot[c] EXCEPT !.victims = snapshot[c].victims \ {s},
                                             !.exact = snapshot[c].exact /\ TRUE]
      BY DEF Remove, TypeOK, OthersThan
    <3>2. snapshot'[c] \in Removing
      BY <2>1, <3>1 DEF Removing
    <3> QED
      BY <3>2, IdleAssumption DEF IdleAssumption
  <2>3. Present' = Present \ {s}
    BY <2>1, <2>2 DEF Remove, Present, TypeOK, Removing
  <2> QED
    BY <2>2, <2>3 DEF FewLeft
<1> QED
  BY <1>1, FewInit, FewNext, TypeCorrect, PTL DEF Spec, RetentionHolds
=============================================================================
