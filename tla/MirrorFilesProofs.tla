------------------------- MODULE MirrorFilesProofs -------------------------
(***************************************************************************)
(* Whole files in the mirror, links that lead where they should, pages     *)
(* that only get newer and passes that settle, for every site, every       *)
(* number of crawls and passes and every bound.                            *)
(***************************************************************************)
EXTENDS MirrorFiles, SequenceTheorems, NaturalsInduction,
        WellFoundedInduction, TLAPS

Fields == {"file", "body", "step", "at"}

\* What a WriteFile under way is.
WriteShape ==
    /\ DOMAIN files = Files /\ DOMAIN tmp = Files
    /\ DOMAIN writing = Writers /\ DOMAIN todo = Passes
    /\ \A p \in Passes : todo[p] # Off =>
          \A f \in todo[p] : f \in Files /\ IsHTMLFile(f)
    /\ \A w \in Writers :
          \/ writing[w] = Quiet
          \/ /\ DOMAIN writing[w] = Fields
             /\ writing[w].file \in Files /\ writing[w].step \in Steps
             /\ At(w, "open") => writing[w].at = "tmp"

Held(w, f) == (At(w, "write") \/ At(w, "rename")) /\ writing[w].file = f

\* A .tmp that one writer at a time has had is as that writer left it.
OwnTmp ==
    /\ \A w \in Writers :
          writing[w] = Quiet \/ writing[w].file \in crossed
          \/ Fits(writing[w].body, writing[w].file)
    /\ \A f \in Files \ crossed :
          \A w \in Writers :
             /\ At(w, "write") /\ writing[w].file = f
                => writing[w].at = "tmp" /\ tmp[f] = No("cut")
             /\ At(w, "rename") /\ writing[w].file = f => Fits(tmp[f], f)
             /\ \A v \in Writers : Held(v, f) /\ Held(w, f) => v = w

WholeInv == WriteShape /\ OwnTmp /\ WholeFiles

LEMMA FileInFiles == \A url \in URLs : FileOf[url] \in Files
BY DEF Files

LEMMA QuietAt == \A w \in Writers : writing[w] = Quiet =>
    ~At(w, "open") /\ ~At(w, "write") /\ ~At(w, "rename")
BY DEF Quiet, At

LEMMA PageFits ==
    ASSUME NEW url \in URLs, NEW fetch, NEW stripped
    PROVE  Fits(PageAt(FileOf[url], url, fetch, stripped), FileOf[url])
BY DEF Fits, PageAt

\* The rewriter leaves what fits fitting, and what it writes is not absent.
LEMMA RewriteFits ==
    ASSUME NEW f, IsHTMLFile(f), NEW body, Fits(body, f)
    PROVE  Fits(RewriteAgain(f, body), f)
<1>1. CASE body.kind = "page" /\ body.of \in HTML
  <2>1. body # No("mangled")
    BY <1>1 DEF No
  <2> QED
    BY <1>1, <2>1 DEF Fits, RewriteAgain
<1>2. CASE ~(body.kind = "page" /\ body.of \in HTML)
  BY <1>2 DEF Fits, RewriteAgain
<1> QED
  BY <1>1, <1>2

LEMMA WholeInit == Init => WholeInv
<1> SUFFICES ASSUME Init PROVE WholeInv
  OBVIOUS
<1>1. PICK old \in OldMirrors :
        files = [f \in Files |->
              IF \E u \in old : FileOf[u] = f
              THEN PageAt(f, CHOOSE u \in old : FileOf[u] = f, 0, FALSE)
              ELSE No("absent")]
  BY DEF Init
<1>2. ASSUME NEW f \in Files
      PROVE  files[f] = No("absent") \/ Fits(files[f], f)
  <2>1. CASE \E u \in old : FileOf[u] = f
    <3> DEFINE u == CHOOSE u \in old : FileOf[u] = f
    <3>1. u \in old /\ FileOf[u] = f
      BY <2>1
    <3>2. u \in URLs
      BY <3>1, OldAssumption DEF OldAssumption
    <3>3. files[f] = PageAt(f, u, 0, FALSE)
      BY <1>1, <2>1
    <3> HIDE DEF u
    <3> QED
      BY <3>1, <3>2, <3>3, PageFits
  <2>2. CASE ~\E u \in old : FileOf[u] = f
    BY <1>1, <2>2
  <2> QED
    BY <2>1, <2>2
<1>3. WriteShape
  BY <1>1, QuietAt DEF Init, WriteShape
<1>4. OwnTmp
  BY QuietAt DEF Init, OwnTmp, Held
<1> QED
  BY <1>2, <1>3, <1>4 DEF WholeInv, WholeFiles

(***************************************************************************)
(* A step in which one writer begins or gives up and no file changes.      *)
(***************************************************************************)
LEMMA WriterOnly ==
    ASSUME WholeInv, NEW w \in Writers, NEW new,
           writing' = [writing EXCEPT ![w] = new],
           \/ new = Quiet
           \/ /\ DOMAIN new = Fields /\ new.file \in Files
              /\ new.step = "open" /\ new.at = "tmp"
              /\ new.file \in crossed \/ Fits(new.body, new.file),
           files' = files, tmp' = tmp, crossed' = crossed,
           DOMAIN todo' = Passes,
           \A p \in Passes : todo'[p] # Off =>
               \A f \in todo'[p] : f \in Files /\ IsHTMLFile(f)
    PROVE  WholeInv'
<1>1. writing'[w] = new /\ \A v \in Writers \ {w} : writing'[v] = writing[v]
  BY DEF WholeInv, WriteShape
<1>2. new.step # "write" /\ new.step # "rename"
  BY DEF Quiet
<1>3. \A v \in Writers :
         writing'[v].step \in {"write", "rename"} =>
            v # w /\ writing'[v] = writing[v]
  BY <1>1, <1>2
<1>4. WriteShape'
  BY <1>1 DEF WholeInv, WriteShape, Steps, At, Quiet
<1>5. OwnTmp'
  BY <1>1, <1>3 DEF WholeInv, OwnTmp, At, Held
<1> QED
  BY <1>4, <1>5 DEF WholeInv, WholeFiles

LEMMA BeginWhole ==
    ASSUME WholeInv, NEW w \in Writers, NEW f \in Files, NEW body,
           Begin(w, f, body), f \in crossed \/ Fits(body, f),
           crossed' = crossed, DOMAIN todo' = Passes,
           \A p \in Passes : todo'[p] # Off =>
               \A g \in todo'[p] : g \in Files /\ IsHTMLFile(g)
    PROVE  WholeInv'
<1> DEFINE record == [file |-> f, body |-> body, step |-> "open", at |-> "tmp"]
<1>1. DOMAIN record = Fields
  BY DEF Fields
<1>2. PICK new \in {record, Quiet} : writing' = [writing EXCEPT ![w] = new]
  BY DEF Begin
<1>3. files' = files /\ tmp' = tmp
  BY DEF Begin
<1>4. CASE new = Quiet
  BY <1>2, <1>3, <1>4, WriterOnly
<1>5. CASE new = record
  <2>1. DOMAIN new = Fields /\ new.file = f /\ new.step = "open" /\ new.at = "tmp"
        /\ new.body = body
    BY <1>1, <1>5
  <2> HIDE DEF record
  <2> QED
    BY <1>2, <1>3, <2>1, WriterOnly
<1> QED
  BY <1>2, <1>4, <1>5

(***************************************************************************)
(* The calls of WriteFile.                                                 *)
(***************************************************************************)
LEMMA OpenWhole == ASSUME WholeInv, NEW w \in Writers, Open(w) PROVE WholeInv'
<1> DEFINE f == writing[w].file
<1>1. f \in Files /\ writing[w].at = "tmp" /\ DOMAIN writing[w] = Fields
      /\ writing[w].step = "open"
  BY QuietAt DEF Open, WholeInv, WriteShape, At
<1>2. /\ writing'[w] = [writing[w] EXCEPT !.step = "write"]
      /\ \A v \in Writers \ {w} : writing'[v] = writing[v]
      /\ DOMAIN writing' = Writers
  BY DEF Open, WholeInv, WriteShape
<1>3. /\ writing'[w].step = "write" /\ writing'[w].file = f
      /\ writing'[w].at = "tmp" /\ writing'[w].body = writing[w].body
      /\ DOMAIN writing'[w] = Fields
  BY <1>1, <1>2 DEF Fields
<1>4. tmp'[f] = No("cut") /\ DOMAIN tmp' = Files
      /\ \A g \in Files \ {f} : tmp'[g] = tmp[g]
  BY <1>1 DEF Open, WholeInv, WriteShape
<1>5. crossed \subseteq crossed' /\ crossed' \subseteq crossed \union {f}
  BY DEF Open
<1>6. f \notin crossed' => \A v \in Writers : ~Held(v, f)
  BY DEF Open, Held
<1>7. files' = files /\ todo' = todo
  BY DEF Open
<1> HIDE DEF f
<1>8. WriteShape'
  <2>1. ASSUME NEW v \in Writers
        PROVE  \/ writing'[v] = Quiet
               \/ /\ DOMAIN writing'[v] = Fields
                  /\ writing'[v].file \in Files /\ writing'[v].step \in Steps
                  /\ At(v, "open")' => writing'[v].at = "tmp"
    <3>1. CASE v = w
      BY <1>1, <1>3, <3>1 DEF Steps
    <3>2. CASE v # w
      BY <1>2, <3>2 DEF WholeInv, WriteShape, At
    <3> QED
      BY <3>1, <3>2
  <2>2. /\ DOMAIN files' = Files /\ DOMAIN todo' = Passes
        /\ \A p \in Passes : todo'[p] # Off =>
              \A g \in todo'[p] : g \in Files /\ IsHTMLFile(g)
    BY <1>7 DEF WholeInv, WriteShape
  <2> QED
    BY <1>2, <1>4, <2>1, <2>2 DEF WriteShape
<1>9. ASSUME NEW v \in Writers
      PROVE  writing'[v] = Quiet \/ writing'[v].file \in crossed'
             \/ Fits(writing'[v].body, writing'[v].file)
  <2>1. CASE v = w
    <3>1. writing[w] # Quiet
      BY <1>1 DEF Quiet
    <3> QED
      BY <1>3, <1>5, <2>1, <3>1 DEF WholeInv, OwnTmp, f
  <2>2. CASE v # w
    BY <1>2, <1>5, <2>2 DEF WholeInv, OwnTmp
  <2> QED
    BY <2>1, <2>2
<1>10. ASSUME NEW g \in Files \ crossed', NEW v \in Writers
       PROVE  /\ At(v, "write")' /\ writing'[v].file = g
                 => writing'[v].at = "tmp" /\ tmp'[g] = No("cut")
              /\ At(v, "rename")' /\ writing'[v].file = g => Fits(tmp'[g], g)
              /\ \A u \in Writers : Held(u, g)' /\ Held(v, g)' => u = v
  <2>1. CASE g = f
    <3>1. \A u \in Writers \ {w} : ~Held(u, g)'
      BY <1>2, <1>6, <2>1 DEF Held, At
    <3> QED
      BY <1>3, <1>4, <2>1, <3>1 DEF Held, At
  <2>2. CASE g # f
    <3>1. g \in Files \ crossed
      BY <1>5
    <3>2. ~Held(w, g)'
      BY <1>3, <2>2 DEF Held
    <3>3. tmp'[g] = tmp[g]
      BY <1>4, <2>2
    <3>4. \A u \in Writers : Held(u, g)' => Held(u, g) /\ writing'[u] = writing[u]
      BY <1>2, <3>2 DEF Held, At
    <3> QED
      BY <3>1, <3>3, <3>4 DEF WholeInv, OwnTmp, Held, At
  <2> QED
    BY <2>1, <2>2
<1>11. OwnTmp'
  BY <1>9, <1>10 DEF OwnTmp
<1>12. WholeFiles'
  BY <1>5, <1>7 DEF WholeInv, WholeFiles
<1> QED
  BY <1>8, <1>11, <1>12 DEF WholeInv

LEMMA WriteWhole == ASSUME WholeInv, NEW w \in Writers, Write(w) PROVE WholeInv'
<1> DEFINE f == writing[w].file
<1>1. /\ f \in Files /\ DOMAIN writing[w] = Fields
      /\ writing[w].step = "write"
  BY QuietAt DEF Write, WholeInv, WriteShape, At
<1>2. /\ writing'[w] = [writing[w] EXCEPT !.step = "rename", !.at = "tmp"]
      /\ \A v \in Writers \ {w} : writing'[v] = writing[v]
      /\ DOMAIN writing' = Writers
  BY DEF Write, WholeInv, WriteShape
<1>3. /\ writing'[w].step = "rename" /\ writing'[w].file = f
      /\ writing'[w].at = "tmp" /\ writing'[w].body = writing[w].body
      /\ DOMAIN writing'[w] = Fields
  BY <1>1, <1>2 DEF Fields
<1>4. /\ DOMAIN tmp' = Files /\ DOMAIN files' = Files
      /\ \A g \in Files \ {f} : tmp'[g] = tmp[g] /\ files'[g] = files[g]
  BY <1>1 DEF Write, WholeInv, WriteShape
<1>5. todo' = todo /\ crossed' = crossed
  BY DEF Write
<1>6. ASSUME f \notin crossed
      PROVE  tmp'[f] = writing[w].body /\ files'[f] = files[f]
  <2>1. writing[w].at = "tmp" /\ tmp[f] = No("cut")
    BY <1>1, <1>6 DEF WholeInv, OwnTmp, At
  <2>2. Over(tmp[f], writing[w].body) = {writing[w].body}
    BY <2>1 DEF Over
  <2> QED
    BY <1>1, <2>1, <2>2 DEF Write, WholeInv, WriteShape
<1>7. writing[w] # Quiet
  BY <1>1 DEF Quiet
<1>8. f \in crossed \/ Fits(writing[w].body, f)
  BY <1>7 DEF WholeInv, OwnTmp
<1> HIDE DEF f
<1>9. WriteShape'
  <2>1. ASSUME NEW v \in Writers
        PROVE  \/ writing'[v] = Quiet
               \/ /\ DOMAIN writing'[v] = Fields
                  /\ writing'[v].file \in Files /\ writing'[v].step \in Steps
                  /\ At(v, "open")' => writing'[v].at = "tmp"
    <3>1. CASE v = w
      BY <1>1, <1>3, <3>1 DEF Steps
    <3>2. CASE v # w
      BY <1>2, <3>2 DEF WholeInv, WriteShape, At
    <3> QED
      BY <3>1, <3>2
  <2>2. \A p \in Passes : todo'[p] # Off =>
            \A g \in todo'[p] : g \in Files /\ IsHTMLFile(g)
    BY <1>5 DEF WholeInv, WriteShape
  <2>3. DOMAIN todo' = Passes
    BY <1>5 DEF WholeInv, WriteShape
  <2> QED
    BY <1>2, <1>4, <2>1, <2>2, <2>3 DEF WriteShape
<1>10. ASSUME NEW v \in Writers
       PROVE  writing'[v] = Quiet \/ writing'[v].file \in crossed'
              \/ Fits(writing'[v].body, writing'[v].file)
  <2>1. CASE v = w
    BY <1>3, <1>5, <1>8, <2>1
  <2>2. CASE v # w
    BY <1>2, <1>5, <2>2 DEF WholeInv, OwnTmp
  <2> QED
    BY <2>1, <2>2
<1>11. \A u \in Writers : \A g \in Files : Held(u, g)' => Held(u, g)
  <2>1. Held(w, f)
    BY <1>1 DEF Held, At, f
  <2>2. \A g \in Files : Held(w, g)' => g = f
    BY <1>3 DEF Held
  <2>3. \A u \in Writers \ {w} : \A g \in Files : Held(u, g)' => Held(u, g)
    <3>1. \A u \in Writers \ {w} : writing'[u] = writing[u]
      BY <1>2
    <3> QED
      BY <3>1 DEF Held, At
  <2> QED
    BY <2>1, <2>2, <2>3
<1>12. ASSUME NEW g \in Files \ crossed', NEW v \in Writers
       PROVE  /\ At(v, "write")' /\ writing'[v].file = g
                 => writing'[v].at = "tmp" /\ tmp'[g] = No("cut")
              /\ At(v, "rename")' /\ writing'[v].file = g => Fits(tmp'[g], g)
              /\ \A u \in Writers : Held(u, g)' /\ Held(v, g)' => u = v
  <2>1. \A u \in Writers : Held(u, g)' /\ Held(v, g)' => u = v
    BY <1>5, <1>11 DEF WholeInv, OwnTmp
  <2>2. CASE g = f
    <3>1. Held(w, g)'
      BY <1>3, <2>2 DEF Held, At
    <3>2. ASSUME v # w, writing'[v].file = g
          PROVE  ~At(v, "write")' /\ ~At(v, "rename")'
      BY <2>1, <3>1, <3>2 DEF Held
    <3>3. tmp'[g] = writing[w].body /\ Fits(writing[w].body, g)
      BY <1>5, <1>6, <1>8, <2>2
    <3> QED
      BY <1>3, <2>1, <3>2, <3>3 DEF At
  <2>3. CASE g # f
    <3>1. v = w => ~(writing'[v].file = g)
      BY <1>3, <2>3
    <3>2. v # w => writing'[v] = writing[v]
      BY <1>2
    <3>3. tmp'[g] = tmp[g]
      BY <1>4, <2>3
    <3> QED
      BY <1>5, <2>1, <3>1, <3>2, <3>3 DEF WholeInv, OwnTmp, At
  <2> QED
    BY <2>2, <2>3
<1>13. OwnTmp'
  BY <1>10, <1>12 DEF OwnTmp
<1>14. WholeFiles'
  BY <1>4, <1>5, <1>6 DEF WholeInv, WholeFiles
<1> QED
  BY <1>9, <1>13, <1>14 DEF WholeInv

LEMMA RenameWhole == ASSUME WholeInv, NEW w \in Writers, Rename(w) PROVE WholeInv'
<1> DEFINE f == writing[w].file
<1>1. /\ f \in Files /\ DOMAIN writing[w] = Fields
      /\ writing[w].step = "rename"
  BY QuietAt DEF Rename, WholeInv, WriteShape, At
<1>2. /\ DOMAIN tmp' = Files /\ DOMAIN files' = Files
      /\ \A g \in Files \ {f} : tmp'[g] = tmp[g] /\ files'[g] = files[g]
      /\ files'[f] = tmp[f]
  BY <1>1 DEF Rename, Publish, WholeInv, WriteShape
<1>3. todo' = todo /\ crossed' = crossed
  BY DEF Rename, Publish
<1>4. /\ DOMAIN writing' = Writers /\ writing'[w] = Quiet
      /\ \A v \in Writers \ {w} :
            ~(At(v, "write") /\ writing[v].file = f) => writing'[v] = writing[v]
  BY DEF Rename, Publish
<1>5. ASSUME NEW v \in Writers \ {w}, At(v, "write") /\ writing[v].file = f
      PROVE  /\ writing[v] # Quiet
             /\ writing'[v].step = "write" /\ writing'[v].file = f
             /\ writing'[v].body = writing[v].body
             /\ DOMAIN writing'[v] = Fields
  <2>1. writing'[v] = [writing[v] EXCEPT !.at =
                          IF writing[v].at = "tmp" THEN "file" ELSE "gone"]
    BY <1>5 DEF Rename, Publish
  <2>2. DOMAIN writing[v] = Fields /\ writing[v] # Quiet
    BY <1>5, QuietAt DEF WholeInv, WriteShape
  <2> QED
    BY <1>5, <2>1, <2>2 DEF Fields, At
<1>6. f \notin crossed => Fits(tmp[f], f)
  BY <1>1 DEF WholeInv, OwnTmp, At
<1>7. f \notin crossed => \A v \in Writers \ {w} : ~Held(v, f)
  <2>1. Held(w, f)
    BY <1>1 DEF Held, At
  <2> QED
    BY <1>1, <2>1 DEF WholeInv, OwnTmp
<1> HIDE DEF f
<1>8. WriteShape'
  <2>1. ASSUME NEW v \in Writers
        PROVE  \/ writing'[v] = Quiet
               \/ /\ DOMAIN writing'[v] = Fields
                  /\ writing'[v].file \in Files /\ writing'[v].step \in Steps
                  /\ At(v, "open")' => writing'[v].at = "tmp"
    <3>1. CASE v = w
      BY <1>4, <3>1
    <3>2. CASE v # w /\ At(v, "write") /\ writing[v].file = f
      BY <1>1, <1>5, <3>2 DEF Steps, At
    <3>3. CASE v # w /\ ~(At(v, "write") /\ writing[v].file = f)
      <4>1. writing'[v] = writing[v]
        BY <1>4, <3>3
      <4> QED
        BY <4>1 DEF WholeInv, WriteShape, At
    <3> QED
      BY <3>1, <3>2, <3>3
  <2>2. \A p \in Passes : todo'[p] # Off =>
            \A g \in todo'[p] : g \in Files /\ IsHTMLFile(g)
    BY <1>3 DEF WholeInv, WriteShape
  <2>3. DOMAIN todo' = Passes
    BY <1>3 DEF WholeInv, WriteShape
  <2> QED
    BY <1>2, <1>4, <2>1, <2>2, <2>3 DEF WriteShape
<1>9. ASSUME NEW v \in Writers
      PROVE  writing'[v] = Quiet \/ writing'[v].file \in crossed'
             \/ Fits(writing'[v].body, writing'[v].file)
  <2>1. CASE v = w
    BY <1>4, <2>1
  <2>2. CASE v # w /\ At(v, "write") /\ writing[v].file = f
    <3>1. writing[v].file \in crossed \/ Fits(writing[v].body, writing[v].file)
      BY <1>5, <2>2 DEF WholeInv, OwnTmp
    <3> QED
      BY <1>3, <1>5, <2>2, <3>1
  <2>3. CASE v # w /\ ~(At(v, "write") /\ writing[v].file = f)
    <3>1. writing'[v] = writing[v]
      BY <1>4, <2>3
    <3> QED
      BY <1>3, <3>1 DEF WholeInv, OwnTmp
  <2> QED
    BY <2>1, <2>2, <2>3
<1>10. ASSUME NEW g \in Files \ crossed', NEW v \in Writers, Held(v, g)'
       PROVE  g # f /\ Held(v, g) /\ writing'[v] = writing[v]
  <2>1. v # w
    BY <1>4, <1>10 DEF Held, At, Quiet
  <2>2. ~(At(v, "write") /\ writing[v].file = f)
    <3> SUFFICES ASSUME At(v, "write") /\ writing[v].file = f PROVE FALSE
      OBVIOUS
    <3>1. g = f
      BY <1>5, <1>10, <2>1 DEF Held
    <3> QED
      BY <1>3, <1>7, <2>1, <3>1 DEF Held
  <2>3. writing'[v] = writing[v]
    BY <1>4, <2>1, <2>2
  <2>4. Held(v, g)
    BY <1>10, <2>3 DEF Held, At
  <2>5. g # f
    BY <1>3, <1>7, <2>1, <2>4
  <2> QED
    BY <2>3, <2>4, <2>5
<1>11. ASSUME NEW g \in Files \ crossed', NEW v \in Writers
       PROVE  /\ At(v, "write")' /\ writing'[v].file = g
                 => writing'[v].at = "tmp" /\ tmp'[g] = No("cut")
              /\ At(v, "rename")' /\ writing'[v].file = g => Fits(tmp'[g], g)
              /\ \A u \in Writers : Held(u, g)' /\ Held(v, g)' => u = v
  <2>1. \A u \in Writers : Held(u, g)' /\ Held(v, g)' => u = v
    BY <1>3, <1>10 DEF WholeInv, OwnTmp
  <2>2. CASE Held(v, g)'
    <3>1. tmp'[g] = tmp[g] /\ writing'[v] = writing[v]
      BY <1>2, <1>10, <2>2
    <3> QED
      BY <1>3, <2>1, <3>1 DEF WholeInv, OwnTmp, At
  <2>3. CASE ~Held(v, g)'
    BY <2>1, <2>3 DEF Held
  <2> QED
    BY <2>2, <2>3
<1>12. OwnTmp'
  BY <1>9, <1>11 DEF OwnTmp
<1>13. WholeFiles'
  BY <1>2, <1>3, <1>6 DEF WholeInv, WholeFiles
<1> QED
  BY <1>8, <1>12, <1>13 DEF WholeInv

(***************************************************************************)
(* Crawls and passes.                                                      *)
(***************************************************************************)
\* A step that leaves the mirror and its writers alone.
LEMMA QuietStep ==
    ASSUME WholeInv, UNCHANGED <<files, tmp, writing, crossed>>,
           DOMAIN todo' = Passes,
           \A p \in Passes : todo'[p] # Off =>
               \A f \in todo'[p] : f \in Files /\ IsHTMLFile(f)
    PROVE  WholeInv'
<1>1. WriteShape'
  BY DEF WholeInv, WriteShape, At
<1>2. OwnTmp'
  BY DEF WholeInv, OwnTmp, Held, At
<1> QED
  BY <1>1, <1>2 DEF WholeInv, WholeFiles

LEMMA FetchWhole ==
    ASSUME WholeInv, NEW c \in Crawls, NEW url \in URLs, Fetch(c, url)
    PROVE  WholeInv'
<1> DEFINE body == PageAt(FileOf[url], url, fetches + 1, url \in HTML)
<1>1. Begin(c, FileOf[url], body) /\ crossed' = crossed /\ todo' = todo
  BY DEF Fetch
<1>2. Fits(body, FileOf[url])
  BY PageFits
<1> HIDE DEF body
<1>3. c \in Writers /\ FileOf[url] \in Files
  BY FileInFiles DEF Writers
<1>4. DOMAIN todo' = Passes
      /\ \A p \in Passes : todo'[p] # Off =>
            \A g \in todo'[p] : g \in Files /\ IsHTMLFile(g)
  BY <1>1 DEF WholeInv, WriteShape
<1> QED
  BY <1>1, <1>2, <1>3, <1>4, BeginWhole

LEMMA VisitWhole ==
    ASSUME WholeInv, NEW p \in Passes, NEW file \in Files, Visit(p, file)
    PROVE  WholeInv'
<1> DEFINE out == RewriteAgain(file, files[file])
<1>1. /\ crossed' = crossed /\ todo' = [todo EXCEPT ![p] = todo[p] \ {file}]
      /\ todo[p] # Off /\ file \in todo[p]
      /\ \/ UNCHANGED <<files, tmp, writing>>
         \/ files[file] # No("absent") /\ Begin(p, file, out)
  BY DEF Visit, disk
<1>2. IsHTMLFile(file)
  BY <1>1 DEF WholeInv, WriteShape
<1>3. file \in crossed \/ files[file] = No("absent") \/ Fits(out, file)
  <2>1. file \in crossed \/ files[file] = No("absent") \/ Fits(files[file], file)
    BY DEF WholeInv, WholeFiles
  <2> QED
    BY <1>2, <2>1, RewriteFits
<1> HIDE DEF out
<1>4. /\ DOMAIN todo' = Passes
      /\ \A q \in Passes : todo'[q] # Off =>
            \A g \in todo'[q] : g \in Files /\ IsHTMLFile(g)
  <2>1. DOMAIN todo' = Passes /\ todo'[p] = todo[p] \ {file}
        /\ \A q \in Passes \ {p} : todo'[q] = todo[q]
    BY <1>1 DEF WholeInv, WriteShape
  <2> QED
    BY <1>1, <2>1 DEF WholeInv, WriteShape
<1>5. p \in Writers
  BY DEF Writers
<1> QED
  BY <1>1, <1>3, <1>4, <1>5, BeginWhole, QuietStep

LEMMA WholeNext == WholeInv /\ [Next]_vars => WholeInv'
<1> SUFFICES ASSUME WholeInv, [Next]_vars PROVE WholeInv'
  OBVIOUS
<1> USE DEF Writers
<1> DEFINE Ahead == /\ DOMAIN todo = Passes
                    /\ \A p \in Passes : todo[p] # Off =>
                          \A f \in todo[p] : f \in Files /\ IsHTMLFile(f)
<1>1. Ahead
  BY DEF WholeInv, WriteShape
<1>2. ASSUME NEW w \in Writers, WriteFails(w) PROVE WholeInv'
  <2>1. Ahead'
    BY <1>1, <1>2 DEF WriteFails
  <2> HIDE DEF Ahead
  <2>2. DOMAIN todo' = Passes
        /\ \A p \in Passes : todo'[p] # Off =>
              \A f \in todo'[p] : f \in Files /\ IsHTMLFile(f)
    BY <2>1 DEF Ahead
  <2> QED
    BY <1>2, <2>2, WriterOnly DEF WriteFails, disk
<1>3. ASSUME NEW c \in Crawls, StartCrawl(c) PROVE WholeInv'
  BY <1>1, <1>3, QuietStep DEF StartCrawl, Site!Start, disk
<1>4. ASSUME NEW c \in Crawls, EndCrawl(c) PROVE WholeInv'
  BY <1>1, <1>4, QuietStep DEF EndCrawl, Site!End, disk
<1>5. ASSUME NEW c \in Crawls, CrawlKilled(c) PROVE WholeInv'
  BY <1>1, <1>5, WriterOnly DEF CrawlKilled, Site!End, disk
<1>6. ASSUME NEW p \in Passes, NEW found \in BOOLEAN, StartPass(p, found)
      PROVE  WholeInv'
  <2>1. Ahead'
    BY <1>1, <1>6 DEF StartPass
  <2> QED
    BY <1>6, <2>1, QuietStep DEF StartPass, disk
<1>7. ASSUME NEW p \in Passes, PassEnds(p) PROVE WholeInv'
  <2>1. Ahead'
    BY <1>1, <1>7 DEF PassEnds
  <2> QED
    BY <1>7, <2>1, QuietStep DEF PassEnds, disk
<1>8. ASSUME NEW p \in Passes, PassLost(p) PROVE WholeInv'
  <2>1. Ahead'
    BY <1>1, <1>8 DEF PassLost
  <2> QED
    BY <1>8, <2>1, WriterOnly DEF PassLost, disk
<1>9. ASSUME RowOpened \/ RowClosed PROVE WholeInv'
  BY <1>1, <1>9, QuietStep
     DEF RowOpened, Site!RowOpened, RowClosed, Site!RowClosed, disk
<1>10. ASSUME UNCHANGED vars PROVE WholeInv'
  BY <1>1, <1>10, QuietStep DEF vars, disk
<1> QED
  BY <1>2, <1>3, <1>4, <1>5, <1>6, <1>7, <1>8, <1>9, <1>10, OpenWhole,
     WriteWhole, RenameWhole, FetchWhole, VisitWhole DEF Next, WriteFile

(***************************************************************************)
(* The mirror never shows a cut or mixed file, or one under the name of    *)
(* another, whoever dies or fails while it is written.                     *)
(***************************************************************************)
THEOREM FilesAreWhole == Spec => []WholeFiles
<1>1. WholeInv => WholeFiles
  BY DEF WholeInv
<1> QED
  BY WholeInit, WholeNext, <1>1, PTL DEF Spec

(***************************************************************************)
(* Paths and links.                                                        *)
(***************************************************************************)
\* What holds of 0 and of each next number holds of all: a set in place of the
\* predicate, which the provers cannot instantiate.
LEMMA Induction ==
    ASSUME NEW T, 0 \in T, \A n \in Nat : n \in T => n + 1 \in T
    PROVE  Nat \subseteq T
<1> SUFFICES ASSUME NEW k \in Nat \ T PROVE FALSE
  OBVIOUS
<1>1. PICK n \in Nat \ T : \A m \in Nat \ T : <<m, n>> \notin OpToRel(<, Nat)
  BY NatLessThanWellFounded, WFMin
<1>2. \A m \in Nat \ T : ~(m < n)
  BY <1>1 DEF OpToRel
<1>3. n # 0 /\ n - 1 \in Nat /\ n - 1 < n /\ n = (n - 1) + 1
  OBVIOUS
<1> QED
  BY <1>2, <1>3

\* FoldLeft goes over the indices of the path, the greatest one first.
Folded(s, path, iter) ==
    IF s = {} THEN <<>> ELSE CleanStep(iter[s \ {Max(s)}], path[Max(s)])
IsFold(iter, path, n) == iter = [s \in SUBSET (1 .. n) |-> Folded(s, path, iter)]

LEMMA CleanIs ==
    ASSUME NEW S, NEW path \in Seq(S)
    PROVE  Clean(path) = (CHOOSE iter : IsFold(iter, path, Len(path)))[1 .. Len(path)]
<1>1. DOMAIN path = 1 .. Len(path)
  OBVIOUS
<1> QED
BY <1>1 DEF Clean, FoldLeft, MapThenFoldSet, IsFold, Folded

LEMMA MaxIs ==
    ASSUME NEW n \in Nat, NEW s \in SUBSET (1 .. n), n \in s PROVE Max(s) = n
<1>1. \A y \in s : n >= y
  OBVIOUS
<1>2. ASSUME NEW x \in s, \A y \in s : x >= y PROVE x = n
  BY <1>2
<1> QED
  BY <1>1, <1>2 DEF Max

LEMMA FoldExists ==
    ASSUME NEW path PROVE \A n \in Nat : \E iter : IsFold(iter, path, n)
<1> DEFINE T == {n \in Nat : \E iter : IsFold(iter, path, n)}
<1>1. 0 \in T
  <2> DEFINE iter == [s \in SUBSET (1 .. 0) |-> <<>>]
  <2>1. 1 .. 0 = {}
    OBVIOUS
  <2>2. \A s \in SUBSET (1 .. 0) : Folded(s, path, iter) = <<>>
    BY <2>1 DEF Folded
  <2> HIDE DEF iter
  <2>3. iter = [s \in SUBSET (1 .. 0) |-> Folded(s, path, iter)]
    BY <2>2 DEF iter
  <2> QED
    BY <2>3 DEF IsFold
<1>2. ASSUME NEW n \in Nat, n \in T PROVE n + 1 \in T
  <2>1. PICK old : IsFold(old, path, n)
    BY <1>2
  <2> DEFINE m == n + 1
             iter == [s \in SUBSET (1 .. m) |->
                        IF m \in s THEN CleanStep(old[s \ {m}], path[m])
                        ELSE old[s]]
  <2>2. m \in Nat /\ \A s \in SUBSET (1 .. m) : s \ {m} \in SUBSET (1 .. n)
    OBVIOUS
  <2>0. \A s \in SUBSET (1 .. n) : s \in SUBSET (1 .. m) /\ m \notin s
    OBVIOUS
  <2> HIDE DEF m
  <2>3. \A s \in SUBSET (1 .. n) : iter[s] = old[s]
    BY <2>0
  <2>4. ASSUME NEW s \in SUBSET (1 .. m)
        PROVE  iter[s] = Folded(s, path, iter)
    <3>1. CASE m \in s
      <4>1. Max(s) = m /\ s # {}
        BY <2>2, <3>1, MaxIs
      <4>2. iter[s] = CleanStep(old[s \ {m}], path[m])
        BY <3>1
      <4>3. iter[s \ {m}] = old[s \ {m}]
        BY <2>2, <2>3
      <4> HIDE DEF iter
      <4> QED
        BY <4>1, <4>2, <4>3 DEF Folded
    <3>2. CASE m \notin s
      <4>1. s \in SUBSET (1 .. n)
        BY <2>2, <3>2
      <4>2. iter[s] = old[s] /\ old[s] = Folded(s, path, old)
        BY <2>1, <2>3, <4>1 DEF IsFold
      <4>3. s \ {Max(s)} \in SUBSET (1 .. n)
        BY <4>1
      <4>4. iter[s \ {Max(s)}] = old[s \ {Max(s)}]
        BY <2>3, <4>3
      <4> HIDE DEF iter
      <4> QED
        BY <4>2, <4>4 DEF Folded
    <3> QED
      BY <3>1, <3>2
  <2>5. IsFold(iter, path, m)
    <3>1. DOMAIN iter = SUBSET (1 .. m)
      OBVIOUS
    <3>2. iter = [s \in DOMAIN iter |-> iter[s]]
      OBVIOUS
    <3> HIDE DEF iter
    <3> QED
      BY <2>4, <3>1, <3>2 DEF IsFold
  <2> QED
    BY <2>2, <2>5 DEF m
<1> HIDE DEF T
<1>3. Nat \subseteq T
  BY <1>1, <1>2, Induction
<1> QED
  BY <1>3 DEF T

\* Clean goes through the names of a path one by one.
LEMMA CleanSteps ==
    ASSUME NEW S, NEW path \in Seq(S)
    PROVE  \E done :
              /\ done[0] = <<>> /\ Clean(path) = done[Len(path)]
              /\ \A i \in 1 .. Len(path) : done[i] = CleanStep(done[i - 1], path[i])
<1> DEFINE n == Len(path)
           iter == CHOOSE iter : IsFold(iter, path, n)
           done == [i \in 0 .. n |-> iter[1 .. i]]
<1>1. n \in Nat
  OBVIOUS
<1>2. Clean(path) = iter[1 .. n]
  BY CleanIs
<1> HIDE DEF n
<1>3. IsFold(iter, path, n)
  BY <1>1, FoldExists
<1> HIDE DEF iter
<1>4. ASSUME NEW i \in 1 .. n PROVE iter[1 .. i] = CleanStep(iter[1 .. i - 1], path[i])
  <2>1. i \in Nat /\ 1 <= i /\ i <= n
    BY <1>1
  <2>2. i \in 1 .. i /\ \A j \in 1 .. i : j \in 1 .. n
    BY <1>1, <2>1
  <2>3. 1 .. i \in SUBSET (1 .. n) /\ 1 .. i # {}
    BY <2>2
  <2>4. Max(1 .. i) = i
    BY <2>1, <2>2, MaxIs
  <2>5. (1 .. i) \ {i} = 1 .. i - 1
    BY <2>1
  <2>6. iter[1 .. i] = Folded(1 .. i, path, iter)
    BY <1>3, <2>3 DEF IsFold
  <2> QED
    BY <2>3, <2>4, <2>5, <2>6 DEF Folded
<1>5. iter[1 .. 0] = <<>>
  <2>1. 1 .. 0 = {} /\ 1 .. 0 \in SUBSET (1 .. n)
    OBVIOUS
  <2> QED
    BY <1>3, <2>1 DEF IsFold, Folded
<1>6. done[0] = <<>> /\ done[n] = iter[1 .. n]
  BY <1>1, <1>5
<1>7. \A i \in 1 .. n : done[i] = CleanStep(done[i - 1], path[i])
  BY <1>1, <1>4
<1> HIDE DEF done
<1>8. /\ done[0] = <<>> /\ Clean(path) = done[Len(path)]
      /\ \A i \in 1 .. Len(path) : done[i] = CleanStep(done[i - 1], path[i])
  BY <1>2, <1>6, <1>7 DEF n
<1> QED
  BY <1>8, Zenon

LEMMA FrontOf ==
    ASSUME NEW S, NEW s \in Seq(S), s # <<>>
    PROVE  /\ Front(s) \in Seq(S) /\ Len(Front(s)) = Len(s) - 1
           /\ \A i \in 1 .. Len(s) - 1 : Front(s)[i] = s[i]
           /\ Last(s) \in S
           /\ s = Append(Front(s), Last(s))
<1> DEFINE n == Len(s) - 1
           front == SubSeq(s, 1, n)
<1>1. n \in Nat /\ Len(s) = n + 1 /\ n + 1 \in 1 .. Len(s)
  OBVIOUS
<1>2. front \in Seq(S) /\ Len(front) = n /\ \A i \in 1 .. n : front[i] = s[i]
  <2>1. 1 \in Int /\ n \in Int /\ \A i \in 1 .. n : s[i] \in S
    BY <1>1
  <2>2. /\ SubSeq(s, 1, n) \in Seq(S)
        /\ Len(SubSeq(s, 1, n)) = IF 1 <= n THEN n - 1 + 1 ELSE 0
        /\ \A i \in 1 .. n - 1 + 1 : SubSeq(s, 1, n)[i] = s[1 + i - 1]
    BY <2>1, SubSeqProperties
  <2> HIDE DEF n, front
  <2>3. Len(SubSeq(s, 1, n)) = n
    BY <1>1, <2>2
  <2>4. \A i \in 1 .. n : i \in 1 .. n - 1 + 1 /\ 1 + i - 1 = i
    BY <1>1
  <2> QED
    BY <2>2, <2>3, <2>4 DEF front
<1>0. s[n + 1] \in S
  BY <1>1
<1> HIDE DEF front, n
<1>3. s = Append(front, s[n + 1])
  <2> DEFINE last == s[n + 1]
  <2>0. last \in S
    BY <1>0
  <2>1. Append(front, s[n + 1]) \in Seq(S) /\ Len(Append(front, s[n + 1])) = n + 1
    <3> HIDE DEF last
    <3>1. Append(front, last) \in Seq(S) /\ Len(Append(front, last)) = n + 1
      BY <1>1, <1>2, <2>0
    <3> QED
      BY <3>1 DEF last
  <2>2. \A i \in 1 .. n + 1 : Append(front, s[n + 1])[i] = s[i]
    BY <1>1, <1>2
  <2> QED
    BY <1>1, <2>1, <2>2, SeqEqual
<1> QED
  BY <1>0, <1>1, <1>2, <1>3 DEF Front, Last, front, n

Named(name) == name[1] # Here /\ name[1] # Up

\* What Clean returns has no dots, and it has nothing to do where there are none.
LEMMA CleanPath ==
    ASSUME NEW S, NEW path \in Seq(S)
    PROVE  /\ Clean(path) \in Seq({name \in S : Named(name)})
           /\ (\A i \in 1 .. Len(path) : Named(path[i])) => Clean(path) = path
           /\ path # <<>> /\ Named(Last(path)) =>
                 Clean(path) # <<>> /\ Last(Clean(path)) = Last(path)
<1> DEFINE n == Len(path)
           Good == {name \in S : Named(name)}
<1>1. PICK done :
        /\ done[0] = <<>> /\ Clean(path) = done[n]
        /\ \A i \in 1 .. n : done[i] = CleanStep(done[i - 1], path[i])
  BY CleanSteps
<1>2. n \in Nat /\ path \in Seq(S) /\ \A i \in 1 .. n : path[i] \in S
  OBVIOUS
<1> HIDE DEF n
<1>3. \A i \in Nat : i + 1 <= n => i <= n /\ i + 1 \in 1 .. n /\ (i + 1) - 1 = i
  BY <1>2
<1>4. ASSUME NEW s \in Seq(Good), NEW name \in S
      PROVE  CleanStep(s, name) \in Seq(Good)
  <2>1. s # <<>> => Front(s) \in Seq(Good)
    BY FrontOf
  <2>2. Named(name) => Append(s, name) \in Seq(Good)
    OBVIOUS
  <2> HIDE DEF Good
  <2> QED
    BY <2>1, <2>2 DEF CleanStep, Named
<1>5. \A i \in Nat : i <= n => done[i] \in Seq(Good)
  <2> DEFINE T == {i \in Nat : i <= n => done[i] \in Seq(Good)}
  <2>1. 0 \in T
    <3>1. <<>> \in Seq(Good)
      OBVIOUS
    <3> HIDE DEF Good
    <3> QED
      BY <1>1, <3>1
  <2>2. ASSUME NEW i \in Nat, i \in T PROVE i + 1 \in T
    <3> SUFFICES ASSUME i + 1 <= n PROVE done[i + 1] \in Seq(Good)
      OBVIOUS
    <3>1. i <= n /\ i + 1 \in 1 .. n /\ (i + 1) - 1 = i
      BY <1>3
    <3>2. done[i + 1] = CleanStep(done[i], path[i + 1])
      BY <1>1, <3>1
    <3>3. done[i] \in Seq(Good) /\ path[i + 1] \in S
      BY <1>2, <2>2, <3>1
    <3> HIDE DEF Good
    <3> QED
      BY <1>4, <3>2, <3>3
  <2> HIDE DEF T
  <2>3. Nat \subseteq T
    BY <2>1, <2>2, Induction
  <2> QED
    BY <2>3 DEF T
<1>6. Clean(path) \in Seq(Good)
  <2>1. n <= n
    BY <1>2
  <2> QED
    BY <1>1, <1>2, <1>5, <2>1
<1> HIDE DEF Good
<1>7. ASSUME \A i \in 1 .. n : Named(path[i])
      PROVE  Clean(path) = path
  <2> DEFINE Part(i) == SubSeq(path, 1, i)
             T == {i \in Nat : i <= n => done[i] = Part(i)}
  <2>1. 0 \in T
    <3>1. SubSeq(path, 1, 0) = <<>>
      OBVIOUS
    <3> QED
      BY <1>1, <3>1
  <2>2. ASSUME NEW i \in Nat, i \in T PROVE i + 1 \in T
    <3> SUFFICES ASSUME i + 1 <= n PROVE done[i + 1] = Part(i + 1)
      OBVIOUS
    <3>1. i <= n /\ i + 1 \in 1 .. n /\ (i + 1) - 1 = i
      BY <1>3
    <3>2. done[i + 1] = CleanStep(done[i], path[i + 1])
      BY <1>1, <3>1
    <3>3. done[i] = Part(i)
      BY <2>2, <3>1
    <3>4. done[i + 1] = Append(SubSeq(path, 1, i), path[i + 1])
      BY <1>7, <3>1, <3>2, <3>3 DEF CleanStep, Named
    <3>5. SubSeq(path, 1, i + 1) = Append(SubSeq(path, 1, i), path[i + 1])
      BY <1>2, <3>1 DEF n
    <3> QED
      BY <3>4, <3>5
  <2> HIDE DEF T
  <2>3. Nat \subseteq T
    BY <2>1, <2>2, Induction
  <2>4. done[n] = SubSeq(path, 1, n)
    <3>1. n <= n
      BY <1>2
    <3> QED
      BY <1>2, <2>3, <3>1 DEF T
  <2>5. SubSeq(path, 1, n) = path
    BY <1>2, SubSeqFull DEF n
  <2> QED
    BY <1>1, <2>4, <2>5
<1>8. ASSUME path # <<>>, Named(Last(path))
      PROVE  Clean(path) # <<>> /\ Last(Clean(path)) = Last(path)
  <2>1. n \in 1 .. n /\ n - 1 \in Nat /\ n - 1 <= n /\ path[n] = Last(path)
    BY <1>2, <1>8 DEF Last, n
  <2>2. Clean(path) = Append(done[n - 1], Last(path))
    BY <1>1, <1>8, <2>1 DEF CleanStep, Named
  <2>3. done[n - 1] \in Seq(Good)
    BY <1>5, <2>1
  <2> QED
    BY <2>2, <2>3 DEF Last
<1> QED
  BY <1>6, <1>7, <1>8 DEF n, Good

\* The path of a stored file: no dots, and an extension.
Stored(t) ==
    /\ t \in Seq(Range(t)) \ {<<>>}
    /\ \A i \in 1 .. Len(t) : Named(t[i])
    /\ HasDot(Last(t))

LEMMA OwnRange == ASSUME NEW S, NEW s \in Seq(S) PROVE s \in Seq(Range(s))
<1>1. \A i \in 1 .. Len(s) : s[i] \in Range(s)
  BY DEF Range
<1> QED
  BY <1>1

LEMMA IndexStored == Named(IndexName) /\ HasDot(IndexName)
BY IndexAssumption DEF IndexAssumption, Named, HasDot, IndexName

\* A stored file requested as it is is mapped to itself, and as a directory to
\* its index.
LEMMA StoredAgain ==
    ASSUME NEW t, Stored(t)
    PROVE  /\ LocalPathFor([path |-> t, slash |-> FALSE, query |-> NoQuery]) = t
           /\ LocalPathFor([path |-> t, slash |-> TRUE, query |-> NoQuery])
                 = Append(t, IndexName)
           /\ Stored(Append(t, IndexName))
<1> DEFINE S == Range(t) \union {IndexName}
           u == Append(t, IndexName)
<1>1. t \in Seq(S) /\ u \in Seq(S) /\ u # <<>>
  BY DEF Stored
<1>2. \A i \in 1 .. Len(u) : Named(u[i])
  BY IndexStored DEF Stored
<1>3. Last(u) = IndexName
  BY <1>1 DEF Last, Stored
<1>4. Clean(t) = t
  BY <1>1, CleanPath DEF Stored
<1>5. Clean(u) = u
  <2> HIDE DEF u, S
  <2> QED
    BY <1>1, <1>2, CleanPath
<1>6. Stored(u)
  <2> HIDE DEF u
  <2> QED
    BY <1>1, <1>2, <1>3, OwnRange, IndexStored DEF Stored
<1>7. LocalPathFor([path |-> t, slash |-> FALSE, query |-> NoQuery]) = t
  BY <1>4 DEF LocalPathFor, WithQuery, Stored
<1>8. LocalPathFor([path |-> t, slash |-> TRUE, query |-> NoQuery]) = u
  BY <1>5 DEF LocalPathFor, WithQuery
<1> QED
  BY <1>6, <1>7, <1>8

LEMMA FileStored == \A url \in URLs : Stored(FileOf[url])
<1> SUFFICES ASSUME NEW url \in URLs PROVE Stored(LocalPathFor(Parsed(url)))
  BY DEF FileOf
<1> DEFINE path == Parsed(url).path
           S == Range(path) \union {IndexName}
           full == IF Parsed(url).slash \/ ~HasDot(Last(path))
                   THEN Append(path, IndexName) ELSE path
           clean == Clean(full)
           query == Parsed(url).query
           Word(name) == name \in Seq(Range(name)) \ {<<>>}
<1>1. /\ path \in Seq(S) /\ \A name \in Range(path) : Word(name)
      /\ Parsed(url).slash \/ (path # <<>> /\ Named(Last(path)))
  BY NamesAssumption DEF NamesAssumption, Named
<1>2. Word(IndexName)
  BY DEF IndexName, Range
<1>3. full \in Seq(S) /\ full # <<>> /\ Last(full) \in S
      /\ Named(Last(full)) /\ HasDot(Last(full))
  <2>1. CASE Parsed(url).slash \/ ~HasDot(Last(path))
    <3>1. full = Append(path, IndexName)
      BY <2>1
    <3>2. Append(path, IndexName) \in Seq(S) /\ Append(path, IndexName) # <<>>
          /\ Last(Append(path, IndexName)) = IndexName
      BY <1>1 DEF Last
    <3> HIDE DEF full, path
    <3> QED
      BY <3>1, <3>2, IndexStored
  <2>2. CASE ~(Parsed(url).slash \/ ~HasDot(Last(path)))
    <3>1. path # <<>> /\ Last(path) \in S
      BY <1>1, <2>2 DEF Last
    <3> QED
      BY <1>1, <2>2, <3>1
  <2> QED
    BY <2>1, <2>2
<1>4. LocalPathFor(Parsed(url)) = WithQuery(clean, query)
  BY DEF LocalPathFor
<1>5. Word(Last(full))
  BY <1>1, <1>2, <1>3
<1> HIDE DEF full, S, path, Word
<1>6. /\ clean \in Seq({name \in S : Named(name)}) /\ clean # <<>>
      /\ Last(clean) = Last(full)
  BY <1>3, CleanPath
<1> HIDE DEF clean
<1>7. Len(clean) \in Nat /\ Len(clean) >= 1 /\ clean[Len(clean)] = Last(full)
  BY <1>6 DEF Last
<1>8. \A i \in 1 .. Len(clean) : clean[i] \in S /\ Named(clean[i])
  BY <1>6
<1>9. CASE query = NoQuery
  BY <1>3, <1>4, <1>6, <1>8, <1>9, OwnRange DEF WithQuery, Stored
<1>10. CASE query # NoQuery
  <2> DEFINE name == Append(Last(full), Safe(query))
             file == [clean EXCEPT ![Len(clean)] = name]
  <2>1. name[1] = Last(full)[1]
    BY <1>5 DEF Word
  <2>2. Named(name) /\ HasDot(name)
    BY <1>3, <2>1 DEF Named, HasDot
  <2>3. LocalPathFor(Parsed(url)) = file
    BY <1>4, <1>7, <1>10 DEF WithQuery
  <2> HIDE DEF name
  <2>4. file \in Seq(S \union {name}) /\ Len(file) = Len(clean)
        /\ file[Len(file)] = name
        /\ \A i \in 1 .. Len(file) : file[i] \in {clean[i], name}
    BY <1>6, <1>7
  <2> HIDE DEF file
  <2>5. file # <<>> /\ Last(file) = name
    BY <1>7, <2>4 DEF Last
  <2> QED
    BY <1>8, <2>2, <2>3, <2>4, <2>5, OwnRange DEF Stored
<1> QED
  BY <1>9, <1>10

Names == UNION {Range(FileOf[url]) : url \in URLs}

LEMMA FileSeq ==
    ASSUME NEW f \in Files
    PROVE  f \in Seq(Names) /\ f # <<>> /\ Dir(f) \in Seq(Names)
           /\ Dir(f) = Front(f) /\ Len(Dir(f)) = Len(f) - 1
           /\ f = Append(Dir(f), Last(f))
<1>1. PICK url \in URLs : f = FileOf[url]
  BY DEF Files
<1>2. f \in Seq(Range(f)) /\ f # <<>>
  BY <1>1, FileStored DEF Stored
<1>3. Range(f) \subseteq Names
  BY <1>1 DEF Names
<1>4. f \in Seq(Names)
  BY <1>2, <1>3
<1> QED
  BY <1>2, <1>4, FrontOf DEF Dir

\* Two paths agree as far as their longest common prefix goes.
LEMMA CommonPrefix ==
    ASSUME NEW S, NEW d \in Seq(S), NEW t \in Seq(S)
    PROVE  /\ Common(d, t) \in 0 .. Len(d) /\ Common(d, t) <= Len(t)
           /\ SubSeq(d, 1, Common(d, t)) = SubSeq(t, 1, Common(d, t))
<1> DEFINE C == CommonPrefixes({d, t})
           Lens == {Len(d) - Len(p) : p \in C}
<1>1. \A p \in C : /\ Len(p) \in Nat /\ Len(p) <= Len(d) /\ Len(p) <= Len(t)
                   /\ SubSeq(p, 1, Len(p)) = SubSeq(d, 1, Len(p))
                   /\ SubSeq(p, 1, Len(p)) = SubSeq(t, 1, Len(p))
  <2> SUFFICES ASSUME NEW p \in C
      PROVE  /\ Len(p) \in Nat /\ Len(p) <= Len(d) /\ Len(p) <= Len(t)
             /\ SubSeq(p, 1, Len(p)) = SubSeq(d, 1, Len(p))
             /\ SubSeq(p, 1, Len(p)) = SubSeq(t, 1, Len(p))
    OBVIOUS
  <2>1. IsPrefix(p, d) /\ IsPrefix(p, t)
    BY DEF CommonPrefixes
  <2>2. p \in UNION {Prefixes(s) : s \in {d, t}}
    BY DEF CommonPrefixes
  <2>3. PICK s \in {d, t} : p \in Prefixes(s)
    BY <2>2
  <2>4. s \in Seq(S)
    OBVIOUS
  <2>5. PICK l \in 0 .. Len(s) : p = SubSeq(s, 1, l)
    BY <2>3 DEF Prefixes
  <2>6. Len(p) = l
    BY <2>4, <2>5
  <2> QED
    BY <2>1, <2>4, <2>5, <2>6 DEF IsPrefix
<1>2. <<>> \in C
  <2>1. SubSeq(d, 1, 0) = <<>> /\ SubSeq(t, 1, 0) = <<>> /\ 0 \in 0 .. Len(d)
    OBVIOUS
  <2>2. <<>> \in Prefixes(d)
    BY <2>1 DEF Prefixes
  <2>3. IsPrefix(<<>>, d) /\ IsPrefix(<<>>, t)
    BY DEF IsPrefix
  <2> QED
    BY <2>2, <2>3 DEF CommonPrefixes
<1> HIDE DEF C
<1>3. Lens # {} /\ Lens \subseteq Nat
  BY <1>1, <1>2
<1>4. \E longest \in C : \A other \in C : Len(other) <= Len(longest)
  <2> HIDE DEF Lens
  <2>1. PICK n \in Lens : \A m \in Lens : <<m, n>> \notin OpToRel(<, Nat)
    BY <1>3, NatLessThanWellFounded, WFMin
  <2>2. \A m \in Lens : n <= m
    <3> SUFFICES ASSUME NEW m \in Lens PROVE n <= m
      OBVIOUS
    <3>1. n \in Nat /\ m \in Nat
      BY <1>3
    <3>2. ~(m < n)
      BY <2>1, <3>1 DEF OpToRel
    <3> QED
      BY <3>1, <3>2
  <2>3. PICK p \in C : n = Len(d) - Len(p)
    BY DEF Lens
  <2>4. ASSUME NEW q \in C PROVE Len(q) <= Len(p)
    <3>1. Len(d) - Len(q) \in Lens
      BY DEF Lens
    <3>2. Len(d) - Len(p) <= Len(d) - Len(q)
      BY <2>2, <2>3, <3>1
    <3> QED
      BY <1>1, <2>3, <3>2
  <2> QED
    BY <2>4
<1> DEFINE longest == LongestCommonPrefix({d, t})
<1>5. longest \in C
  BY <1>4 DEF LongestCommonPrefix, C
<1>6. Common(d, t) = Len(longest)
  BY DEF Common
<1> HIDE DEF longest
<1> QED
  BY <1>1, <1>5, <1>6

\* A link leads from its directory to its target, as a directory only if the
\* target is above.
LEMMA RoundTrip ==
    ASSUME NEW S, NEW d \in Seq(S), NEW t \in Seq(S), t # <<>>
    PROVE  /\ Resolve(d, RelPath(d, t)).path = t
           /\ Resolve(d, RelPath(d, t)).query = NoQuery
           /\ Resolve(d, RelPath(d, t)).slash \in BOOLEAN
           /\ Resolve(d, RelPath(d, t)).slash => t \in Prefixes(d) \ {<<>>}
<1> DEFINE c == Common(d, t)
<1>1. /\ c \in Nat /\ c <= Len(d) /\ c <= Len(t)
      /\ SubSeq(d, 1, c) = SubSeq(t, 1, c)
  BY CommonPrefix
<1>2. /\ RelPath(d, t).up = Len(d) - c
      /\ RelPath(d, t).down = SubSeq(t, c + 1, Len(t))
  BY DEF RelPath
<1> HIDE DEF c
<1>3. Len(d) \in Nat /\ Len(t) \in Nat
  OBVIOUS
<1>4. Len(d) - (Len(d) - c) = c
  BY <1>1, <1>3
<1> DEFINE rest == SubSeq(t, c + 1, Len(t))
           link == RelPath(d, t)
<1>5. /\ Resolve(d, link).path = SubSeq(d, 1, c) \o rest
      /\ Resolve(d, link).slash = (rest = <<>>)
      /\ Resolve(d, link).query = NoQuery
  <2>1. link.up = Len(d) - c /\ link.down = rest
    BY <1>2
  <2> HIDE DEF link, rest
  <2>2. Len(d) - link.up = c
    BY <1>4, <2>1
  <2> QED
    BY <2>1, <2>2 DEF Resolve
<1>6. SubSeq(t, 1, c) \o rest = t
  <2>1. 1 \in 1 .. Len(t) + 1 /\ c \in 1 - 1 .. Len(t) /\ Len(t) \in c .. Len(t)
    BY <1>1, <1>3
  <2>2. SubSeq(t, 1, c) \o SubSeq(t, c + 1, Len(t)) = SubSeq(t, 1, Len(t))
    BY <2>1, ConcatAdjacentSubSeq
  <2> QED
    BY <2>2, SubSeqFull
<1>7. ASSUME rest = <<>>
      PROVE  t \in Prefixes(d)
  <2>1. Len(SubSeq(t, c + 1, Len(t))) = Len(t) - c
    BY <1>1, <1>3
  <2>2. c = Len(t)
    BY <1>1, <1>3, <1>7, <2>1
  <2> HIDE DEF rest
  <2>3. t = SubSeq(t, 1, Len(t))
    BY <1>3
  <2>4. t = SubSeq(d, 1, c)
    BY <1>1, <2>2, <2>3
  <2> QED
    BY <1>1, <1>3, <2>4 DEF Prefixes
<1> HIDE DEF rest
<1> QED
  BY <1>1, <1>5, <1>6, <1>7 DEF link

\* What a link means in its page, and the target that the rewriter gives it:
\* the old one, or the index of it if that was above the page.
LEMMA LinkAgain ==
    ASSUME NEW f \in Files, NEW t, Stored(t)
    PROVE  LET meant == Resolve(Dir(f), RelPath(Dir(f), t)) IN
           /\ meant.slash \in BOOLEAN
           /\ meant = [path |-> t, slash |-> meant.slash, query |-> NoQuery]
           /\ LocalPathFor(meant) = IF meant.slash THEN Append(t, IndexName) ELSE t
           /\ Stored(LocalPathFor(meant))
           /\ meant.slash => t \in Above(f)
<1> DEFINE meant == Resolve(Dir(f), RelPath(Dir(f), t))
           S == Names \union Range(t)
<1>1. /\ Dir(f) \in Seq(S) /\ Dir(f) = Front(f)
      /\ t \in Seq(S) /\ t # <<>>
  <2>1. Dir(f) \in Seq(Names) /\ Dir(f) = Front(f)
    BY FileSeq
  <2>2. t \in Seq(Range(t)) /\ t # <<>>
    BY DEF Stored
  <2> QED
    BY <2>1, <2>2
<1> HIDE DEF S
<1>2. /\ meant.path = t /\ meant.query = NoQuery /\ meant.slash \in BOOLEAN
      /\ meant.slash => t \in Prefixes(Dir(f)) \ {<<>>}
  BY <1>1, RoundTrip
<1>3. meant = [path |-> meant.path, slash |-> meant.slash, query |-> meant.query]
  BY DEF Resolve
<1> HIDE DEF meant
<1>4. meant.slash => t \in Above(f)
  BY <1>1, <1>2 DEF Above
<1>5. meant = [path |-> t, slash |-> meant.slash, query |-> NoQuery]
  BY <1>2, <1>3
<1>6. LocalPathFor(meant) = IF meant.slash THEN Append(t, IndexName) ELSE t
  BY <1>2, <1>5, StoredAgain
<1>7. Stored(LocalPathFor(meant))
  BY <1>6, StoredAgain
<1>8. /\ meant.slash \in BOOLEAN
      /\ meant = [path |-> t, slash |-> meant.slash, query |-> NoQuery]
      /\ LocalPathFor(meant) = IF meant.slash THEN Append(t, IndexName) ELSE t
      /\ Stored(LocalPathFor(meant))
      /\ meant.slash => t \in Above(f)
  BY <1>2, <1>4, <1>5, <1>6, <1>7
<1> QED
  BY <1>8, Zenon DEF meant

\* A link to a page of the site and what the rewriter makes of it, unless its
\* target is above the page.
LEMMA LinkMeans ==
    ASSUME NEW f \in Files, NEW v \in URLs
    PROVE  LET link == RelPath(Dir(f), FileOf[v]) IN
           \/ FileOf[v] \in Above(f)
           \/ /\ Resolve(Dir(f), link) =
                    [path |-> FileOf[v], slash |-> FALSE, query |-> NoQuery]
              /\ RelPath(Dir(f), LocalPathFor(Resolve(Dir(f), link))) = link
<1> DEFINE meant == Resolve(Dir(f), RelPath(Dir(f), FileOf[v]))
<1>1. /\ meant.slash \in BOOLEAN
      /\ meant.slash => FileOf[v] \in Above(f)
      /\ meant = [path |-> FileOf[v], slash |-> meant.slash, query |-> NoQuery]
      /\ LocalPathFor(meant) = IF meant.slash THEN Append(FileOf[v], IndexName)
                               ELSE FileOf[v]
  BY FileStored, LinkAgain
<1> HIDE DEF meant
<1>2. FileOf[v] \in Above(f)
      \/ (meant = [path |-> FileOf[v], slash |-> FALSE, query |-> NoQuery]
          /\ LocalPathFor(meant) = FileOf[v])
  <2>1. FileOf[v] \in Above(f) \/ meant.slash = FALSE
    BY <1>1
  <2>2. CASE meant.slash = FALSE
    BY <1>1, <2>2
  <2> QED
    BY <2>1, <2>2
<1> QED
  BY <1>2 DEF meant

(***************************************************************************)
(* Links lead where they led on the site.                                  *)
(***************************************************************************)
There == {f \in Files : files[f] # No("absent")}

\* Each link names the file of its URL, or a directory above the page.
Leading(body, f) ==
    body.kind = "page" =>
    /\ DOMAIN body.links \subseteq URLs
    /\ \A v \in DOMAIN body.links :
          \/ body.links[v] = RelPath(Dir(f), FileOf[v])
          \/ FileOf[v] \in Above(f)

LinkInv ==
    /\ \A f \in Files : Leading(files[f], f) /\ Leading(tmp[f], f)
    /\ \A w \in Writers :
          \/ writing[w] = Quiet
          \/ /\ Leading(writing[w].body, writing[w].file)
             /\ writing[w].body # No("absent")

\* Where there is a file there is no directory, and where there is a file or
\* one is being written there are the directories above it.
DirInv ==
    /\ dirs \intersect There = {}
    /\ \A f \in There : Above(f) \intersect Files \subseteq dirs
    /\ \A w \in Writers :
          \/ writing[w] = Quiet
          \/ Above(writing[w].file) \intersect Files \subseteq dirs
    /\ \A w \in Writers :
          At(w, "write") /\ writing[w].at = "file" => writing[w].file \in There

LeadInv == LinkInv /\ DirInv

LEMMA PageLeads ==
    ASSUME NEW url \in URLs, NEW fetch, NEW stripped
    PROVE  /\ Leading(PageAt(FileOf[url], url, fetch, stripped), FileOf[url])
           /\ PageAt(FileOf[url], url, fetch, stripped) # No("absent")
BY NamesAssumption DEF NamesAssumption, Leading, PageAt, No

LEMMA NoPageLeads ==
    ASSUME NEW kind \in {"absent", "cut", "mixed", "mangled"}, NEW f
    PROVE  Leading(No(kind), f)
BY DEF Leading, No

LEMMA RewriteLeads ==
    ASSUME NEW f \in Files, NEW body, Leading(body, f)
    PROVE  Leading(RewriteAgain(f, body), f) /\ RewriteAgain(f, body) # No("absent")
<1>1. CASE body.kind = "page" /\ body.of \in HTML
  <2> DEFINE out == RewriteAgain(f, body)
  <2>1. /\ out.kind = "page" /\ DOMAIN out.links = DOMAIN body.links
        /\ \A v \in DOMAIN body.links :
              out.links[v] = RelPath(Dir(f),
                                LocalPathFor(Resolve(Dir(f), body.links[v])))
    BY <1>1 DEF RewriteAgain
  <2> HIDE DEF out
  <2>2. ASSUME NEW v \in DOMAIN body.links, FileOf[v] \notin Above(f)
        PROVE  out.links[v] = RelPath(Dir(f), FileOf[v])
    <3>1. v \in URLs /\ body.links[v] = RelPath(Dir(f), FileOf[v])
      BY <1>1, <2>2 DEF Leading
    <3> QED
      BY <2>1, <2>2, <3>1, LinkMeans
  <2>3. out # No("absent")
    BY <2>1 DEF No
  <2> QED
    BY <1>1, <2>1, <2>2, <2>3 DEF Leading, out
<1>2. CASE ~(body.kind = "page" /\ body.of \in HTML)
  <2>1. RewriteAgain(f, body) = No("mangled")
    BY <1>2 DEF RewriteAgain
  <2>2. No("mangled") # No("absent")
    BY DEF No
  <2> QED
    BY <2>1, <2>2, NoPageLeads
<1> QED
  BY <1>1, <1>2

LEMMA LeadInit == Init => LeadInv
<1> SUFFICES ASSUME Init PROVE LeadInv
  OBVIOUS
<1>1. PICK old \in OldMirrors :
        /\ files = [f \in Files |->
              IF \E u \in old : FileOf[u] = f
              THEN PageAt(f, CHOOSE u \in old : FileOf[u] = f, 0, FALSE)
              ELSE No("absent")]
        /\ dirs = Files \intersect UNION {Above(FileOf[u]) : u \in old}
  BY DEF Init
<1>2. /\ old \subseteq URLs
      /\ \A u, v \in old : FileOf[u] \notin Above(FileOf[v])
  BY OldAssumption DEF OldAssumption
<1>3. ASSUME NEW f \in Files
      PROVE  /\ Leading(files[f], f)
             /\ files[f] # No("absent") => \E u \in old : FileOf[u] = f
  <2>1. CASE \E u \in old : FileOf[u] = f
    <3> DEFINE u == CHOOSE u \in old : FileOf[u] = f
    <3>1. u \in old /\ FileOf[u] = f
      BY <2>1
    <3>2. files[f] = PageAt(f, u, 0, FALSE)
      BY <1>1, <2>1
    <3> HIDE DEF u
    <3> QED
      BY <1>2, <2>1, <3>1, <3>2, PageLeads
  <2>2. CASE ~\E u \in old : FileOf[u] = f
    BY <1>1, <2>2, NoPageLeads
  <2> QED
    BY <2>1, <2>2
<1>4. \A f \in There : \E u \in old : FileOf[u] = f
  BY <1>3 DEF There
<1>5. tmp = [f \in Files |-> No("absent")] /\ writing = [w \in Writers |-> Quiet]
  BY DEF Init
<1>6. LinkInv
  BY <1>3, <1>5, NoPageLeads DEF LinkInv
<1>7. DirInv
  <2>1. dirs \intersect There = {}
    BY <1>1, <1>2, <1>4
  <2>2. \A f \in There : Above(f) \intersect Files \subseteq dirs
    BY <1>1, <1>4
  <2>3. \A w \in Writers : writing[w] = Quiet /\ ~At(w, "write")
    BY <1>5 DEF At, Quiet
  <2> QED
    BY <2>1, <2>2, <2>3 DEF DirInv
<1> QED
  BY <1>6, <1>7 DEF LeadInv

\* Writers go on as they are or are over, and the disk stays as it is.
LEMMA Unmoved ==
    ASSUME LeadInv, UNCHANGED disk, \A w \in Writers : writing'[w] \in {writing[w], Quiet}
    PROVE  LeadInv'
<1>1. files' = files /\ tmp' = tmp /\ dirs' = dirs /\ There' = There
  BY DEF disk, There
<1>2. LinkInv'
  BY <1>1 DEF LeadInv, LinkInv
<1>3. \A w \in Writers : At(w, "write")' => writing'[w] = writing[w]
  BY DEF At, Quiet
<1>4. DirInv'
  BY <1>1, <1>3 DEF LeadInv, DirInv, At
<1> QED
  BY <1>2, <1>4 DEF LeadInv

LEMMA BeginLeads ==
    ASSUME WriteShape, LeadInv, NEW w \in Writers, NEW f \in Files, NEW body,
           Leading(body, f), body # No("absent"), Begin(w, f, body)
    PROVE  LeadInv'
<1> DEFINE made == {d \in Above(f) : (Above(d) \union {d}) \intersect There = {}}
           record == [file |-> f, body |-> body, step |-> "open", at |-> "tmp"]
<1>1. /\ dirs' = dirs \union (made \intersect Files)
      /\ writing' = [writing EXCEPT ![w] = IF made = Above(f) THEN record ELSE Quiet]
      /\ files' = files /\ tmp' = tmp
  BY DEF Begin, There
<1>2. There' = There
  BY <1>1 DEF There
<1>3. made \intersect There = {}
  OBVIOUS
<1>4. \A v \in Writers \ {w} : writing'[v] = writing[v]
  BY <1>1 DEF WriteShape
<1>5. \/ writing'[w] = Quiet
      \/ /\ made = Above(f) /\ writing'[w].file = f /\ writing'[w].body = body
         /\ writing'[w].step = "open"
  BY <1>1 DEF WriteShape
<1>6. ~At(w, "write")'
  BY <1>5 DEF At, Quiet
<1> HIDE DEF made, record
<1>7. LinkInv'
  BY <1>1, <1>4, <1>5 DEF LeadInv, LinkInv
<1>8. DirInv'
  <2>1. dirs' \intersect There' = {}
    BY <1>1, <1>2, <1>3 DEF LeadInv, DirInv
  <2>2. \A g \in There' : Above(g) \intersect Files \subseteq dirs'
    BY <1>1, <1>2 DEF LeadInv, DirInv
  <2>3. ASSUME NEW v \in Writers
        PROVE  \/ writing'[v] = Quiet
               \/ Above(writing'[v].file) \intersect Files \subseteq dirs'
    <3>1. CASE v = w
      BY <1>1, <1>5, <3>1
    <3>2. CASE v # w
      BY <1>1, <1>4, <3>2 DEF LeadInv, DirInv
    <3> QED
      BY <3>1, <3>2
  <2>4. \A v \in Writers :
           At(v, "write")' /\ writing'[v].at = "file" => writing'[v].file \in There'
    BY <1>2, <1>4, <1>6 DEF LeadInv, DirInv, At
  <2> QED
    BY <2>1, <2>2, <2>3, <2>4 DEF DirInv
<1> QED
  BY <1>7, <1>8 DEF LeadInv

LEMMA OpenLeads ==
    ASSUME WriteShape, LeadInv, NEW w \in Writers, Open(w) PROVE LeadInv'
<1> DEFINE f == writing[w].file
<1>1. f \in Files /\ writing[w].at = "tmp" /\ DOMAIN writing[w] = Fields
      /\ writing[w] # Quiet
  BY QuietAt DEF Open, WriteShape, At
<1>2. /\ writing'[w] = [writing[w] EXCEPT !.step = "write"]
      /\ \A v \in Writers \ {w} : writing'[v] = writing[v]
      /\ tmp' = [tmp EXCEPT ![f] = No("cut")]
      /\ files' = files /\ dirs' = dirs
  BY DEF Open, WriteShape
<1>3. /\ writing'[w].file = f /\ writing'[w].at = "tmp"
      /\ writing'[w].body = writing[w].body
  BY <1>1, <1>2 DEF Fields
<1>4. \A g \in Files : tmp'[g] \in {tmp[g], No("cut")}
  BY <1>2 DEF WriteShape
<1>5. There' = There
  BY <1>2 DEF There
<1> HIDE DEF f
<1>6. LinkInv'
  <2>1. ASSUME NEW g \in Files PROVE Leading(files'[g], g) /\ Leading(tmp'[g], g)
    BY <1>2, <1>4, NoPageLeads DEF LeadInv, LinkInv
  <2>2. ASSUME NEW v \in Writers
        PROVE  \/ writing'[v] = Quiet
               \/ /\ Leading(writing'[v].body, writing'[v].file)
                  /\ writing'[v].body # No("absent")
    <3>1. CASE v = w
      BY <1>1, <1>3, <3>1 DEF LeadInv, LinkInv, f
    <3>2. CASE v # w
      BY <1>2, <3>2 DEF LeadInv, LinkInv
    <3> QED
      BY <3>1, <3>2
  <2> QED
    BY <2>1, <2>2 DEF LinkInv
<1>7. DirInv'
  <2>1. ASSUME NEW v \in Writers
        PROVE  /\ writing'[v] = Quiet
                  \/ Above(writing'[v].file) \intersect Files \subseteq dirs'
               /\ At(v, "write")' /\ writing'[v].at = "file"
                  => writing'[v].file \in There'
    <3>1. CASE v = w
      BY <1>1, <1>2, <1>3, <3>1 DEF LeadInv, DirInv, f
    <3>2. CASE v # w
      BY <1>2, <1>5, <3>2 DEF LeadInv, DirInv, At
    <3> QED
      BY <3>1, <3>2
  <2> QED
    BY <1>2, <1>5, <2>1 DEF LeadInv, DirInv
<1> QED
  BY <1>6, <1>7 DEF LeadInv

LEMMA WriteLeads ==
    ASSUME WriteShape, LeadInv, NEW w \in Writers, Write(w) PROVE LeadInv'
<1> DEFINE f == writing[w].file
           body == writing[w].body
<1>1. /\ f \in Files /\ DOMAIN writing[w] = Fields
      /\ writing[w].step = "write" /\ writing[w] # Quiet
  BY QuietAt DEF Write, WriteShape, At
<1>2. /\ writing'[w] = [writing[w] EXCEPT !.step = "rename", !.at = "tmp"]
      /\ \A v \in Writers \ {w} : writing'[v] = writing[v]
      /\ dirs' = dirs
  BY DEF Write, WriteShape
<1>3. /\ writing'[w].file = f /\ writing'[w].body = body
      /\ writing'[w].step = "rename"
  BY <1>1, <1>2 DEF Fields
<1>4. Leading(body, f) /\ body # No("absent")
  BY <1>1 DEF LeadInv, LinkInv
<1>5. /\ \A old : \A new \in Over(old, body) :
            Leading(new, f) /\ new # No("absent")
      /\ No("mixed") # No("absent")
  BY <1>4, NoPageLeads DEF Over, No
<1> HIDE DEF f, body
<1>6. ASSUME NEW g \in Files
      PROVE  /\ Leading(files'[g], g) /\ Leading(tmp'[g], g)
             /\ \/ files'[g] = files[g]
                \/ /\ g = f /\ writing[w].at = "file"
                   /\ files'[g] # No("absent")
  <2>1. Leading(files[g], g) /\ Leading(tmp[g], g)
    BY DEF LeadInv, LinkInv
  <2>2. CASE g = f
    <3>1. tmp' = tmp \/ \E new \in Over(tmp[f], body) : tmp' = [tmp EXCEPT ![f] = new]
      BY DEF Write, f, body
    <3>2. \/ files' = files
          \/ /\ writing[w].at = "file"
             /\ \E new \in Over(files[f], body) : files' = [files EXCEPT ![f] = new]
      BY DEF Write, f, body
    <3>3. tmp'[f] = tmp[f] \/ tmp'[f] \in Over(tmp[f], body)
      BY <1>1, <3>1 DEF WriteShape
    <3>4. \/ files'[f] = files[f]
          \/ writing[w].at = "file" /\ files'[f] \in Over(files[f], body)
      BY <1>1, <3>2 DEF WriteShape
    <3>5. Leading(tmp'[f], f)
      BY <1>5, <2>1, <2>2, <3>3, Zenon
    <3>6. CASE files'[f] = files[f]
      BY <2>1, <2>2, <3>5, <3>6, Zenon
    <3>7. CASE writing[w].at = "file" /\ files'[f] \in Over(files[f], body)
      BY <1>5, <2>2, <3>5, <3>7, Zenon
    <3> QED
      BY <3>4, <3>6, <3>7
  <2>3. CASE g # f
    <3>1. tmp'[g] = tmp[g] /\ files'[g] = files[g]
      BY <1>1, <2>3 DEF Write, WriteShape, f
    <3> QED
      BY <2>1, <3>1, Zenon
  <2> QED
    BY <2>2, <2>3
<1>7. There' = There
  <2>1. writing[w].at = "file" => f \in There
    BY <1>1 DEF LeadInv, DirInv, At, f
  <2>2. \A g \in Files : files'[g] # No("absent") <=> files[g] # No("absent")
    BY <1>6, <2>1 DEF There
  <2> QED
    BY <2>2 DEF There
<1>8. LinkInv'
  <2>1. ASSUME NEW v \in Writers
        PROVE  \/ writing'[v] = Quiet
               \/ /\ Leading(writing'[v].body, writing'[v].file)
                  /\ writing'[v].body # No("absent")
    <3>1. CASE v = w
      BY <1>3, <1>4, <3>1
    <3>2. CASE v # w
      BY <1>2, <3>2 DEF LeadInv, LinkInv
    <3> QED
      BY <3>1, <3>2
  <2> QED
    BY <1>6, <2>1 DEF LinkInv
<1>9. DirInv'
  <2>1. ASSUME NEW v \in Writers
        PROVE  /\ writing'[v] = Quiet
                  \/ Above(writing'[v].file) \intersect Files \subseteq dirs'
               /\ At(v, "write")' /\ writing'[v].at = "file"
                  => writing'[v].file \in There'
    <3>1. CASE v = w
      BY <1>1, <1>2, <1>3, <3>1 DEF LeadInv, DirInv, At, f
    <3>2. CASE v # w
      BY <1>2, <1>7, <3>2 DEF LeadInv, DirInv, At
    <3> QED
      BY <3>1, <3>2
  <2> QED
    BY <1>2, <1>7, <2>1 DEF LeadInv, DirInv
<1> QED
  BY <1>8, <1>9 DEF LeadInv

LEMMA RenameLeads ==
    ASSUME WriteShape, LeadInv, NEW w \in Writers, Rename(w) PROVE LeadInv'
<1> DEFINE f == writing[w].file
<1>1. f \in Files /\ writing[w] # Quiet
  BY QuietAt DEF Rename, WriteShape, At
<1>2. /\ \A g \in Files \ {f} : tmp'[g] = tmp[g] /\ files'[g] = files[g]
      /\ files'[f] = tmp[f] /\ tmp'[f] = No("absent")
      /\ tmp[f] # No("absent") /\ f \notin dirs /\ dirs' = dirs
  BY <1>1 DEF Rename, Publish, WriteShape
<1>3. There' = There \union {f}
  BY <1>1, <1>2 DEF There
<1>4. /\ writing'[w] = Quiet
      /\ \A v \in Writers \ {w} :
            ~(At(v, "write") /\ writing[v].file = f) => writing'[v] = writing[v]
  BY DEF Rename, Publish
<1>5. ASSUME NEW v \in Writers \ {w}, At(v, "write") /\ writing[v].file = f
      PROVE  /\ writing[v] # Quiet /\ writing'[v].file = f
             /\ writing'[v].body = writing[v].body
  <2>1. writing'[v] = [writing[v] EXCEPT !.at =
                          IF writing[v].at = "tmp" THEN "file" ELSE "gone"]
    BY <1>5 DEF Rename, Publish
  <2>2. DOMAIN writing[v] = Fields /\ writing[v] # Quiet
    BY <1>5, QuietAt DEF WriteShape
  <2> QED
    BY <1>5, <2>1, <2>2 DEF Fields
<1> HIDE DEF f
<1>6. ASSUME NEW v \in Writers, writing'[v] # Quiet
      PROVE  /\ writing[v] # Quiet /\ writing'[v].file = writing[v].file
             /\ writing'[v].body = writing[v].body
             /\ writing'[v] = writing[v] \/ writing'[v].file = f
  BY <1>4, <1>5, <1>6
<1>7. LinkInv'
  <2>1. ASSUME NEW g \in Files PROVE Leading(files'[g], g) /\ Leading(tmp'[g], g)
    <3>1. CASE g = f
      BY <1>1, <1>2, <3>1, NoPageLeads DEF LeadInv, LinkInv
    <3>2. CASE g # f
      BY <1>2, <3>2 DEF LeadInv, LinkInv
    <3> QED
      BY <3>1, <3>2
  <2>2. \A v \in Writers :
           \/ writing'[v] = Quiet
           \/ /\ Leading(writing'[v].body, writing'[v].file)
              /\ writing'[v].body # No("absent")
    BY <1>6 DEF LeadInv, LinkInv
  <2> QED
    BY <2>1, <2>2 DEF LinkInv
<1>8. DirInv'
  <2>1. dirs' \intersect There' = {}
    BY <1>2, <1>3 DEF LeadInv, DirInv
  <2>2. \A g \in There' : Above(g) \intersect Files \subseteq dirs'
    <3>1. Above(f) \intersect Files \subseteq dirs
      BY <1>1 DEF LeadInv, DirInv, f
    <3> QED
      BY <1>2, <1>3, <3>1 DEF LeadInv, DirInv
  <2>3. \A v \in Writers :
           \/ writing'[v] = Quiet
           \/ Above(writing'[v].file) \intersect Files \subseteq dirs'
    BY <1>2, <1>6 DEF LeadInv, DirInv
  <2>4. ASSUME NEW v \in Writers, At(v, "write")', writing'[v].at = "file"
        PROVE  writing'[v].file \in There'
    <3>1. writing'[v] # Quiet
      BY <2>4 DEF At, Quiet
    <3>2. CASE writing'[v] = writing[v]
      BY <1>3, <2>4, <3>2 DEF LeadInv, DirInv, At
    <3> QED
      BY <1>3, <1>6, <3>1, <3>2
  <2> QED
    BY <2>1, <2>2, <2>3, <2>4 DEF DirInv
<1> QED
  BY <1>7, <1>8 DEF LeadInv

LEMMA LeadStep == WriteShape /\ LeadInv /\ [Next]_vars => LeadInv'
<1> SUFFICES ASSUME WriteShape, LeadInv, [Next]_vars PROVE LeadInv'
  OBVIOUS
<1>1. ASSUME NEW w \in Writers, WriteFails(w) PROVE LeadInv'
  BY <1>1, Unmoved DEF WriteFails, WriteShape
<1>2. ASSUME NEW w \in Writers, WriteFile(w) PROVE LeadInv'
  BY <1>1, <1>2, OpenLeads, WriteLeads, RenameLeads DEF WriteFile
<1>3. ASSUME UNCHANGED <<disk, writing>> PROVE LeadInv'
  BY <1>3, Unmoved
<1>4. ASSUME NEW c \in Crawls, StartCrawl(c) \/ EndCrawl(c) PROVE LeadInv'
  BY <1>3, <1>4 DEF StartCrawl, Site!Start, EndCrawl, Site!End
<1>5. ASSUME NEW c \in Crawls, CrawlKilled(c) PROVE LeadInv'
  BY <1>5, Unmoved DEF CrawlKilled, Site!End, WriteShape, Writers
<1>6. ASSUME NEW c \in Crawls, NEW url \in URLs, Fetch(c, url) PROVE LeadInv'
  <2>1. c \in Writers /\ FileOf[url] \in Files
    BY FileInFiles DEF Writers
  <2>2. Begin(c, FileOf[url], PageAt(FileOf[url], url, fetches + 1, url \in HTML))
    BY <1>6 DEF Fetch
  <2> QED
    BY <2>1, <2>2, PageLeads, BeginLeads
<1>7. ASSUME NEW p \in Passes, NEW file \in Files, Visit(p, file) PROVE LeadInv'
  <2>1. Leading(files[file], file)
    BY DEF LeadInv, LinkInv
  <2>2. \/ UNCHANGED <<disk, writing>>
        \/ Begin(p, file, RewriteAgain(file, files[file]))
    BY <1>7 DEF Visit
  <2>3. p \in Writers
    BY DEF Writers
  <2> QED
    BY <1>3, <2>1, <2>2, <2>3, RewriteLeads, BeginLeads
<1>8. ASSUME NEW p \in Passes, PassLost(p) PROVE LeadInv'
  BY <1>8, Unmoved DEF PassLost, WriteShape, Writers
<1>9. ASSUME NEW p \in Passes,
             (\E found \in BOOLEAN : StartPass(p, found)) \/ PassEnds(p)
      PROVE  LeadInv'
  BY <1>3, <1>9 DEF StartPass, PassEnds
<1>10. CASE RowOpened \/ RowClosed
  BY <1>3, <1>10 DEF RowOpened, Site!RowOpened, RowClosed, Site!RowClosed
<1>11. CASE UNCHANGED vars
  BY <1>3, <1>11 DEF vars
<1> QED
  BY <1>2, <1>4, <1>5, <1>6, <1>7, <1>8, <1>9, <1>10, <1>11 DEF Next

LEMMA LeadLinks == LeadInv => LinksLead
<1> SUFFICES ASSUME LeadInv, NEW f \in There, files[f].kind = "page",
                    NEW a \in Addresses(f)
             PROVE  /\ Served(There, a) = f
                    /\ \A v \in DOMAIN files[f].links :
                          FileOf[v] \in There =>
                          Served(There, Resolve(BaseDir(a), files[f].links[v]))
                             = FileOf[v]
  BY DEF LinksLead, There
<1>1. f \in Files
  BY DEF There
<1>2. /\ Dir(f) \in Seq(Names) /\ Dir(f) = Front(f)
      /\ f = Append(Dir(f), Last(f))
  BY <1>1, FileSeq
<1>3. Served(There, a) = f /\ BaseDir(a) = Dir(f)
  <2>1. CASE a = [path |-> f, slash |-> FALSE, query |-> NoQuery]
    BY <1>2, <2>1 DEF Served, BaseDir
  <2>2. CASE /\ Last(f) = IndexName
             /\ a = [path |-> Dir(f), slash |-> TRUE, query |-> NoQuery]
    BY <1>2, <2>2 DEF Served, BaseDir
  <2> QED
    BY <2>1, <2>2 DEF Addresses
<1>4. ASSUME NEW v \in DOMAIN files[f].links, FileOf[v] \in There
      PROVE  Served(There, Resolve(Dir(f), files[f].links[v])) = FileOf[v]
  <2>1. FileOf[v] \notin Above(f)
    BY <1>1, <1>4 DEF LeadInv, DirInv, There
  <2>2. v \in URLs /\ files[f].links[v] = RelPath(Dir(f), FileOf[v])
    BY <1>1, <2>1 DEF LeadInv, LinkInv, Leading
  <2>3. Resolve(Dir(f), files[f].links[v]) =
           [path |-> FileOf[v], slash |-> FALSE, query |-> NoQuery]
    BY <1>1, <2>1, <2>2, LinkMeans
  <2> QED
    BY <1>4, <2>3 DEF Served
<1> QED
  BY <1>3, <1>4

\* For every site, every link graph and any number of crawls, passes, failures
\* and kills: the links of a page lead to the files of their URLs, after any
\* number of rewrites.
THEOREM LinksOfTheMirror == Spec => []LinksLead
<1>1. WholeInv /\ [Next]_vars => WholeInv'
  BY WholeNext
<1>2. WholeInv => WriteShape
  BY DEF WholeInv
<1> QED
  BY <1>1, <1>2, WholeInit, LeadInit, LeadStep, LeadLinks, PTL DEF Spec

(***************************************************************************)
(* No page gives way to an older one.                                      *)
(***************************************************************************)
\* What may become the file f next.
InHand(f) ==
    {writing[w].body : w \in {v \in Writers : writing[v] # Quiet /\ writing[v].file = f}}
    \union IF \E w \in Writers : Held(w, f) THEN {tmp[f]} ELSE {}

PageIn(body) == body.kind = "page"
Dated(body) == PageIn(body) => body.fetch \in Nat /\ body.fetch <= fetches

DateInv ==
    /\ fetches \in Nat
    /\ \A f \in Files : Dated(files[f]) /\ Dated(tmp[f])
    /\ \A w \in Writers : writing[w] = Quiet \/ Dated(writing[w].body)

\* Who writes is at work, and unless two have overlapped that is one crawl or
\* passes alone.
BusyInv ==
    /\ \A c \in Crawls : writing[c] = Quiet \/ c \in working
    /\ \A p \in Passes : writing[p] = Quiet \/ todo[p] # Off
    /\ ~overlapped =>
          /\ \A c, d \in working : c = d
          /\ working = {} \/ Reprocessing = {}

\* All that is in hand for a file is from one fetch; a crawl has it later than
\* what is there, a pass has it from there.
NotOlder ==
    ~overlapped =>
    \A f \in Files : \A b \in InHand(f) :
       PageIn(b) =>
       /\ \A other \in InHand(f) : PageIn(other) => other.fetch = b.fetch
       /\ PageIn(files[f]) => files[f].fetch <= b.fetch
       /\ PageIn(files[f]) /\ working = {} => files[f].fetch = b.fetch

OrderInv == DateInv /\ BusyInv /\ NotOlder

\* A step that puts nothing in hand.
Moves ==
    /\ \A v \in Writers :
          \/ writing'[v] = Quiet
          \/ /\ writing[v] # Quiet /\ writing'[v].file = writing[v].file
             /\ writing'[v].body = writing[v].body
    /\ \A f \in Files :
          /\ files'[f] \in {files[f]} \union InHand(f) \union NoPages
          /\ tmp'[f] \in {tmp[f]} \union InHand(f) \union NoPages
          /\ (\E v \in Writers : Held(v, f)') => tmp'[f] \in InHand(f) \union NoPages

LEMMA NoPageIn == \A body \in NoPages : ~PageIn(body)
BY DEF NoPages, No, PageIn

LEMMA HeldInHand ==
    ASSUME NEW w \in Writers, NEW f, Held(w, f) PROVE tmp[f] \in InHand(f)
BY DEF InHand

LEMMA BodyInHand ==
    ASSUME NEW w \in Writers, writing[w] # Quiet
    PROVE  writing[w].body \in InHand(writing[w].file)
BY DEF InHand

LEMMA StillMoves ==
    ASSUME UNCHANGED <<files, tmp>>,
           \A v \in Writers : writing'[v] \in {writing[v], Quiet}
    PROVE  Moves
<1>1. \A f : \A v \in Writers : Held(v, f)' => Held(v, f)
  BY DEF Held, At, Quiet
<1> QED
  BY <1>1, HeldInHand DEF Moves

LEMMA OpenMoves == ASSUME WriteShape, NEW w \in Writers, Open(w) PROVE Moves
<1> DEFINE f == writing[w].file
<1>1. f \in Files /\ DOMAIN writing[w] = Fields /\ writing[w] # Quiet
  BY QuietAt DEF Open, WriteShape, At
<1>2. /\ writing'[w] = [writing[w] EXCEPT !.step = "write"]
      /\ \A v \in Writers \ {w} : writing'[v] = writing[v]
      /\ tmp' = [tmp EXCEPT ![f] = No("cut")]
      /\ files' = files
  BY DEF Open, WriteShape
<1>3. writing'[w].file = f /\ writing'[w].body = writing[w].body
  BY <1>1, <1>2 DEF Fields
<1>4. No("cut") \in NoPages
  BY DEF NoPages
<1> HIDE DEF f
<1>5. tmp'[f] = No("cut") /\ \A g \in Files \ {f} : tmp'[g] = tmp[g]
  BY <1>1, <1>2 DEF WriteShape
<1>6. \A g \in Files \ {f} : \A v \in Writers : Held(v, g)' => Held(v, g)
  BY <1>2, <1>3 DEF Held, At
<1>7. \A g \in Files :
         /\ tmp'[g] \in {tmp[g]} \union InHand(g) \union NoPages
         /\ (\E v \in Writers : Held(v, g)') => tmp'[g] \in InHand(g) \union NoPages
  BY <1>4, <1>5, <1>6, HeldInHand
<1>8. \A v \in Writers : writing'[v] = Quiet
         \/ /\ writing[v] # Quiet /\ writing'[v].file = writing[v].file
            /\ writing'[v].body = writing[v].body
  BY <1>1, <1>2, <1>3 DEF f
<1> QED
  BY <1>2, <1>7, <1>8 DEF Moves

LEMMA WriteMoves == ASSUME WriteShape, NEW w \in Writers, Write(w) PROVE Moves
<1> DEFINE f == writing[w].file
           body == writing[w].body
<1>1. /\ f \in Files /\ DOMAIN writing[w] = Fields /\ writing[w] # Quiet
      /\ Held(w, f)
  BY QuietAt DEF Write, WriteShape, At, Held
<1>2. /\ writing'[w] = [writing[w] EXCEPT !.step = "rename", !.at = "tmp"]
      /\ \A v \in Writers \ {w} : writing'[v] = writing[v]
  BY DEF Write, WriteShape
<1>3. writing'[w].file = f /\ writing'[w].body = body
  BY <1>1, <1>2 DEF Fields
<1>4. body \in InHand(f) /\ tmp[f] \in InHand(f)
  BY <1>1, BodyInHand, HeldInHand
<1>5. \A old : Over(old, body) \subseteq InHand(f) \union NoPages
  <2>1. No("mixed") \in NoPages
    BY DEF NoPages
  <2> HIDE DEF f, body
  <2> QED
    BY <1>4, <2>1 DEF Over
<1>6. /\ tmp' = tmp \/ \E new \in Over(tmp[f], body) : tmp' = [tmp EXCEPT ![f] = new]
      /\ \/ files' = files
         \/ \E new \in Over(files[f], body) : files' = [files EXCEPT ![f] = new]
  BY DEF Write
<1> HIDE DEF f, body
<1>7. /\ tmp'[f] = tmp[f] \/ tmp'[f] \in Over(tmp[f], body)
      /\ files'[f] = files[f] \/ files'[f] \in Over(files[f], body)
      /\ \A g \in Files \ {f} : tmp'[g] = tmp[g] /\ files'[g] = files[g]
  BY <1>1, <1>6 DEF WriteShape
<1>8. \A g \in Files \ {f} : \A v \in Writers : Held(v, g)' => Held(v, g)
  BY <1>2, <1>3 DEF Held, At
<1>9. tmp'[f] \in InHand(f) \union NoPages
      /\ files'[f] \in {files[f]} \union InHand(f) \union NoPages
  BY <1>4, <1>5, <1>7
<1>10. \A g \in Files :
          /\ files'[g] \in {files[g]} \union InHand(g) \union NoPages
          /\ tmp'[g] \in {tmp[g]} \union InHand(g) \union NoPages
          /\ (\E v \in Writers : Held(v, g)') => tmp'[g] \in InHand(g) \union NoPages
  BY <1>7, <1>8, <1>9, HeldInHand
<1>11. \A v \in Writers : writing'[v] = Quiet
         \/ /\ writing[v] # Quiet /\ writing'[v].file = writing[v].file
            /\ writing'[v].body = writing[v].body
  BY <1>1, <1>2, <1>3 DEF f, body
<1> QED
  BY <1>10, <1>11 DEF Moves

LEMMA RenameMoves == ASSUME WriteShape, NEW w \in Writers, Rename(w) PROVE Moves
<1> DEFINE f == writing[w].file
<1>1. f \in Files /\ writing[w] # Quiet /\ Held(w, f)
  BY QuietAt DEF Rename, WriteShape, At, Held
<1>2. /\ \A g \in Files \ {f} : tmp'[g] = tmp[g] /\ files'[g] = files[g]
      /\ files'[f] = tmp[f] /\ tmp'[f] = No("absent")
  BY <1>1 DEF Rename, Publish, WriteShape
<1>3. /\ writing'[w] = Quiet
      /\ \A v \in Writers \ {w} :
            ~(At(v, "write") /\ writing[v].file = f) => writing'[v] = writing[v]
  BY DEF Rename, Publish
<1>4. ASSUME NEW v \in Writers \ {w}, At(v, "write") /\ writing[v].file = f
      PROVE  /\ writing[v] # Quiet /\ writing'[v].file = f
             /\ writing'[v].body = writing[v].body
  <2>1. writing'[v] = [writing[v] EXCEPT !.at =
                          IF writing[v].at = "tmp" THEN "file" ELSE "gone"]
    BY <1>4 DEF Rename, Publish
  <2>2. DOMAIN writing[v] = Fields /\ writing[v] # Quiet
    BY <1>4, QuietAt DEF WriteShape
  <2> QED
    BY <1>4, <2>1, <2>2 DEF Fields
<1>5. No("absent") \in NoPages
  BY DEF NoPages
<1>6. tmp[f] \in InHand(f)
  BY <1>1, HeldInHand
<1> HIDE DEF f
<1>7. \A v \in Writers : writing'[v] = Quiet
         \/ /\ writing[v] # Quiet /\ writing'[v].file = writing[v].file
            /\ writing'[v].body = writing[v].body
  BY <1>3, <1>4
<1>8. \A g \in Files \ {f} : \A v \in Writers : Held(v, g)' => Held(v, g)
  <2> SUFFICES ASSUME NEW g \in Files \ {f}, NEW v \in Writers, Held(v, g)'
               PROVE  Held(v, g)
    OBVIOUS
  <2>1. v # w
    BY <1>3 DEF Held, At, Quiet
  <2>2. writing'[v] = writing[v]
    BY <1>3, <1>4, <2>1 DEF Held
  <2> QED
    BY <2>2 DEF Held, At
<1>9. \A g \in Files :
         /\ files'[g] \in {files[g]} \union InHand(g) \union NoPages
         /\ tmp'[g] \in {tmp[g]} \union InHand(g) \union NoPages
         /\ (\E v \in Writers : Held(v, g)') => tmp'[g] \in InHand(g) \union NoPages
  BY <1>2, <1>5, <1>6, <1>8, HeldInHand
<1> QED
  BY <1>7, <1>9 DEF Moves

\* After such a step nothing new is in hand.
LEMMA StillInHand ==
    ASSUME Moves, NEW f \in Files PROVE InHand(f)' \subseteq InHand(f) \union NoPages
<1> SUFFICES ASSUME NEW b \in InHand(f)' PROVE b \in InHand(f) \union NoPages
  OBVIOUS
<1>1. CASE \E w \in Writers : Held(w, f)' /\ b = tmp'[f]
  BY <1>1 DEF Moves
<1>2. CASE \E w \in Writers : /\ writing'[w] # Quiet /\ writing'[w].file = f
                              /\ b = writing'[w].body
  BY <1>2, BodyInHand DEF Moves
<1> QED
  BY <1>1, <1>2 DEF InHand

LEMMA StillDated ==
    ASSUME Moves, DateInv, fetches' = fetches PROVE DateInv'
<1>1. ASSUME NEW f \in Files, NEW b \in InHand(f) PROVE Dated(b)
  BY DEF InHand, DateInv
<1>2. \A b : Dated(b)' <=> Dated(b)
  BY DEF Dated
<1>3. \A b \in NoPages : Dated(b)
  BY NoPageIn DEF Dated
<1>4. \A f \in Files : Dated(files'[f]) /\ Dated(tmp'[f])
  BY <1>1, <1>3 DEF Moves, DateInv
<1>5. \A w \in Writers : writing'[w] = Quiet \/ Dated(writing'[w].body)
  BY DEF Moves, DateInv
<1> QED
  BY <1>4, <1>5 DEF DateInv, Dated

LEMMA StillNotOlder ==
    ASSUME Moves, NotOlder, DateInv, overlapped => overlapped', working' = working
    PROVE  NotOlder'
<1> SUFFICES ASSUME ~overlapped, NEW f \in Files, NEW b \in InHand(f)', PageIn(b)
             PROVE  /\ \A other \in InHand(f)' : PageIn(other) => other.fetch = b.fetch
                    /\ PageIn(files'[f]) => files'[f].fetch <= b.fetch
                    /\ PageIn(files'[f]) /\ working = {} => files'[f].fetch = b.fetch
  BY DEF NotOlder, PageIn
<1>1. b \in InHand(f) /\ \A other \in InHand(f)' : PageIn(other) => other \in InHand(f)
  BY StillInHand, NoPageIn
<1>2. /\ \A other \in InHand(f) : PageIn(other) => other.fetch = b.fetch
      /\ PageIn(files[f]) => files[f].fetch <= b.fetch
      /\ PageIn(files[f]) /\ working = {} => files[f].fetch = b.fetch
  BY <1>1 DEF NotOlder
<1>3. PageIn(files'[f]) => files'[f] = files[f] \/ files'[f] \in InHand(f)
  BY NoPageIn DEF Moves
<1>4. b.fetch \in Nat
  BY <1>1 DEF InHand, DateInv, Dated
<1>5. \A n : n = b.fetch => n <= b.fetch
  BY <1>4
<1> QED
  BY <1>1, <1>2, <1>3, <1>5

LEMMA OrderInit == Init => OrderInv
<1> SUFFICES ASSUME Init PROVE OrderInv
  OBVIOUS
<1>1. PICK old \in OldMirrors :
        files = [f \in Files |->
              IF \E u \in old : FileOf[u] = f
              THEN PageAt(f, CHOOSE u \in old : FileOf[u] = f, 0, FALSE)
              ELSE No("absent")]
  BY DEF Init
<1>2. /\ tmp = [f \in Files |-> No("absent")] /\ fetches = 0
      /\ writing = [w \in Writers |-> Quiet]
      /\ working = {} /\ \A p \in Passes : todo[p] = Off
  BY DEF Init
<1>3. \A f, u : PageAt(f, u, 0, FALSE).fetch = 0
  BY DEF PageAt
<1>4. Dated(No("absent")) /\ \A f, u : Dated(PageAt(f, u, 0, FALSE))
  <2>1. \A b : b.fetch = 0 => Dated(b)
    BY <1>2 DEF Dated
  <2> QED
    BY <1>3, <2>1 DEF Dated, PageIn, No
<1>5. DateInv
  <2>1. \A f \in Files : Dated(files[f]) /\ Dated(tmp[f])
    BY <1>1, <1>2, <1>4
  <2> QED
    BY <1>2, <2>1 DEF DateInv
<1>6. BusyInv
  BY <1>2 DEF BusyInv, Writers, Reprocessing
<1>7. \A f : InHand(f) = {}
  <2>1. \A w \in Writers : writing[w] = Quiet
    BY <1>2
  <2>2. \A f : \A w \in Writers : ~Held(w, f)
    BY <2>1, QuietAt DEF Held
  <2> QED
    BY <2>1, <2>2 DEF InHand
<1>8. NotOlder
  BY <1>7 DEF NotOlder
<1> QED
  BY <1>5, <1>6, <1>8 DEF OrderInv

\* A step of one who is at work, which puts nothing in hand.
LEMMA OrderMoves ==
    ASSUME OrderInv, Moves, fetches' = fetches, overlapped' = overlapped,
           working' = working,
           \A p \in Passes : todo'[p] = Off => todo[p] = Off \/ writing'[p] = Quiet,
           Reprocessing' \subseteq Reprocessing
    PROVE  OrderInv'
<1>1. DateInv' /\ NotOlder'
  BY StillDated, StillNotOlder DEF OrderInv
<1>2. \A c \in Crawls : writing'[c] = Quiet \/ c \in working'
  BY DEF OrderInv, BusyInv, Moves, Writers
<1>3. \A p \in Passes : writing'[p] = Quiet \/ todo'[p] # Off
  BY DEF OrderInv, BusyInv, Moves, Writers
<1>4. BusyInv'
  BY <1>2, <1>3 DEF OrderInv, BusyInv
<1> QED
  BY <1>1, <1>4 DEF OrderInv

LEMMA CallOrder ==
    ASSUME WriteShape, OrderInv, NEW w \in Writers, WriteFile(w)
    PROVE  OrderInv' /\ Moves /\ overlapped' = overlapped
<1>1. CASE WriteFails(w)
  <2>1. /\ UNCHANGED <<files, tmp>>
        /\ writing' = [writing EXCEPT ![w] = Quiet]
        /\ fetches' = fetches /\ working' = working /\ overlapped' = overlapped
        /\ todo' = IF w \in Passes THEN [todo EXCEPT ![w] = Off] ELSE todo
    BY <1>1 DEF WriteFails, disk, rows
  <2>2. /\ \A v \in Writers : writing'[v] \in {writing[v], Quiet}
        /\ writing'[w] = Quiet
    BY <2>1 DEF WriteShape
  <2>3. \A p \in Passes : todo'[p] = todo[p] \/ (p = w /\ todo'[p] = Off)
    BY <2>1 DEF WriteShape
  <2>4. Reprocessing' \subseteq Reprocessing
    BY <2>3 DEF Reprocessing
  <2> QED
    BY <2>1, <2>2, <2>3, <2>4, StillMoves, OrderMoves
<1>2. CASE Open(w) \/ Write(w) \/ Rename(w)
  <2>1. Moves
    BY <1>2, OpenMoves, WriteMoves, RenameMoves
  <2>2. /\ fetches' = fetches /\ working' = working /\ overlapped' = overlapped
        /\ todo' = todo /\ Reprocessing' = Reprocessing
    BY <1>2 DEF Open, Write, Rename, Publish, rows, Reprocessing
  <2> QED
    BY <2>1, <2>2, OrderMoves
<1> QED
  BY <1>1, <1>2 DEF WriteFile

\* Writers whose work is over.
LEMMA StopOrder ==
    ASSUME OrderInv, UNCHANGED <<files, tmp, fetches>>,
           \A v \in Writers : writing'[v] \in {writing[v], Quiet},
           working' \subseteq working, Reprocessing' \subseteq Reprocessing,
           overlapped' = overlapped,
           \A c \in Crawls : writing'[c] = Quiet \/ c \in working',
           \A p \in Passes : writing'[p] = Quiet \/ todo'[p] # Off
    PROVE  OrderInv' /\ Moves
<1>1. Moves
  BY StillMoves
<1>2. DateInv'
  BY <1>1, StillDated DEF OrderInv
<1>3. BusyInv'
  BY DEF OrderInv, BusyInv
<1>4. NotOlder'
  <2>1. CASE working' = working
    BY <1>1, <2>1, StillNotOlder DEF OrderInv
  <2>2. CASE overlapped
    BY <2>2 DEF NotOlder
  <2>3. CASE working' # working /\ ~overlapped
    <3>1. PICK c \in working : c \notin working'
      BY <2>3
    <3>2. working' = {} /\ Reprocessing' = {}
      BY <2>3, <3>1 DEF OrderInv, BusyInv
    <3>3. \A w \in Writers : writing'[w] = Quiet
      BY <3>2 DEF Writers, Reprocessing
    <3>4. \A f : InHand(f)' = {}
      BY <3>3 DEF InHand, Held, At, Quiet
    <3> QED
      BY <3>4 DEF NotOlder
  <2> QED
    BY <2>1, <2>2, <2>3
<1> QED
  BY <1>1, <1>2, <1>3, <1>4 DEF OrderInv

LEMMA StartCrawlOrder ==
    ASSUME OrderInv, NEW c \in Crawls, StartCrawl(c) PROVE OrderInv' /\ Moves
<1>1. /\ working' = working \union {c} /\ UNCHANGED <<files, tmp, writing, todo, fetches>>
      /\ overlapped' = (overlapped \/ working # {} \/ Reprocessing # {})
  BY DEF StartCrawl, Site!Start, disk
<1>2. Moves
  BY <1>1, StillMoves
<1>3. DateInv'
  BY <1>1, <1>2, StillDated DEF OrderInv
<1>4. Reprocessing' = Reprocessing
  BY <1>1 DEF Reprocessing
<1>5. BusyInv'
  BY <1>1, <1>4 DEF OrderInv, BusyInv
<1>6. NotOlder'
  <2>1. CASE overlapped'
    BY <2>1 DEF NotOlder
  <2>2. CASE ~overlapped'
    <3>1. \A w \in Writers : writing'[w] = Quiet
      BY <1>1, <2>2 DEF OrderInv, BusyInv, Writers, Reprocessing
    <3>2. \A f : InHand(f)' = {}
      BY <3>1 DEF InHand, Held, At, Quiet
    <3> QED
      BY <3>2 DEF NotOlder
  <2> QED
    BY <2>1, <2>2
<1> QED
  BY <1>2, <1>3, <1>5, <1>6 DEF OrderInv

LEMMA StartPassOrder ==
    ASSUME WriteShape, OrderInv, NEW p \in Passes, NEW found \in BOOLEAN,
           StartPass(p, found)
    PROVE  OrderInv' /\ Moves
<1>1. /\ UNCHANGED <<files, tmp, writing, working, fetches>>
      /\ todo' = [todo EXCEPT ![p] = {f \in Files : IsHTMLFile(f)}]
      /\ overlapped' = (overlapped \/ working # {})
  BY DEF StartPass, disk, rows
<1>2. Moves
  BY <1>1, StillMoves
<1>3. DateInv'
  BY <1>1, <1>2, StillDated DEF OrderInv
<1>4. \A q \in Passes : todo[q] # Off => todo'[q] # Off
  BY <1>1, OffAssumption DEF WriteShape, OffAssumption
<1>5. BusyInv'
  BY <1>1, <1>4 DEF OrderInv, BusyInv
<1>6. NotOlder'
  BY <1>1, <1>2, StillNotOlder DEF OrderInv
<1> QED
  BY <1>2, <1>3, <1>5, <1>6 DEF OrderInv

\* WriteFile begins with a body dated "fetch", or ends at a file in the way.
LEMMA BeginHand ==
    ASSUME WriteShape, NEW w \in Writers, NEW f \in Files, NEW body,
           writing[w] = Quiet, Begin(w, f, body)
    PROVE  /\ files' = files /\ tmp' = tmp
           /\ \A v \in Writers \ {w} : writing'[v] = writing[v]
           /\ writing'[w] = Quiet \/ (writing'[w] # Quiet /\ writing'[w].body = body)
           /\ \A g \in Files \ {f} : InHand(g)' \subseteq InHand(g)
           /\ InHand(f)' \subseteq InHand(f) \union {body}
<1> DEFINE record == [file |-> f, body |-> body, step |-> "open", at |-> "tmp"]
<1>1. /\ files' = files /\ tmp' = tmp
      /\ \A v \in Writers \ {w} : writing'[v] = writing[v]
      /\ writing'[w] \in {record, Quiet}
  BY DEF Begin, WriteShape
<1>2. record # Quiet /\ record.body = body /\ record.file = f /\ record.step = "open"
  BY DEF Quiet
<1> HIDE DEF record
<1>3. \A g : \A v \in Writers : Held(v, g)' => Held(v, g)
  BY <1>1, <1>2 DEF Held, At, Quiet
<1>4. ASSUME NEW g \in Files, NEW b \in InHand(g)'
      PROVE  b \in InHand(g) \/ (g = f /\ b = body)
  <2>1. CASE \E v \in Writers : Held(v, g)' /\ b = tmp'[g]
    BY <1>1, <1>3, <2>1, HeldInHand
  <2>2. CASE \E v \in Writers : /\ writing'[v] # Quiet /\ writing'[v].file = g
                                /\ b = writing'[v].body
    <3>1. PICK v \in Writers : /\ writing'[v] # Quiet /\ writing'[v].file = g
                               /\ b = writing'[v].body
      BY <2>2
    <3>2. CASE v = w
      BY <1>1, <1>2, <3>1, <3>2
    <3>3. CASE v # w
      BY <1>1, <3>1, <3>3, BodyInHand
    <3> QED
      BY <3>2, <3>3
  <2> QED
    BY <2>1, <2>2 DEF InHand
<1> QED
  BY <1>1, <1>2, <1>4

LEMMA FetchOrder ==
    ASSUME WriteShape, OrderInv, NEW c \in Crawls, NEW url \in URLs, Fetch(c, url)
    PROVE  OrderInv' /\ files' = files
<1> DEFINE f == FileOf[url]
           body == PageAt(f, url, fetches + 1, url \in HTML)
<1>1. /\ c \in working /\ writing[c] = Quiet /\ fetches' = fetches + 1
      /\ UNCHANGED <<working, todo, overlapped>> /\ Begin(c, f, body)
  BY DEF Fetch, rows
<1>2. f \in Files /\ c \in Writers
  BY FileInFiles DEF Writers
<1>3. body.fetch = fetches + 1 /\ PageIn(body)
  BY DEF PageAt, PageIn
<1> HIDE DEF f, body
<1>4. /\ files' = files /\ tmp' = tmp
      /\ \A v \in Writers \ {c} : writing'[v] = writing[v]
      /\ writing'[c] = Quiet \/ (writing'[c] # Quiet /\ writing'[c].body = body)
      /\ \A g \in Files \ {f} : InHand(g)' \subseteq InHand(g)
      /\ InHand(f)' \subseteq InHand(f) \union {body}
  BY <1>1, <1>2, BeginHand
<1>5. fetches \in Nat /\ fetches' \in Nat /\ fetches <= fetches'
  BY <1>1 DEF OrderInv, DateInv
<1>6. DateInv'
  <2> DEFINE Now(b) == PageIn(b) => b.fetch \in Nat /\ b.fetch <= fetches'
  <2>1. \A b : Dated(b) => Now(b)
    BY <1>5 DEF Dated
  <2>2. Now(body)
    BY <1>1, <1>3, <1>5
  <2> HIDE DEF Now
  <2>3. \A g \in Files : Now(files'[g]) /\ Now(tmp'[g])
    BY <1>4, <2>1 DEF OrderInv, DateInv
  <2>4. \A w \in Writers : writing'[w] = Quiet \/ Now(writing'[w].body)
    BY <1>4, <2>1, <2>2 DEF OrderInv, DateInv
  <2> QED
    BY <1>5, <2>3, <2>4 DEF DateInv, Dated, PageIn, Now
<1>7. BusyInv'
  <2>1. Reprocessing' = Reprocessing
    BY <1>1 DEF Reprocessing
  <2> QED
    BY <1>1, <1>4, <2>1, WritersAssumption
    DEF OrderInv, BusyInv, Writers, WritersAssumption
<1>8. NotOlder'
  <2> SUFFICES ASSUME ~overlapped PROVE NotOlder'
    BY <1>1 DEF NotOlder
  <2>1. \A w \in Writers : writing[w] = Quiet
    BY <1>1 DEF OrderInv, BusyInv, Writers, Reprocessing
  <2>2. \A g : InHand(g) = {}
    BY <2>1, QuietAt DEF InHand, Held
  <2>3. \A g \in Files : \A b \in InHand(g)' : b = body
    BY <1>4, <2>2
  <2>4. \A g \in Files : PageIn(files[g]) => files[g].fetch <= body.fetch
    BY <1>3, <1>5 DEF OrderInv, DateInv, Dated
  <2> QED
    BY <1>1, <1>4, <2>3, <2>4 DEF NotOlder, PageIn
<1> QED
  BY <1>4, <1>6, <1>7, <1>8 DEF OrderInv

LEMMA VisitOrder ==
    ASSUME WriteShape, OrderInv, NEW p \in Passes, NEW f \in Files, Visit(p, f)
    PROVE  OrderInv' /\ files' = files
<1> DEFINE body == RewriteAgain(f, files[f])
<1>1. /\ todo[p] # Off /\ writing[p] = Quiet
      /\ UNCHANGED <<fetches, working, overlapped>>
      /\ todo' = [todo EXCEPT ![p] = todo[p] \ {f}]
      /\ UNCHANGED <<disk, writing>> \/ Begin(p, f, body)
  BY DEF Visit, rows
<1>2. p \in Writers /\ todo[p] \in SUBSET Files
  BY <1>1 DEF Writers, WriteShape
<1>3. /\ todo'[p] # Off
      /\ \A q \in Passes : todo[q] # Off => todo'[q] # Off
      /\ Reprocessing' = Reprocessing
  <2>1. todo[p] \ {f} # Off
    BY <1>2, OffAssumption DEF OffAssumption
  <2>2. todo'[p] # Off /\ \A q \in Passes \ {p} : todo'[q] = todo[q]
    BY <1>1, <2>1 DEF WriteShape
  <2> QED
    BY <1>1, <2>2 DEF Reprocessing
<1>4. CASE UNCHANGED <<disk, writing>>
  <2>1. UNCHANGED <<files, tmp, fetches>> /\ \A v \in Writers : writing'[v] = writing[v]
    BY <1>1, <1>4 DEF disk
  <2>2. /\ \A c \in Crawls : writing'[c] = Quiet \/ c \in working'
        /\ \A q \in Passes : writing'[q] = Quiet \/ todo'[q] # Off
    BY <1>1, <1>3, <1>4 DEF OrderInv, BusyInv
  <2> QED
    BY <1>1, <1>3, <2>1, <2>2, StopOrder
<1>5. CASE Begin(p, f, body)
  <2>1. PageIn(body) => PageIn(files[f]) /\ body.fetch = files[f].fetch
    BY DEF RewriteAgain, PageIn, No
  <2> HIDE DEF body
  <2>2. /\ files' = files /\ tmp' = tmp
        /\ \A v \in Writers \ {p} : writing'[v] = writing[v]
        /\ writing'[p] = Quiet \/ (writing'[p] # Quiet /\ writing'[p].body = body)
        /\ \A g \in Files \ {f} : InHand(g)' \subseteq InHand(g)
        /\ InHand(f)' \subseteq InHand(f) \union {body}
    BY <1>1, <1>2, <1>5, BeginHand
  <2>3. DateInv'
    <3>1. \A b : Dated(b)' <=> Dated(b)
      BY <1>1 DEF Dated
    <3>2. Dated(body)
      BY <2>1 DEF OrderInv, DateInv, Dated
    <3>3. \A g \in Files : Dated(files'[g]) /\ Dated(tmp'[g])
      BY <2>2 DEF OrderInv, DateInv
    <3>4. \A w \in Writers : writing'[w] = Quiet \/ Dated(writing'[w].body)
      BY <2>2, <3>2 DEF OrderInv, DateInv
    <3> QED
      BY <1>1, <3>3, <3>4 DEF OrderInv, DateInv, Dated
  <2>4. BusyInv'
    BY <1>1, <1>3, <2>2, WritersAssumption
    DEF OrderInv, BusyInv, Writers, WritersAssumption
  <2>5. NotOlder'
    <3> SUFFICES ASSUME ~overlapped, NEW g \in Files, NEW b \in InHand(g)', PageIn(b)
                 PROVE  /\ \A other \in InHand(g)' :
                              PageIn(other) => other.fetch = b.fetch
                        /\ PageIn(files[g]) => files[g].fetch <= b.fetch
                        /\ PageIn(files[g]) /\ working = {}
                              => files[g].fetch = b.fetch
      BY <1>1, <2>2 DEF NotOlder, PageIn
    <3>1. working = {}
      BY <1>1 DEF OrderInv, BusyInv, Reprocessing
    <3>2. \A h \in Files : PageIn(files[h]) => files[h].fetch \in Nat
      BY DEF OrderInv, DateInv, Dated
    <3>3. \A h \in Files : \A i \in InHand(h) :
             PageIn(i) =>
             /\ \A j \in InHand(h) : PageIn(j) => j.fetch = i.fetch
             /\ PageIn(files[h]) => files[h].fetch = i.fetch
      BY <3>1 DEF OrderInv, NotOlder
    <3>4. CASE g # f
      BY <2>2, <3>2, <3>3, <3>4 DEF OrderInv, NotOlder
    <3>5. CASE g = f
      <4>1. \A i \in InHand(f)' :
               PageIn(i) => i = body \/ i \in InHand(f)
        BY <2>2
      <4>2. \A i \in InHand(f)' :
               PageIn(i) /\ PageIn(files[f]) => i.fetch = files[f].fetch
        BY <2>1, <3>3, <4>1
      <4>3. CASE PageIn(files[f])
        <5>1. files[f].fetch \in Nat /\ b.fetch = files[f].fetch
          BY <3>2, <3>5, <4>2, <4>3
        <5> QED
          BY <3>5, <4>2, <4>3, <5>1
      <4>4. CASE ~PageIn(files[f])
        BY <2>1, <3>3, <3>5, <4>1, <4>4
      <4> QED
        BY <4>3, <4>4
    <3> QED
      BY <3>4, <3>5
  <2> QED
    BY <2>2, <2>3, <2>4, <2>5 DEF OrderInv
<1> QED
  BY <1>1, <1>4, <1>5, StillMoves DEF disk

\* A step keeps the order, and a file stays, is from a hand or is no page.
LEMMA OrderStep ==
    ASSUME WriteShape, OrderInv, [Next]_vars
    PROVE  /\ OrderInv' /\ (overlapped => overlapped')
           /\ \A f \in Files :
                 files'[f] \in {files[f]} \union InHand(f) \union NoPages
<1> DEFINE Kept == /\ OrderInv' /\ (overlapped => overlapped')
                   /\ \A f \in Files :
                         files'[f] \in {files[f]} \union InHand(f) \union NoPages
<1>1. ASSUME OrderInv', overlapped => overlapped', Moves \/ files' = files
      PROVE  Kept
  BY <1>1 DEF Moves
<1> HIDE DEF Kept
<1>2. ASSUME NEW w \in Writers, WriteFile(w) PROVE Kept
  BY <1>1, <1>2, CallOrder
<1>3. ASSUME UNCHANGED <<disk, writing, todo, fetches, overlapped, working>>
      PROVE  Kept
  <2>1. /\ UNCHANGED <<files, tmp, fetches>>
        /\ \A v \in Writers : writing'[v] \in {writing[v], Quiet}
        /\ working' = working /\ overlapped' = overlapped /\ writing' = writing
        /\ todo' = todo /\ Reprocessing' = Reprocessing
    BY <1>3 DEF disk, Reprocessing
  <2>2. /\ \A c \in Crawls : writing'[c] = Quiet \/ c \in working'
        /\ \A p \in Passes : writing'[p] = Quiet \/ todo'[p] # Off
    BY <2>1 DEF OrderInv, BusyInv
  <2> QED
    BY <1>1, <2>1, <2>2, StopOrder
<1>4. ASSUME NEW c \in Crawls, StartCrawl(c) PROVE Kept
  <2>1. overlapped => overlapped'
    BY <1>4 DEF StartCrawl, Site!Start
  <2> QED
    BY <1>1, <1>4, <2>1, StartCrawlOrder
<1>5. ASSUME NEW c \in Crawls, EndCrawl(c) \/ CrawlKilled(c) PROVE Kept
  <2>1. /\ UNCHANGED <<files, tmp, fetches>>
        /\ working' = working \ {c} /\ overlapped' = overlapped
        /\ todo' = todo /\ Reprocessing' = Reprocessing
    BY <1>5 DEF EndCrawl, Site!End, CrawlKilled, disk, Reprocessing
  <2>2. /\ \A v \in Writers : writing'[v] \in {writing[v], Quiet}
        /\ writing'[c] = Quiet
    BY <1>5 DEF EndCrawl, Site!End, CrawlKilled, WriteShape, Writers
  <2>3. /\ \A d \in Crawls : writing'[d] = Quiet \/ d \in working'
        /\ \A p \in Passes : writing'[p] = Quiet \/ todo'[p] # Off
    BY <2>1, <2>2 DEF OrderInv, BusyInv, Writers
  <2> QED
    BY <1>1, <2>1, <2>2, <2>3, StopOrder
<1>6. ASSUME NEW c \in Crawls, NEW url \in URLs, Fetch(c, url) PROVE Kept
  <2>1. overlapped' = overlapped
    BY <1>6 DEF Fetch
  <2> QED
    BY <1>1, <1>6, <2>1, FetchOrder
<1>7. ASSUME NEW p \in Passes, NEW found \in BOOLEAN, StartPass(p, found) PROVE Kept
  <2>1. overlapped => overlapped'
    BY <1>7 DEF StartPass
  <2> QED
    BY <1>1, <1>7, <2>1, StartPassOrder
<1>8. ASSUME NEW p \in Passes, NEW file \in Files, Visit(p, file) PROVE Kept
  <2>1. overlapped' = overlapped
    BY <1>8 DEF Visit
  <2> QED
    BY <1>1, <1>8, <2>1, VisitOrder
<1>9. ASSUME NEW p \in Passes, PassEnds(p) \/ PassLost(p) PROVE Kept
  <2>1. /\ UNCHANGED <<files, tmp, fetches>>
        /\ working' = working /\ overlapped' = overlapped
        /\ todo' = [todo EXCEPT ![p] = Off]
    BY <1>9 DEF PassEnds, PassLost, disk, rows
  <2>2. /\ \A v \in Writers : writing'[v] \in {writing[v], Quiet}
        /\ writing'[p] = Quiet
    BY <1>9 DEF PassEnds, PassLost, WriteShape, Writers
  <2>3. \A q \in Passes \ {p} : todo'[q] = todo[q]
    BY <2>1 DEF WriteShape
  <2>4. Reprocessing' \subseteq Reprocessing
    BY <2>1, <2>3 DEF Reprocessing, WriteShape
  <2>5. /\ \A c \in Crawls : writing'[c] = Quiet \/ c \in working'
        /\ \A q \in Passes : writing'[q] = Quiet \/ todo'[q] # Off
    BY <2>1, <2>2, <2>3 DEF OrderInv, BusyInv, Writers
  <2> QED
    BY <1>1, <2>1, <2>2, <2>4, <2>5, StopOrder
<1>10. ASSUME RowOpened \/ RowClosed PROVE Kept
  <2>1. UNCHANGED <<disk, writing, todo, fetches, overlapped, working>>
    BY <1>10 DEF RowOpened, Site!RowOpened, RowClosed, Site!RowClosed
  <2> QED
    BY <1>3, <2>1
<1>11. ASSUME UNCHANGED vars PROVE Kept
  <2>1. UNCHANGED <<disk, writing, todo, fetches, overlapped, working>>
    BY <1>11 DEF vars, rows
  <2> QED
    BY <1>3, <2>1
<1>12. Kept
  <2>1. CASE \E w \in Writers : WriteFile(w)
    BY <1>2, <2>1
  <2>2. CASE \E c \in Crawls :
               \/ StartCrawl(c) \/ EndCrawl(c) \/ CrawlKilled(c)
               \/ \E url \in URLs : Fetch(c, url)
    BY <1>4, <1>5, <1>6, <2>2
  <2>3. CASE \E p \in Passes :
               \/ \E found \in BOOLEAN : StartPass(p, found)
               \/ \E file \in Files : Visit(p, file)
               \/ PassEnds(p) \/ PassLost(p)
    BY <1>7, <1>8, <1>9, <2>3
  <2>4. CASE RowOpened \/ RowClosed \/ UNCHANGED vars
    BY <1>10, <1>11, <2>4
  <2> QED
    BY <2>1, <2>2, <2>3, <2>4 DEF Next
<1> QED
  BY <1>12 DEF Kept

LEMMA OrderNext == WriteShape /\ OrderInv /\ [Next]_vars => OrderInv'
BY OrderStep

\* For every site and any number of crawls, passes, failures and kills: a page
\* gives way to an older one only where two crawls, or a crawl and Reprocess,
\* were at work at one time.
THEOREM PagesOnlyGetNewer == Spec => NoStepBack
<1>1. /\ WriteShape /\ OrderInv /\ [Next]_vars
      => [\A f \in Files :
            /\ files[f].kind = "page" /\ files'[f].kind = "page"
            /\ files'[f].fetch < files[f].fetch
            => overlapped']_vars
  <2> SUFFICES ASSUME WriteShape, OrderInv, [Next]_vars, NEW f \in Files,
                      PageIn(files[f]), PageIn(files'[f]), ~overlapped'
               PROVE  ~(files'[f].fetch < files[f].fetch)
    BY DEF PageIn
  <2>1. ~overlapped /\ files'[f] \in {files[f]} \union InHand(f)
    BY OrderStep, NoPageIn
  <2>2. files[f].fetch \in Nat
    BY DEF OrderInv, DateInv, Dated
  <2>3. CASE files'[f] = files[f]
    BY <2>2, <2>3
  <2>4. CASE files'[f] \in InHand(f)
    <3>1. files[f].fetch <= files'[f].fetch
      BY <2>1, <2>4 DEF OrderInv, NotOlder
    <3>2. files'[f].fetch \in Nat
      BY <2>4 DEF OrderInv, DateInv, Dated, InHand
    <3> QED
      BY <2>2, <3>1, <3>2
  <2> QED
    BY <2>1, <2>3, <2>4
<1>2. WholeInv => WriteShape
  BY DEF WholeInv
<1> QED
  BY <1>1, <1>2, WholeInit, WholeNext, OrderInit, OrderNext, PTL DEF Spec, NoStepBack

(***************************************************************************)
(* What is in the files.                                                   *)
(***************************************************************************)
\* The links of a page are relPath to the paths of stored files.
Linked(body, f) ==
    body.kind = "page" =>
    \A v \in DOMAIN body.links :
       \E t : Stored(t) /\ body.links[v] = RelPath(Dir(f), t)

Proper(body, f) == Contents(body, f) /\ Linked(body, f)

ProperInv ==
    /\ \A f \in Files : Proper(files[f], f) /\ Proper(tmp[f], f)
    /\ \A w \in Writers :
          writing[w] = Quiet \/ Proper(writing[w].body, writing[w].file)

RestInv ==
    /\ dirs \subseteq Files /\ crossed \subseteq Files
    /\ working \subseteq Crawls /\ calm \subseteq Passes
    /\ open \in BOOLEAN /\ overlapped \in BOOLEAN
    /\ fetches \in 0 .. MaxFetches
    /\ \A w \in Writers : writing[w] = Quiet \/ writing[w].at \in Places

TypeInv == ProperInv /\ RestInv

LEMMA TypeHolds == WriteShape /\ TypeInv => TypeOK
BY DEF WriteShape, TypeInv, ProperInv, RestInv, Proper, TypeOK

LEMMA NoPageProper == \A body \in NoPages : \A f : Proper(body, f)
BY DEF Proper, Contents, Linked, NoPages, No

LEMMA UpBound ==
    ASSUME NEW f \in Files, NEW t, Stored(t)
    PROVE  RelPath(Dir(f), t).up \in 0 .. Len(Dir(f))
<1> DEFINE S == Names \union Range(t)
           c == Common(Dir(f), t)
<1>1. Dir(f) \in Seq(S) /\ t \in Seq(S)
  BY FileSeq DEF Stored
<1> HIDE DEF S
<1>2. c \in 0 .. Len(Dir(f)) /\ Len(Dir(f)) \in Nat
  BY <1>1, CommonPrefix
<1>3. RelPath(Dir(f), t).up = Len(Dir(f)) - c
  BY DEF RelPath
<1> HIDE DEF c
<1> QED
  BY <1>2, <1>3

LEMMA PageProper ==
    ASSUME NEW url \in URLs, NEW fetch \in 0 .. MaxFetches, NEW stripped \in BOOLEAN
    PROVE  Proper(PageAt(FileOf[url], url, fetch, stripped), FileOf[url])
<1> DEFINE f == FileOf[url]
           page == PageAt(f, url, fetch, stripped)
<1>1. f \in Files /\ LinksOf(url) \subseteq URLs
  BY FileInFiles, NamesAssumption DEF NamesAssumption
<1>2. /\ page.kind = "page" /\ page.of = url /\ page.fetch = fetch
      /\ page.stripped = stripped /\ DOMAIN page.links = LinksOf(url)
      /\ \A v \in LinksOf(url) : page.links[v] = RelPath(Dir(f), FileOf[v])
  BY DEF PageAt
<1> HIDE DEF page
<1>3. Linked(page, f)
  BY <1>1, <1>2, FileStored DEF Linked
<1>4. \A v \in LinksOf(url) : page.links[v].up \in 0 .. Len(Dir(f))
  BY <1>1, <1>2, FileStored, UpBound
<1>5. IsPage(page, f)
  BY <1>2, <1>4 DEF IsPage
<1> QED
  BY <1>3, <1>5 DEF Proper, Contents, page

\* What the rewriter makes of a page, link by link.
LEMMA Rewritten ==
    ASSUME NEW f, NEW body, body.kind = "page", body.of \in HTML
    PROVE  /\ RewriteAgain(f, body) =
                 [kind |-> "page", of |-> body.of, fetch |-> body.fetch,
                  stripped |-> TRUE, links |-> RewriteAgain(f, body).links]
           /\ DOMAIN RewriteAgain(f, body).links = DOMAIN body.links
           /\ \A v \in DOMAIN body.links :
                 RewriteAgain(f, body).links[v] =
                    RelPath(Dir(f), LocalPathFor(Resolve(Dir(f), body.links[v])))
BY DEF RewriteAgain

LEMMA RewriteProper ==
    ASSUME NEW f \in Files, NEW body, Proper(body, f)
    PROVE  Proper(RewriteAgain(f, body), f)
<1> DEFINE out == RewriteAgain(f, body)
<1>1. CASE body.kind = "page" /\ body.of \in HTML
  <2>1. /\ out.kind = "page" /\ out.of = body.of /\ out.fetch = body.fetch
        /\ out.stripped = TRUE /\ DOMAIN out.links = DOMAIN body.links
        /\ \A v \in DOMAIN body.links :
              out.links[v] =
                 RelPath(Dir(f), LocalPathFor(Resolve(Dir(f), body.links[v])))
    BY <1>1, Rewritten
  <2> HIDE DEF out
  <2>2. ASSUME NEW v \in DOMAIN body.links
        PROVE  \E t : Stored(t) /\ out.links[v] = RelPath(Dir(f), t)
    <3>1. PICK t : Stored(t) /\ body.links[v] = RelPath(Dir(f), t)
      BY <1>1 DEF Proper, Linked
    <3>2. Stored(LocalPathFor(Resolve(Dir(f), body.links[v])))
      BY <3>1, LinkAgain
    <3> QED
      BY <2>1, <3>2
  <2>3. \A v \in DOMAIN body.links : out.links[v].up \in 0 .. Len(Dir(f))
    BY <2>2, UpBound
  <2>4. IsPage(body, f)
    <3>1. body \notin NoPages
      BY <1>1 DEF NoPages, No
    <3> QED
      BY <3>1 DEF Proper, Contents
  <2>5. IsPage(out, f)
    BY <2>1, <2>3, <2>4 DEF IsPage
  <2>6. Linked(out, f)
    BY <2>1, <2>2 DEF Linked
  <2> QED
    BY <2>5, <2>6 DEF Proper, Contents, out
<1>2. CASE ~(body.kind = "page" /\ body.of \in HTML)
  <2>1. out = No("mangled") /\ No("mangled") \in NoPages
    BY <1>2 DEF RewriteAgain, NoPages
  <2> QED
    BY <2>1, NoPageProper
<1> QED
  BY <1>1, <1>2

LEMMA InHandProper ==
    ASSUME ProperInv, NEW f \in Files, NEW b \in InHand(f) PROVE Proper(b, f)
BY DEF InHand, ProperInv

LEMMA StillProper == ASSUME ProperInv, Moves PROVE ProperInv'
<1>1. \A f \in Files : Proper(files'[f], f) /\ Proper(tmp'[f], f)
  BY InHandProper, NoPageProper DEF Moves, ProperInv
<1>2. \A w \in Writers :
         writing'[w] = Quiet \/ Proper(writing'[w].body, writing'[w].file)
  BY DEF Moves, ProperInv
<1> QED
  BY <1>1, <1>2 DEF ProperInv

LEMMA BeginTyped ==
    ASSUME WriteShape, TypeInv, NEW w \in Writers, NEW f \in Files, NEW body,
           Proper(body, f), Begin(w, f, body)
    PROVE  /\ ProperInv' /\ dirs' \subseteq Files
           /\ \A v \in Writers : writing'[v] = Quiet \/ writing'[v].at \in Places
<1> DEFINE record == [file |-> f, body |-> body, step |-> "open", at |-> "tmp"]
<1>1. /\ files' = files /\ tmp' = tmp /\ dirs' \subseteq dirs \union Files
      /\ \A v \in Writers \ {w} : writing'[v] = writing[v]
      /\ writing'[w] \in {record, Quiet}
  BY DEF Begin, WriteShape
<1>2. record.file = f /\ record.body = body /\ record.at \in Places
  BY DEF Places
<1> HIDE DEF record
<1>3. \A v \in Writers :
         \/ writing'[v] = Quiet
         \/ /\ Proper(writing'[v].body, writing'[v].file)
            /\ writing'[v].at \in Places
  BY <1>1, <1>2 DEF TypeInv, ProperInv, RestInv
<1> QED
  BY <1>1, <1>3 DEF TypeInv, ProperInv, RestInv

LEMMA TypeInit == Init => TypeInv
<1> SUFFICES ASSUME Init PROVE TypeInv
  OBVIOUS
<1>1. PICK old \in OldMirrors :
        /\ files = [f \in Files |->
              IF \E u \in old : FileOf[u] = f
              THEN PageAt(f, CHOOSE u \in old : FileOf[u] = f, 0, FALSE)
              ELSE No("absent")]
        /\ dirs = Files \intersect UNION {Above(FileOf[u]) : u \in old}
  BY DEF Init
<1>2. 0 \in 0 .. MaxFetches
  BY FetchesAssumption DEF FetchesAssumption
<1>3. ASSUME NEW f \in Files PROVE Proper(files[f], f)
  <2>1. CASE \E u \in old : FileOf[u] = f
    <3> DEFINE u == CHOOSE u \in old : FileOf[u] = f
    <3>1. u \in URLs /\ FileOf[u] = f
      BY <2>1, OldAssumption DEF OldAssumption
    <3>2. files[f] = PageAt(f, u, 0, FALSE)
      BY <1>1, <2>1
    <3> HIDE DEF u
    <3> QED
      BY <1>2, <3>1, <3>2, PageProper
  <2>2. CASE ~\E u \in old : FileOf[u] = f
    BY <1>1, <2>2, NoPageProper DEF NoPages
  <2> QED
    BY <2>1, <2>2
<1>4. ProperInv
  BY <1>3, NoPageProper DEF Init, ProperInv, NoPages
<1>5. RestInv
  BY <1>1, <1>2 DEF Init, RestInv
<1> QED
  BY <1>4, <1>5 DEF TypeInv

\* A call of WriteFile.
LEMMA CallTyped ==
    ASSUME WriteShape, TypeInv, NEW w \in Writers, WriteFile(w) PROVE TypeInv'
<1>1. /\ UNCHANGED <<dirs, working, open, fetches, overlapped>>
      /\ calm' \subseteq calm
  BY DEF WriteFile, Open, Write, Rename, Publish, WriteFails, disk, rows
<1>2. Moves
  <2>1. CASE WriteFails(w)
    BY <2>1, StillMoves DEF WriteFails, disk, WriteShape
  <2> QED
    BY <2>1, OpenMoves, WriteMoves, RenameMoves DEF WriteFile
<1>3. crossed' \subseteq Files
  <2>1. CASE Open(w)
    <3>1. writing[w].file \in Files
      BY <2>1, QuietAt DEF Open, WriteShape
    <3> QED
      BY <2>1, <3>1 DEF Open, TypeInv, RestInv
  <2> QED
    BY <2>1 DEF WriteFile, Write, Rename, Publish, WriteFails, TypeInv, RestInv
<1>4. ASSUME NEW v \in Writers, writing'[v] # Quiet PROVE writing'[v].at \in Places
  <2>1. writing[v] # Quiet /\ DOMAIN writing[v] = Fields /\ writing[v].at \in Places
    BY <1>2, <1>4 DEF Moves, WriteShape, TypeInv, RestInv
  <2>2. writing'[v] \in {writing[v], [writing[v] EXCEPT !.step = "write"],
                         [writing[v] EXCEPT !.step = "rename", !.at = "tmp"],
                         [writing[v] EXCEPT !.at = "file"],
                         [writing[v] EXCEPT !.at = "gone"]}
    <3>1. CASE Open(w)
      BY <3>1 DEF Open, WriteShape
    <3>2. CASE Write(w)
      BY <3>2 DEF Write, WriteShape
    <3>3. CASE Rename(w)
      BY <1>4, <3>3 DEF Rename, Publish
    <3>4. CASE WriteFails(w)
      BY <1>4, <3>4 DEF WriteFails, WriteShape
    <3> QED
      BY <3>1, <3>2, <3>3, <3>4 DEF WriteFile
  <2> QED
    BY <2>1, <2>2 DEF Fields, Places
<1> QED
  BY <1>1, <1>2, <1>3, <1>4, StillProper DEF TypeInv, RestInv

\* A step that stops writers and leaves the disk alone.
LEMMA StillTyped ==
    ASSUME TypeInv, UNCHANGED <<files, tmp, dirs, crossed, fetches>>,
           \A v \in Writers : writing'[v] \in {writing[v], Quiet},
           working' \subseteq Crawls, calm' \subseteq Passes,
           open' \in BOOLEAN, overlapped' \in BOOLEAN
    PROVE  TypeInv'
<1>1. ProperInv'
  BY StillMoves, StillProper DEF TypeInv
<1> QED
  BY <1>1 DEF TypeInv, RestInv

LEMMA TypeNext == WriteShape /\ TypeInv /\ [Next]_vars => TypeInv'
<1> SUFFICES ASSUME WriteShape, TypeInv, [Next]_vars PROVE TypeInv'
  OBVIOUS
<1> USE DEF disk, rows
<1>1. ASSUME NEW c \in Crawls, StartCrawl(c) PROVE TypeInv'
  <2>1. overlapped' \in BOOLEAN
    BY <1>1 DEF StartCrawl, Site!Start
  <2> QED
    BY <1>1, <2>1, StillTyped DEF StartCrawl, Site!Start, TypeInv, RestInv
<1>2. ASSUME NEW c \in Crawls, EndCrawl(c) \/ CrawlKilled(c) PROVE TypeInv'
  <2>1. \A v \in Writers : writing'[v] \in {writing[v], Quiet}
    BY <1>2 DEF EndCrawl, Site!End, CrawlKilled, WriteShape
  <2>2. open' \in BOOLEAN
    BY <1>2 DEF EndCrawl, Site!End, CrawlKilled, TypeInv, RestInv
  <2> QED
    BY <1>2, <2>1, <2>2, StillTyped DEF EndCrawl, Site!End, CrawlKilled, TypeInv, RestInv
<1>3. ASSUME NEW c \in Crawls, NEW url \in URLs, Fetch(c, url) PROVE TypeInv'
  <2>1. c \in Writers /\ FileOf[url] \in Files
    BY FileInFiles DEF Writers
  <2>2. fetches + 1 \in 0 .. MaxFetches
    BY <1>3, FetchesAssumption DEF Fetch, TypeInv, RestInv, FetchesAssumption
  <2>3. Proper(PageAt(FileOf[url], url, fetches + 1, url \in HTML), FileOf[url])
    <3> DEFINE n == fetches + 1
               stripped == url \in HTML
    <3>1. n \in 0 .. MaxFetches /\ stripped \in BOOLEAN
      BY <2>2
    <3> HIDE DEF n, stripped
    <3>2. Proper(PageAt(FileOf[url], url, n, stripped), FileOf[url])
      BY <3>1, PageProper
    <3> QED
      BY <3>2 DEF n, stripped
  <2>4. /\ ProperInv' /\ dirs' \subseteq Files
        /\ \A v \in Writers : writing'[v] = Quiet \/ writing'[v].at \in Places
    BY <1>3, <2>1, <2>3, BeginTyped DEF Fetch
  <2> QED
    BY <1>3, <2>2, <2>4 DEF Fetch, TypeInv, RestInv
<1>4. ASSUME NEW p \in Passes, NEW found \in BOOLEAN, StartPass(p, found)
      PROVE  TypeInv'
  <2>1. overlapped' \in BOOLEAN /\ calm' \subseteq Passes
    BY <1>4 DEF StartPass, TypeInv, RestInv
  <2> QED
    BY <1>4, <2>1, StillTyped DEF StartPass, TypeInv, RestInv
<1>5. ASSUME NEW p \in Passes, NEW file \in Files, Visit(p, file) PROVE TypeInv'
  <2>1. CASE UNCHANGED <<disk, writing>>
    BY <1>5, <2>1, StillTyped DEF Visit, TypeInv, RestInv
  <2>2. CASE Begin(p, file, RewriteAgain(file, files[file]))
    <3>1. p \in Writers /\ Proper(RewriteAgain(file, files[file]), file)
      BY RewriteProper DEF TypeInv, ProperInv, Writers
    <3>2. /\ ProperInv' /\ dirs' \subseteq Files
          /\ \A v \in Writers : writing'[v] = Quiet \/ writing'[v].at \in Places
      BY <2>2, <3>1, BeginTyped
    <3> QED
      BY <1>5, <3>2 DEF Visit, TypeInv, RestInv
  <2> QED
    BY <1>5, <2>1, <2>2 DEF Visit
<1>6. ASSUME NEW p \in Passes, PassEnds(p) \/ PassLost(p) PROVE TypeInv'
  <2>1. \A v \in Writers : writing'[v] \in {writing[v], Quiet}
    BY <1>6 DEF PassEnds, PassLost, WriteShape
  <2> QED
    BY <1>6, <2>1, StillTyped DEF PassEnds, PassLost, TypeInv, RestInv
<1>7. CASE RowOpened \/ RowClosed
  BY <1>7, StillTyped
     DEF RowOpened, Site!RowOpened, RowClosed, Site!RowClosed, TypeInv, RestInv
<1>8. CASE UNCHANGED vars
  BY <1>8, StillTyped DEF vars, TypeInv, RestInv
<1> QED
  BY <1>1, <1>2, <1>3, <1>4, <1>5, <1>6, <1>7, <1>8, CallTyped DEF Next

\* Types: a file never holds anything but a page that belongs there, with links
\* that go no further up than the mirror, or one of the four that are no page,
\* after any number of rewrites.
THEOREM TypeCorrect == Spec => []TypeOK
<1>1. WholeInv => WriteShape
  BY DEF WholeInv
<1> QED
  BY <1>1, WholeInit, WholeNext, TypeInit, TypeNext, TypeHolds, PTL DEF Spec

(***************************************************************************)
(* After a pass another one has nothing to do.                             *)
(***************************************************************************)
\* A page below a directory that is called index.html is left out: to the
\* rewriter a link to that directory is one to the index.html in it, and to the
\* next pass, where that is a directory as well, to the index.html in that.
NoIndexDirectories == \A f \in Files : \A d \in Above(f) : Last(d) # IndexName

Settled(f, body) == body \in {No("absent"), RewriteAgain(f, body)}

\* A pass that has been alone since its start: the files it is through with are
\* settled, and the one it writes will be.
SettleInv ==
    \A p \in calm :
       /\ working = {} /\ Reprocessing = {p}
       /\ \A f \in Files :
             IsHTMLFile(f) /\ f \notin todo[p] =>
                Settled(f, files[f]) \/ (writing[p] # Quiet /\ writing[p].file = f)
       /\ writing[p] # Quiet =>
             /\ Settled(writing[p].file, writing[p].body)
             /\ writing[p].at = "tmp"
             /\ At(p, "write") => tmp[writing[p].file] = No("cut")
             /\ At(p, "rename") => tmp[writing[p].file] = writing[p].body

LEMMA RewriteSettles ==
    ASSUME NoIndexDirectories, NEW f \in Files, NEW body, Proper(body, f)
    PROVE  Settled(f, RewriteAgain(f, body))
<1> DEFINE out == RewriteAgain(f, body)
<1>1. CASE body.kind = "page" /\ body.of \in HTML
  <2> DEFINE again == RewriteAgain(f, out)
             Target(links, v) ==
                RelPath(Dir(f), LocalPathFor(Resolve(Dir(f), links[v])))
  <2>1. /\ out = [kind |-> "page", of |-> body.of, fetch |-> body.fetch,
                  stripped |-> TRUE, links |-> out.links]
        /\ out.links = [v \in DOMAIN body.links |-> Target(body.links, v)]
    BY <1>1 DEF RewriteAgain
  <2> HIDE DEF out
  <2>2. /\ again = [kind |-> "page", of |-> body.of, fetch |-> body.fetch,
                    stripped |-> TRUE, links |-> again.links]
        /\ again.links = [v \in DOMAIN body.links |-> Target(out.links, v)]
    <3>1. /\ out.kind = "page" /\ out.of = body.of /\ out.fetch = body.fetch
          /\ DOMAIN out.links = DOMAIN body.links
      BY <2>1
    <3> QED
      BY <1>1, <3>1 DEF RewriteAgain
  <2>3. ASSUME NEW v \in DOMAIN body.links
        PROVE  Target(out.links, v) = Target(body.links, v)
    <3>1. PICK t : Stored(t) /\ body.links[v] = RelPath(Dir(f), t)
      BY <1>1 DEF Proper, Linked
    <3> DEFINE meant == Resolve(Dir(f), RelPath(Dir(f), t))
               u == LocalPathFor(meant)
               next == Resolve(Dir(f), RelPath(Dir(f), u))
    <3>2. /\ meant.slash \in BOOLEAN /\ Stored(u)
          /\ u = IF meant.slash THEN Append(t, IndexName) ELSE t
      BY <3>1, LinkAgain
    <3>3. /\ LocalPathFor(next) = IF next.slash THEN Append(u, IndexName) ELSE u
          /\ next.slash \in BOOLEAN
          /\ next.slash => u \in Above(f)
      BY <3>2, LinkAgain
    <3>4. ~next.slash
      <4>1. CASE meant.slash
        <5>1. Last(Append(t, IndexName)) = IndexName
          BY <3>1 DEF Stored, Last
        <5> HIDE DEF u, next
        <5>2. u \notin Above(f)
          BY <3>2, <4>1, <5>1 DEF NoIndexDirectories
        <5> QED
          BY <3>3, <5>2
      <4>2. CASE ~meant.slash
        <5>1. u = t
          BY <3>2, <4>2
        <5> HIDE DEF u
        <5> QED
          BY <4>2, <5>1
      <4> QED
        BY <4>1, <4>2
    <3>5. LocalPathFor(next) = u
      BY <3>3, <3>4
    <3>6. out.links[v] = RelPath(Dir(f), u)
      BY <2>1, <3>1
    <3> QED
      BY <3>1, <3>5, <3>6
  <2>4. again.links = out.links
    BY <2>1, <2>2, <2>3
  <2> HIDE DEF again
  <2>5. again = out
    BY <2>1, <2>2, <2>4
  <2> QED
    BY <2>5 DEF Settled, again, out
<1>2. CASE ~(body.kind = "page" /\ body.of \in HTML)
  <2>1. out = No("mangled")
    BY <1>2 DEF RewriteAgain
  <2>2. RewriteAgain(f, No("mangled")) = No("mangled")
    BY DEF RewriteAgain, No
  <2> QED
    BY <2>1, <2>2 DEF Settled
<1> QED
  BY <1>1, <1>2

\* The directories above a directory above f are above f.
LEMMA AboveAbove ==
    ASSUME NEW f \in Files, NEW d \in Above(f) PROVE Above(d) \subseteq Above(f)
<1> DEFINE top == Front(f)
<1>1. top \in Seq(Names)
  BY FileSeq
<1> HIDE DEF top
<1>2. PICK l \in 0 .. Len(top) : d = SubSeq(top, 1, l)
  BY DEF Above, Prefixes, top
<1>3. d # <<>>
  BY DEF Above
<1>4. d \in Seq(Names) /\ Len(d) = l /\ \A i \in 1 .. l : d[i] = top[i]
  BY <1>1, <1>2
<1>5. /\ Front(d) \in Seq(Names) /\ Len(Front(d)) = l - 1
      /\ \A i \in 1 .. l - 1 : Front(d)[i] = d[i]
  BY <1>3, <1>4, FrontOf
<1>6. ASSUME NEW e \in Above(d) PROVE e \in Above(f)
  <2>1. PICK k \in 0 .. Len(Front(d)) : e = SubSeq(Front(d), 1, k)
    BY <1>6 DEF Above, Prefixes
  <2>2. k \in 0 .. Len(top) /\ k <= l - 1 /\ k \in Nat /\ l \in Nat /\ Len(top) \in Nat
    BY <1>1, <1>2, <1>5, <2>1
  <2>3. e \in Seq(Names) /\ Len(e) = k /\ \A i \in 1 .. k : e[i] = Front(d)[i]
    BY <1>5, <2>1
  <2>4. /\ SubSeq(top, 1, k) \in Seq(Names) /\ Len(SubSeq(top, 1, k)) = k
        /\ \A i \in 1 .. k : SubSeq(top, 1, k)[i] = top[i]
    BY <1>1, <2>2
  <2>5. \A i \in 1 .. k : i \in 1 .. l /\ i \in 1 .. l - 1
    BY <2>2
  <2>6. \A i \in 1 .. k : e[i] = SubSeq(top, 1, k)[i]
    BY <1>4, <1>5, <2>3, <2>4, <2>5
  <2>7. e = SubSeq(top, 1, k)
    BY <2>3, <2>4, <2>6, SeqEqual
  <2>8. e # <<>>
    BY <1>6 DEF Above
  <2> QED
    BY <2>2, <2>7, <2>8 DEF Above, Prefixes, top
<1> QED
  BY <1>6

\* Nothing is in the way of a file that is there.
LEMMA WayClear ==
    ASSUME WriteShape, DirInv, NEW w \in Writers, NEW f \in There, NEW body,
           Begin(w, f, body)
    PROVE  writing'[w] = [file |-> f, body |-> body, step |-> "open", at |-> "tmp"]
<1>1. f \in Files /\ \A d \in Above(f) : d \notin There
  BY DEF DirInv, There
<1>2. \A d \in Above(f) : (Above(d) \union {d}) \intersect There = {}
  BY <1>1, AboveAbove
<1>3. {d \in Above(f) : (Above(d) \union {d}) \intersect There = {}} = Above(f)
  BY <1>2
<1> QED
  BY <1>3 DEF Begin, There, WriteShape

LEMMA SettleInit == Init => SettleInv
BY DEF Init, SettleInv

\* While a pass is calm nobody else writes.
LEMMA CalmAlone ==
    ASSUME SettleInv, BusyInv, NEW p \in calm
    PROVE  /\ \A c \in Crawls : c \notin working /\ writing[c] = Quiet
           /\ \A q \in Passes \ {p} : todo[q] = Off /\ writing[q] = Quiet
BY DEF SettleInv, BusyInv, Reprocessing

\* The writer's calls: what is in its hand goes from the .tmp to the file.
LEMMA OpenSettles ==
    ASSUME WriteShape, BusyInv, RestInv, SettleInv, NEW w \in Writers, Open(w)
    PROVE  SettleInv'
<1>1. /\ w \in Writers /\ writing[w] # Quiet /\ writing[w].file \in Files
      /\ DOMAIN writing[w] = Fields
  BY QuietAt DEF Open, WriteShape
<1>2. /\ UNCHANGED <<files, todo, working, calm>> /\ Reprocessing' = Reprocessing
      /\ tmp' = [tmp EXCEPT ![writing[w].file] = No("cut")]
      /\ writing' = [writing EXCEPT ![w].step = "write"]
  BY DEF Open, rows, Reprocessing
<1> SUFFICES ASSUME NEW p \in calm
             PROVE  /\ working' = {} /\ Reprocessing' = {p}
                    /\ \A f \in Files :
                          IsHTMLFile(f) /\ f \notin todo'[p] =>
                             \/ Settled(f, files'[f])
                             \/ writing'[p] # Quiet /\ writing'[p].file = f
                    /\ writing'[p] # Quiet =>
                          /\ Settled(writing'[p].file, writing'[p].body)
                          /\ writing'[p].at = "tmp"
                          /\ At(p, "write")' => tmp'[writing'[p].file] = No("cut")
                          /\ At(p, "rename")' => tmp'[writing'[p].file] = writing'[p].body
  BY <1>2 DEF SettleInv
<1>3. w = p
  BY <1>1, CalmAlone DEF Writers
<1>4. /\ writing'[p].step = "write" /\ writing'[p].file = writing[p].file
      /\ writing'[p].body = writing[p].body /\ writing'[p].at = writing[p].at
      /\ writing'[p] # Quiet
  <2>1. writing'[p] = [writing[p] EXCEPT !.step = "write"]
    BY <1>2, <1>3 DEF WriteShape
  <2>2. writing'[p].step = "write"
    BY <1>1, <1>3, <2>1 DEF Fields
  <2> QED
    BY <1>1, <1>3, <2>1, <2>2 DEF Fields, Quiet
<1>5. tmp'[writing[p].file] = No("cut")
  BY <1>1, <1>2, <1>3 DEF WriteShape
<1> QED
  BY <1>1, <1>2, <1>3, <1>4, <1>5 DEF SettleInv, At

LEMMA WriteSettles ==
    ASSUME WriteShape, BusyInv, RestInv, SettleInv, NEW w \in Writers, Write(w)
    PROVE  SettleInv'
<1>1. /\ writing[w] # Quiet /\ writing[w].file \in Files
      /\ DOMAIN writing[w] = Fields /\ At(w, "write")
  BY QuietAt DEF Write, WriteShape
<1>2. /\ UNCHANGED <<todo, working, calm>> /\ Reprocessing' = Reprocessing
      /\ writing' = [writing EXCEPT ![w].step = "rename", ![w].at = "tmp"]
  BY DEF Write, rows, Reprocessing
<1> SUFFICES ASSUME NEW p \in calm
             PROVE  /\ working' = {} /\ Reprocessing' = {p}
                    /\ \A f \in Files :
                          IsHTMLFile(f) /\ f \notin todo'[p] =>
                             \/ Settled(f, files'[f])
                             \/ writing'[p] # Quiet /\ writing'[p].file = f
                    /\ writing'[p] # Quiet =>
                          /\ Settled(writing'[p].file, writing'[p].body)
                          /\ writing'[p].at = "tmp"
                          /\ At(p, "write")' => tmp'[writing'[p].file] = No("cut")
                          /\ At(p, "rename")' => tmp'[writing'[p].file] = writing'[p].body
  BY <1>2 DEF SettleInv
<1>3. w = p
  BY <1>1, CalmAlone DEF Writers
<1>4. /\ writing'[p].step = "rename" /\ writing'[p].file = writing[p].file
      /\ writing'[p].body = writing[p].body /\ writing'[p].at = "tmp"
      /\ writing'[p] # Quiet
  <2>1. writing'[p] = [writing[p] EXCEPT !.step = "rename", !.at = "tmp"]
    BY <1>2, <1>3 DEF WriteShape
  <2>2. writing'[p].step = "rename"
    BY <1>1, <1>3, <2>1 DEF Fields
  <2> QED
    BY <1>1, <1>3, <2>1, <2>2 DEF Fields, Quiet
<1>5. writing[p].at = "tmp" /\ tmp[writing[p].file] = No("cut")
  BY <1>1, <1>3 DEF SettleInv
<1>6. Over(tmp[writing[p].file], writing[p].body) = {writing[p].body}
  BY <1>5 DEF Over
<1>7. tmp'[writing[p].file] = writing[p].body /\ files' = files
  BY <1>1, <1>3, <1>5, <1>6 DEF Write, WriteShape
<1> QED
  BY <1>1, <1>2, <1>3, <1>4, <1>7 DEF SettleInv, At

LEMMA RenameSettles ==
    ASSUME WriteShape, BusyInv, RestInv, SettleInv, NEW w \in Writers, Rename(w)
    PROVE  SettleInv'
<1>1. /\ writing[w] # Quiet /\ writing[w].file \in Files /\ At(w, "rename")
  BY QuietAt DEF Rename, WriteShape
<1>2. /\ UNCHANGED <<todo, working, calm>> /\ Reprocessing' = Reprocessing
      /\ writing'[w] = Quiet
      /\ files' = [files EXCEPT ![writing[w].file] = tmp[writing[w].file]]
  BY DEF Rename, Publish, rows, Reprocessing
<1> SUFFICES ASSUME NEW p \in calm
             PROVE  /\ working' = {} /\ Reprocessing' = {p}
                    /\ \A f \in Files :
                          IsHTMLFile(f) /\ f \notin todo'[p] => Settled(f, files'[f])
                    /\ writing'[p] = Quiet
  BY <1>2 DEF SettleInv
<1>3. w = p
  BY <1>1, CalmAlone DEF Writers
<1>4. Settled(writing[p].file, tmp[writing[p].file])
  BY <1>1, <1>3 DEF SettleInv
<1> QED
  BY <1>1, <1>2, <1>3, <1>4 DEF SettleInv, WriteShape

LEMMA VisitSettles ==
    ASSUME NoIndexDirectories, WriteShape, BusyInv, DirInv, TypeInv, SettleInv,
           NEW q \in Passes, NEW g \in Files, Visit(q, g)
    PROVE  SettleInv'
<1> DEFINE out == RewriteAgain(g, files[g])
<1>1. /\ todo[q] # Off /\ writing[q] = Quiet /\ q \in Writers
      /\ UNCHANGED <<working, calm>>
      /\ todo' = [todo EXCEPT ![q] = todo[q] \ {g}]
      /\ IF files[g] \in {No("absent"), out} THEN UNCHANGED <<disk, writing>>
         ELSE Begin(q, g, out)
  BY DEF Visit, rows, Writers
<1>2. files' = files
  BY <1>1 DEF Begin, disk
<1>3. todo'[q] = todo[q] \ {g} /\ \A r \in Passes \ {q} : todo'[r] = todo[r]
  BY <1>1 DEF WriteShape
<1>4. Reprocessing' = Reprocessing
  <2>1. todo[q] \ {g} \in SUBSET Files
    BY <1>1 DEF WriteShape
  <2>2. todo'[q] # Off
    BY <1>3, <2>1, OffAssumption DEF OffAssumption
  <2> QED
    BY <1>1, <1>3, <2>2 DEF Reprocessing
<1> HIDE DEF out
<1> SUFFICES ASSUME NEW p \in calm
             PROVE  /\ \A f \in Files :
                          IsHTMLFile(f) /\ f \notin todo'[p] =>
                             \/ Settled(f, files[f])
                             \/ writing'[p] # Quiet /\ writing'[p].file = f
                    /\ writing'[p] # Quiet =>
                          /\ Settled(writing'[p].file, writing'[p].body)
                          /\ writing'[p].at = "tmp"
                          /\ ~At(p, "write")' /\ ~At(p, "rename")'
  BY <1>1, <1>2, <1>4 DEF SettleInv
<1>5. q = p
  BY <1>1, CalmAlone
<1>6. \A f \in Files : IsHTMLFile(f) /\ f \notin todo[p] => Settled(f, files[f])
  BY <1>1, <1>5 DEF SettleInv
<1>7. CASE files[g] \in {No("absent"), out}
  <2>1. Settled(g, files[g])
    BY <1>7 DEF Settled, out
  <2>2. writing'[p] = Quiet
    BY <1>1, <1>5, <1>7
  <2> QED
    BY <1>3, <1>5, <1>6, <2>1, <2>2
<1>8. CASE files[g] \notin {No("absent"), out}
  <2>1. g \in There /\ Begin(p, g, out)
    BY <1>1, <1>5, <1>8 DEF There
  <2>2. writing'[p] = [file |-> g, body |-> out, step |-> "open", at |-> "tmp"]
    BY <1>1, <1>5, <2>1, WayClear
  <2>3. Settled(g, out)
    BY RewriteSettles DEF TypeInv, ProperInv, out
  <2>4. /\ writing'[p] # Quiet /\ writing'[p].file = g /\ writing'[p].body = out
        /\ writing'[p].at = "tmp" /\ writing'[p].step = "open"
    BY <2>2 DEF Quiet
  <2> QED
    BY <1>3, <1>5, <1>6, <2>3, <2>4 DEF At
<1> QED
  BY <1>7, <1>8

\* A step in which no calm pass takes part and no file changes.
LEMMA StillSettled ==
    ASSUME SettleInv, calm' \subseteq calm, UNCHANGED <<files, tmp>>,
           \A p \in calm' : /\ working' = working /\ Reprocessing' = Reprocessing
                            /\ todo'[p] = todo[p] /\ writing'[p] = writing[p]
    PROVE  SettleInv'
BY DEF SettleInv, At

LEMMA SettleNext ==
    ASSUME NoIndexDirectories, WriteShape, BusyInv, DirInv, TypeInv, SettleInv,
           [Next]_vars
    PROVE  SettleInv'
<1> USE DEF disk, rows
<1>1. ASSUME NEW w \in Writers, WriteFails(w) PROVE SettleInv'
  <2>1. ASSUME NEW p \in calm' PROVE p # w /\ p \in calm /\ Reprocessing' = Reprocessing
    <3>1. p # w /\ p \in calm /\ p \in Passes
      BY <1>1 DEF WriteFails, TypeInv, RestInv
    <3>2. FALSE
      BY <1>1, <3>1, CalmAlone DEF WriteFails, Writers
    <3> QED
      BY <3>2
  <2> QED
    BY <1>1, <2>1, StillSettled DEF WriteFails, WriteShape
<1>2. ASSUME NEW w \in Writers, WriteFile(w) PROVE SettleInv'
  BY <1>1, <1>2, OpenSettles, WriteSettles, RenameSettles DEF WriteFile, TypeInv
<1>3. ASSUME NEW c \in Crawls, StartCrawl(c) PROVE SettleInv'
  BY <1>3 DEF StartCrawl, Site!Start, SettleInv
<1>4. ASSUME NEW c \in Crawls,
             \/ EndCrawl(c) \/ CrawlKilled(c)
             \/ \E url \in URLs : Fetch(c, url)
      PROVE  SettleInv'
  <2>1. calm = {} /\ calm' = calm
    BY <1>4, CalmAlone DEF EndCrawl, Site!End, CrawlKilled, Fetch
  <2> QED
    BY <2>1 DEF SettleInv
<1>5. ASSUME NEW q \in Passes, NEW found \in BOOLEAN, StartPass(q, found)
      PROVE  SettleInv'
  <2>1. /\ todo' = [todo EXCEPT ![q] = {f \in Files : IsHTMLFile(f)}]
        /\ working' = working /\ UNCHANGED <<files, tmp, writing>>
        /\ calm' = IF working = {} /\ Reprocessing = {} THEN {q} ELSE {}
    BY <1>5 DEF StartPass
  <2>2. CASE working = {} /\ Reprocessing = {}
    <3>1. {f \in Files : IsHTMLFile(f)} # Off
      BY OffAssumption DEF OffAssumption
    <3>2. /\ todo'[q] = {f \in Files : IsHTMLFile(f)}
          /\ \A r \in Passes \ {q} : todo'[r] = Off
      BY <2>1, <2>2 DEF Reprocessing, WriteShape
    <3>3. Reprocessing' = {q}
      BY <3>1, <3>2 DEF Reprocessing
    <3>4. writing'[q] = Quiet
      BY <2>1, <2>2 DEF BusyInv, Reprocessing
    <3> QED
      BY <2>1, <2>2, <3>2, <3>3, <3>4 DEF SettleInv
  <2>3. CASE ~(working = {} /\ Reprocessing = {})
    BY <2>1, <2>3 DEF SettleInv
  <2> QED
    BY <2>2, <2>3
<1>6. ASSUME NEW q \in Passes, PassEnds(q) \/ PassLost(q) PROVE SettleInv'
  <2>1. todo[q] # Off /\ calm' = calm \ {q}
    BY <1>6, OffAssumption DEF PassEnds, PassLost, OffAssumption
  <2>2. calm' = {}
    BY <2>1, CalmAlone
  <2> QED
    BY <2>2 DEF SettleInv
<1>7. CASE RowOpened \/ RowClosed
  BY <1>7, StillSettled
     DEF RowOpened, Site!RowOpened, RowClosed, Site!RowClosed, Reprocessing
<1>8. CASE UNCHANGED vars
  BY <1>8, StillSettled DEF vars, Reprocessing
<1> QED
  BY <1>2, <1>3, <1>4, <1>5, <1>6, <1>7, <1>8, VisitSettles DEF Next

\* For every site without a directory called index.html, and any number of
\* crawls, passes, failures and kills: after a pass that was alone and got
\* through, a pass would write nothing.
THEOREM PassesSettle == NoIndexDirectories /\ Spec => PassSettles
<1> SUFFICES ASSUME NoIndexDirectories PROVE Spec => PassSettles
  OBVIOUS
<1>1. SettleInv /\ [Next]_vars
      => [\A p \in Passes :
             PassEnds(p) /\ p \in calm =>
             \A f \in Files :
                IsHTMLFile(f) => files[f] \in {No("absent"), RewriteAgain(f, files[f])}]_vars
  <2> SUFFICES ASSUME SettleInv, NEW p \in calm, PassEnds(p), NEW f \in Files,
                      IsHTMLFile(f)
               PROVE  Settled(f, files[f])
    BY DEF Settled
  <2> QED
    BY DEF SettleInv, PassEnds
<1>2. /\ WholeInv => WriteShape
      /\ OrderInv => BusyInv
      /\ LeadInv => DirInv
  BY DEF WholeInv, OrderInv, LeadInv
<1>3. /\ WriteShape /\ BusyInv /\ DirInv /\ TypeInv /\ SettleInv /\ [Next]_vars
      => SettleInv'
  BY SettleNext
<1> QED
  BY <1>1, <1>2, <1>3, WholeInit, WholeNext, OrderInit, OrderNext, LeadInit,
     LeadStep, TypeInit, TypeNext, SettleInit, PTL DEF Spec, PassSettles

(***************************************************************************)
(* Without overlaps every file is whole.                                   *)
(***************************************************************************)
\* Nobody asks for Reprocess while it is under way.
OnePass == \A p, q \in Passes : p = q

CrossInv == ~overlapped => crossed = {}

\* Unless two have overlapped one writer at most is between open and rename.
LEMMA OneWriter ==
    ASSUME OnePass, BusyInv, ~overlapped, NEW v \in Writers, NEW w \in Writers,
           writing[v] # Quiet, writing[w] # Quiet
    PROVE  v = w
<1>1. CASE v \in Crawls /\ w \in Crawls
  BY <1>1 DEF BusyInv
<1>2. CASE v \in Passes /\ w \in Passes
  BY <1>2 DEF OnePass
<1>3. ASSUME NEW c \in Crawls, NEW p \in Passes,
             writing[c] # Quiet, writing[p] # Quiet
      PROVE  FALSE
  BY <1>3 DEF BusyInv, Reprocessing
<1> QED
  BY <1>1, <1>2, <1>3 DEF Writers

LEMMA CrossStep ==
    ASSUME OnePass, WriteShape, OrderInv, CrossInv, [Next]_vars PROVE CrossInv'
<1>1. overlapped => overlapped'
  BY OrderStep
<1>2. ASSUME NEW w \in Writers, Open(w), ~overlapped PROVE crossed' = crossed
  <2>1. ASSUME NEW v \in Writers, At(v, "write") \/ At(v, "rename") PROVE FALSE
    <3>1. writing[v] # Quiet /\ writing[w] # Quiet
      BY <1>2, <2>1 DEF Open, At, Quiet
    <3>2. v = w
      BY <1>2, <3>1, OneWriter DEF OrderInv
    <3> QED
      BY <1>2, <2>1, <3>2 DEF Open, At
  <2> QED
    BY <1>2, <2>1 DEF Open
<1>3. crossed' = crossed \/ \E w \in Writers : Open(w)
  BY DEF Next, WriteFile, Write, Rename, Publish, WriteFails, StartCrawl, Site!Start,
     EndCrawl, Site!End, CrawlKilled, Fetch, StartPass, Visit, PassEnds, PassLost,
     RowOpened, Site!RowOpened, RowClosed, Site!RowClosed, vars, disk
<1> QED
  BY <1>1, <1>2, <1>3 DEF CrossInv

\* What overlaps cost, and nothing else: while no two crawls, no two passes and
\* no crawl and pass have been at work at one time, every file is a whole page
\* that belongs there, whatever dies or fails, for every site.
THEOREM WholeUnlessOverlapped ==
    OnePass /\ Spec =>
    [](~overlapped => WholeFiles /\ crossed = {})
<1> SUFFICES ASSUME OnePass
             PROVE  Spec => [](~overlapped => WholeFiles /\ crossed = {})
  OBVIOUS
<1>1. Init => CrossInv
  BY DEF Init, CrossInv
<1>2. WholeInv /\ OrderInv /\ CrossInv /\ [Next]_vars => CrossInv'
  BY CrossStep DEF WholeInv
<1>3. WholeInv /\ OrderInv /\ [Next]_vars => OrderInv'
  BY OrderNext DEF WholeInv
<1>4. WholeInv /\ CrossInv => (~overlapped => WholeFiles /\ crossed = {})
  BY DEF WholeInv, CrossInv
<1> QED
  BY <1>1, <1>2, <1>3, <1>4, WholeInit, WholeNext, OrderInit, PTL DEF Spec

OneAtWork == \A c, d \in working : c = d

LEMMA NoOverlapStep ==
    ASSUME Passes = {}, ~overlapped, OneAtWork', [Next]_vars PROVE ~overlapped'
<1>1. ASSUME NEW c \in Crawls, StartCrawl(c) PROVE ~overlapped'
  <2>1. c \notin working /\ working' = working \union {c}
    BY <1>1 DEF StartCrawl, Site!Start
  <2>2. working = {}
    BY <2>1 DEF OneAtWork
  <2>3. Reprocessing = {}
    BY DEF Reprocessing
  <2> QED
    BY <1>1, <2>2, <2>3 DEF StartCrawl
<1>2. overlapped' = overlapped \/ \E c \in Crawls : StartCrawl(c)
  BY DEF Next, WriteFile, Open, Write, Rename, Publish, WriteFails, EndCrawl,
     CrawlKilled, Fetch, RowOpened, RowClosed, vars
<1> QED
  BY <1>1, <1>2

\* OneCrawlAtATime of the lifecycle carried over to the mirror: when crawls come
\* one at a time and nobody reprocesses, every file is a whole page and no page
\* gives way to an older one, however often crawls are killed or writes fail.
THEOREM OneAtATimeIsSafe ==
    Passes = {} /\ Spec /\ []OneAtWork =>
    /\ [](WholeFiles /\ crossed = {})
    /\ [][\A f \in Files :
             files[f].kind = "page" /\ files'[f].kind = "page" =>
             ~(files'[f].fetch < files[f].fetch)]_vars
<1> SUFFICES ASSUME Passes = {}
             PROVE  Spec /\ []OneAtWork =>
                    /\ [](WholeFiles /\ crossed = {})
                    /\ [][\A f \in Files :
                             files[f].kind = "page" /\ files'[f].kind = "page" =>
                             ~(files'[f].fetch < files[f].fetch)]_vars
  OBVIOUS
<1>1. OnePass
  BY DEF OnePass
<1>2. Spec => [](~overlapped => WholeFiles /\ crossed = {})
  BY <1>1, WholeUnlessOverlapped, PTL
<1>3. Init => ~overlapped
  BY DEF Init
<1>4. ~overlapped /\ OneAtWork' /\ [Next]_vars => ~overlapped'
  BY NoOverlapStep
<1>5. /\ ~overlapped'
      /\ [\A f \in Files :
             /\ files[f].kind = "page" /\ files'[f].kind = "page"
             /\ files'[f].fetch < files[f].fetch
             => overlapped']_vars
      => [\A f \in Files :
             files[f].kind = "page" /\ files'[f].kind = "page" =>
             ~(files'[f].fetch < files[f].fetch)]_vars
  OBVIOUS
<1> QED
  BY <1>2, <1>3, <1>4, <1>5, PagesOnlyGetNewer, PTL DEF Spec, NoStepBack
============================================================================
