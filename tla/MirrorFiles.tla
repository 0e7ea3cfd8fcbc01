---------------------------- MODULE MirrorFiles ----------------------------
(***************************************************************************)
(* The files of a site's mirror.  Crawls write them (the loop of           *)
(* crawler.go, RewriteHTML, WriteFile), and so does Reprocess, a request   *)
(* to the portal that runs the present rewriter over the mirror again      *)
(* (reprocess.go, handleAdminSiteReprocess).  Each is in a process of its  *)
(* own; all they share is the volume and, for Reprocess, one look at the   *)
(* crawls table.  WriteFile is three calls of the file system: the .tmp is *)
(* opened and cut, written, and renamed.  A process can die between them.  *)
(***************************************************************************)
EXTENDS MirrorPaths

CONSTANTS
    URLs,       \* what the crawls can fetch
    Parsed(_),  \* each as MirrorPaths has them
    HTML,       \* those that are answered with an HTML page
    LinksOf(_), \* the URLs of the site that a page links to
    Crawls,
    Passes,     \* requests for Reprocess
    OldMirrors, \* sets of URLs, each the pages an older release may have left
    MaxFetches, \* bound on the pages fetched
    Off         \* no pass is under way

VARIABLES
    files,      \* [Files -> contents]
    tmp,        \* [Files -> contents] of the .tmp next to each
    dirs,       \* directories with the path of a file
    writing,    \* [Writers -> WriteFile under way]
    working,    \* crawls at work
    open,       \* the newest row of the site says running
    todo,       \* [Passes -> files to come, or Off]
    fetches,    \* pages fetched so far
    crossed,    \* history: two had the .tmp of these files at once
    overlapped, \* history: two crawls, or a crawl and a pass, at once
    calm        \* history: passes that have been alone since their start

disk == <<files, tmp, dirs>>
rows == <<working, open>>
vars == <<disk, writing, rows, todo, fetches, crossed, overlapped, calm>>

Writers == Crawls \union Passes
FileOf == [url \in URLs |-> LocalPathFor(Parsed(url))]
Files == {FileOf[url] : url \in URLs}

\* A path that does not end in a slash ends in a name: url.Parse and
\* ResolveReference have dealt with dots.
ASSUME NamesAssumption ==
    \A url \in URLs :
        LET path == Parsed(url).path IN
        /\ LinksOf(url) \subseteq URLs
        /\ path \in Seq(Range(path))
        /\ \A name \in Range(path) : name \in Seq(Range(name)) \ {<<>>}
        /\ Parsed(url).slash \/ (path # <<>> /\ Last(path)[1] \notin {Here, Up})

\* A page as fetched; stripped of what the present rewriter strips; its links
\* by the URL they had on the site.
PageAt(file, url, fetch, stripped) ==
    [kind |-> "page", of |-> url, fetch |-> fetch, stripped |-> stripped,
     links |-> [v \in LinksOf(url) |-> RelPath(Dir(file), FileOf[v])]]

\* No link goes further up than the mirror.
IsPage(body, file) ==
    /\ body.kind = "page" /\ body.of \in URLs /\ FileOf[body.of] = file
    /\ body.fetch \in 0 .. MaxFetches /\ body.stripped \in BOOLEAN
    /\ DOMAIN body.links = LinksOf(body.of)
    /\ \A v \in LinksOf(body.of) : body.links[v].up \in 0 .. Len(Dir(file))

\* Contents that are no page: "cut" by its writer or not written to the end,
\* "mixed" from two writers, "mangled" by a rewriter that took it for HTML.
No(kind) == [kind |-> kind]
NoPages == {No(kind) : kind \in {"absent", "cut", "mixed", "mangled"}}
Contents(body, file) == body \in NoPages \/ IsPage(body, file)

Quiet == [step |-> "none"]
Steps == {"open", "write", "rename"}
Places == {"tmp", "file", "gone"}

TypeOK ==
    /\ DOMAIN files = Files /\ DOMAIN tmp = Files
    /\ \A f \in Files : Contents(files[f], f) /\ Contents(tmp[f], f)
    /\ dirs \subseteq Files
    /\ \A w \in Writers :
          \/ writing[w] = Quiet
          \/ /\ writing[w].file \in Files /\ writing[w].step \in Steps
             /\ Contents(writing[w].body, writing[w].file)
             /\ writing[w].at \in Places
    /\ working \subseteq Crawls
    /\ open \in BOOLEAN /\ overlapped \in BOOLEAN
    /\ \A p \in Passes : todo[p] # Off => todo[p] \subseteq Files
    /\ fetches \in 0 .. MaxFetches
    /\ crossed \subseteq Files /\ calm \subseteq Passes

ASSUME FetchesAssumption == MaxFetches \in Nat
ASSUME WritersAssumption == Crawls \intersect Passes = {}
ASSUME OffAssumption == \A some \in SUBSET Files : some # Off
ASSUME OldAssumption ==
    \A old \in OldMirrors : \A u, v \in old :
        /\ old \subseteq URLs
        /\ FileOf[u] = FileOf[v] => u = v
        /\ FileOf[u] \notin Above(FileOf[v])

Init ==
    /\ \E old \in OldMirrors :
          /\ files = [f \in Files |->
                IF \E u \in old : FileOf[u] = f
                THEN PageAt(f, CHOOSE u \in old : FileOf[u] = f, 0, FALSE)
                ELSE No("absent")]
          /\ dirs = Files \intersect UNION {Above(FileOf[u]) : u \in old}
    /\ tmp = [f \in Files |-> No("absent")]
    /\ writing = [w \in Writers |-> Quiet]
    /\ todo = [p \in Passes |-> Off]
    /\ working = {} /\ open = FALSE
    /\ fetches = 0 /\ crossed = {} /\ overlapped = FALSE /\ calm = {}

At(w, step) == writing[w].step = step

(***************************************************************************)
(* WriteFile.                                                              *)
(***************************************************************************)
\* MkdirAll, up to a file that is in the way; WriteFile is over then.
Begin(w, file, body) ==
    LET inTheWay == {f \in Files : files[f] # No("absent")}
        made == {d \in Above(file) : (Above(d) \union {d}) \intersect inTheWay = {}}
    IN /\ dirs' = dirs \union (made \intersect Files)
       /\ writing' = [writing EXCEPT ![w] =
             IF made = Above(file)
             THEN [file |-> file, body |-> body, step |-> "open", at |-> "tmp"]
             ELSE Quiet]
       /\ UNCHANGED <<files, tmp>>

Open(w) ==
    /\ At(w, "open")
    /\ LET f == writing[w].file IN
       /\ tmp' = [tmp EXCEPT ![f] = No("cut")]
       /\ crossed' = IF \E v \in Writers : /\ At(v, "write") \/ At(v, "rename")
                                           /\ writing[v].file = f
                     THEN crossed \union {f} ELSE crossed
    /\ writing' = [writing EXCEPT ![w].step = "write"]
    /\ UNCHANGED <<files, dirs, rows, todo, fetches, overlapped, calm>>

\* What a file holds once body is written from its start over what is there.
Over(old, body) == IF old \in {No("cut"), body} THEN {body} ELSE {body, No("mixed")}

Write(w) ==
    /\ At(w, "write")
    /\ LET f == writing[w].file
           body == writing[w].body
       IN /\ IF writing[w].at = "tmp"
             THEN \E new \in Over(tmp[f], body) : tmp' = [tmp EXCEPT ![f] = new]
             ELSE tmp' = tmp
          /\ IF writing[w].at = "file"
             THEN \E new \in Over(files[f], body) :
                     files' = [files EXCEPT ![f] = new]
             ELSE files' = files
    /\ writing' = [writing EXCEPT ![w].step = "rename", ![w].at = "tmp"]
    /\ UNCHANGED <<dirs, rows, todo, fetches, crossed, overlapped, calm>>

\* Whoever has the file open goes on writing to it, under whatever name.
Publish(w) ==
    /\ LET f == writing[w].file IN
       /\ tmp[f] # No("absent") /\ f \notin dirs
       /\ files' = [files EXCEPT ![f] = tmp[f]]
       /\ tmp' = [tmp EXCEPT ![f] = No("absent")]
       /\ writing' = [v \in Writers |->
             IF v = w THEN Quiet
             ELSE IF At(v, "write") /\ writing[v].file = f
             THEN [writing[v] EXCEPT !.at = IF @ = "tmp" THEN "file" ELSE "gone"]
             ELSE writing[v]]
    /\ UNCHANGED <<dirs, rows, todo, fetches, crossed, overlapped, calm>>

\* Faulty: an error of the write is dropped.
RenameAnyway(w) == (At(w, "write") \/ At(w, "rename")) /\ Publish(w)

Rename(w) == At(w, "rename") /\ Publish(w)

\* A full disk, a .tmp that somebody else has renamed, a directory under the
\* name of the file.  A crawl goes on, a pass is over.
WriteFails(w) ==
    /\ writing[w] # Quiet
    /\ writing' = [writing EXCEPT ![w] = Quiet]
    /\ todo' = IF w \in Passes THEN [todo EXCEPT ![w] = Off] ELSE todo
    /\ calm' = calm \ {w}
    /\ UNCHANGED <<disk, rows, fetches, crossed, overlapped>>

WriteFile(w) == Open(w) \/ Write(w) \/ Rename(w) \/ WriteFails(w)

(***************************************************************************)
(* Crawls, which start and end as SiteCrawls says.                         *)
(***************************************************************************)
Site == INSTANCE SiteCrawls

Reprocessing == {p \in Passes : todo[p] # Off}

StartCrawl(c) ==
    /\ Site!Start(c)
    /\ overlapped' = (overlapped \/ working # {} \/ Reprocessing # {})
    /\ calm' = {}
    /\ UNCHANGED <<disk, writing, todo, fetches, crossed>>

Fetch(c, url) ==
    /\ c \in working /\ writing[c] = Quiet /\ fetches < MaxFetches
    /\ fetches' = fetches + 1
    /\ LET f == FileOf[url]
       IN Begin(c, f, PageAt(f, url, fetches + 1, url \in HTML))
    /\ UNCHANGED <<rows, todo, crossed, overlapped, calm>>

\* Faulty: Run does not wait for its last write.
EndCrawlEarly(c) ==
    /\ Site!End(c)
    /\ UNCHANGED <<disk, writing, todo, fetches, crossed, overlapped, calm>>

\* FinishCrawl fails or closes the row of this crawl, the newest one or not.
EndCrawl(c) ==
    /\ Site!End(c) /\ writing[c] = Quiet
    /\ UNCHANGED <<disk, writing, todo, fetches, crossed, overlapped, calm>>

CrawlKilled(c) ==
    /\ Site!End(c) /\ UNCHANGED open
    /\ writing' = [writing EXCEPT ![c] = Quiet]
    /\ UNCHANGED <<disk, todo, fetches, crossed, overlapped, calm>>

\* Cancel and a starting portal close the row, whether the pod is gone or not.
RowClosed ==
    /\ Site!RowClosed
    /\ UNCHANGED <<disk, writing, todo, fetches, crossed, overlapped, calm>>

\* A crawl that ended before it heard of its row has fetched nothing.
RowOpened ==
    /\ Site!RowOpened
    /\ UNCHANGED <<disk, writing, todo, fetches, crossed, overlapped, calm>>

(***************************************************************************)
(* Reprocess.                                                              *)
(***************************************************************************)
\* A row that cannot be read counts as no row.
StartPass(p, found) ==
    /\ todo[p] = Off /\ found => ~open
    /\ todo' = [todo EXCEPT ![p] = {f \in Files : IsHTMLFile(f)}]
    /\ overlapped' = (overlapped \/ working # {})
    /\ calm' = IF working = {} /\ Reprocessing = {} THEN {p} ELSE {}
    /\ UNCHANGED <<disk, writing, rows, fetches, crossed>>

\* RewriteHTML of what is in the mirror.  It makes a document of anything.
RewriteAgain(file, body) ==
    IF body.kind = "page" /\ body.of \in HTML
    THEN [kind |-> "page", of |-> body.of, fetch |-> body.fetch, stripped |-> TRUE,
          links |-> [v \in DOMAIN body.links |->
                RelPath(Dir(file), LocalPathFor(Resolve(Dir(file), body.links[v])))]]
    ELSE No("mangled")

\* The file is read, and written if that changes it.  The order of the walk is
\* left open, and it has listed a file that is there when its turn comes.
Visit(p, file) ==
    /\ todo[p] # Off /\ writing[p] = Quiet /\ file \in todo[p]
    /\ todo' = [todo EXCEPT ![p] = @ \ {file}]
    /\ LET out == RewriteAgain(file, files[file])
       IN IF files[file] \in {No("absent"), out} THEN UNCHANGED <<disk, writing>>
          ELSE Begin(p, file, out)
    /\ UNCHANGED <<rows, fetches, crossed, overlapped, calm>>

\* Faulty: the walk ends at the first file it leaves as it is.
PassEndsEarly(p) ==
    /\ todo[p] # Off /\ writing[p] = Quiet
    /\ todo' = [todo EXCEPT ![p] = Off]
    /\ calm' = calm \ {p}
    /\ UNCHANGED <<disk, writing, rows, fetches, crossed, overlapped>>

\* The walk is through.
PassEnds(p) ==
    /\ todo[p] = {} /\ writing[p] = Quiet
    /\ todo' = [todo EXCEPT ![p] = Off]
    /\ calm' = calm \ {p}
    /\ UNCHANGED <<disk, writing, rows, fetches, crossed, overlapped>>

\* The request is given up, a file cannot be read, or the portal dies.
PassLost(p) ==
    /\ todo[p] # Off
    /\ todo' = [todo EXCEPT ![p] = Off]
    /\ writing' = [writing EXCEPT ![p] = Quiet]
    /\ calm' = calm \ {p}
    /\ UNCHANGED <<disk, rows, fetches, crossed, overlapped>>

Next ==
    \/ \E w \in Writers : WriteFile(w)
    \/ \E c \in Crawls :
          \/ StartCrawl(c) \/ EndCrawl(c) \/ CrawlKilled(c)
          \/ \E url \in URLs : Fetch(c, url)
    \/ \E p \in Passes :
          \/ \E found \in BOOLEAN : StartPass(p, found)
          \/ \E file \in Files : Visit(p, file)
          \/ PassEnds(p) \/ PassLost(p)
    \/ RowOpened \/ RowClosed

Spec == Init /\ [][Next]_vars

(***************************************************************************)
(* Properties.                                                             *)
(***************************************************************************)
\* A whole page of a URL that belongs there, or what Reprocess has made of
\* something that only has the name of one.
Fits(body, file) ==
    \/ /\ body.kind = "page" /\ body.of \in URLs
       /\ FileOf[body.of] = file
    \/ /\ body = No("mangled") /\ IsHTMLFile(file)
       /\ \E url \in URLs \ HTML : FileOf[url] = file

\* No file is cut or mixed, and each fits its name, whatever dies or fails in
\* the middle of writing it, unless two had its .tmp at one time.
WholeFiles ==
    \A f \in Files \ crossed : files[f] = No("absent") \/ Fits(files[f], f)

\* Unless a crawl was at work at the same time as Reprocess or as another
\* crawl, no page in the mirror gives way to one that was fetched before it.
NoStepBack ==
    [][\A f \in Files :
          /\ files[f].kind = "page" /\ files'[f].kind = "page"
          /\ files'[f].fetch < files[f].fetch
          => overlapped']_vars

\* As README.md says of link rewriting: at each address of a page, each link
\* to a page that is in the mirror leads to its file, also after Reprocess has
\* rewritten the links again.
LinksLead ==
    LET there == {f \in Files : files[f] # No("absent")} IN
    \A f \in there :
        files[f].kind = "page" =>
        \A a \in Addresses(f) :
            /\ Served(there, a) = f
            /\ \A v \in DOMAIN files[f].links :
                  FileOf[v] \in there =>
                  Served(there, Resolve(BaseDir(a), files[f].links[v]))
                     = FileOf[v]

\* After a pass that got through and was alone another one has nothing to do:
\* as reprocess.go says, what has been rewritten round-trips.
PassSettles ==
    [][\A p \in Passes :
          PassEnds(p) /\ p \in calm =>
          \A f \in Files :
              IsHTMLFile(f) =>
              files[f] \in {No("absent"), RewriteAgain(f, files[f])}]_vars
============================================================================
