---------------------------- MODULE MirrorPaths ----------------------------
(***************************************************************************)
(* Where a URL of the site is stored (LocalPathFor, writer.go), how a      *)
(* rewritten link names it (relPath, rewriter.go) and which file a request *)
(* for the mirror is answered with (serveMirrorFS, web/server.go).         *)
(*                                                                         *)
(* A file is the sequence of the names on its path.  Links are written     *)
(* without escapes: names with a %, ? or #, or with a colon where the link *)
(* starts, are read differently by a browser and are left out.             *)
(***************************************************************************)
EXTENDS Integers, FiniteSets, SequencesExt

CONSTANTS
    Index,     \* the name index.html
    Dotted,    \* the names with a dot, index.html among them
    HTMLEnds,  \* the names and queries that end in .html or .htm, in any case
    Here, Up,  \* "." or nothing, and ".."
    NoQuery,
    Safe(_)    \* a query with each of / \ ? & made a _ and = a -

ASSUME IndexAssumption == Index \in (Dotted \intersect HTMLEnds) \ {Here, Up}

\* A name: its stem and the queries that have been attached to it with __q__.
IndexName == <<Index>>
HasDot(name) == name[1] \in Dotted

\* A query comes last: index.html with ?x=y is not an HTML file by its name,
\* the one with ?about.htm is.
IsHTMLFile(file) == Last(Last(file)) \in HTMLEnds

\* filepath.Clean of a rooted path, name by name.
CleanStep(done, name) ==
    IF name[1] = Here THEN done
    ELSE IF name[1] # Up THEN Append(done, name)
    ELSE IF done = <<>> THEN done ELSE Front(done)

Clean(path) == FoldLeft(CleanStep, <<>>, path)

WithQuery(path, query) ==
    IF query = NoQuery THEN path
    ELSE [path EXCEPT ![Len(path)] = Append(@, Safe(query))]

\* A URL is a path, whether it ends in a slash, and a query.
LocalPathFor(url) ==
    LET directory == url.slash \/ ~HasDot(Last(url.path))
        path == IF directory THEN Append(url.path, IndexName) ELSE url.path
    IN WithQuery(Clean(path), url.query)

Dir(file) == Front(file)

\* The directories above a file.
Above(file) == Prefixes(Front(file)) \ {<<>>}

\* How far two paths agree.
Common(dir, target) == Len(LongestCommonPrefix({dir, target}))

\* Faulty: counted from the document instead of its directory.
RelPathDeep(dir, target) ==
    [up |-> Len(dir) + 1 - Common(dir, target),
     down |-> SubSeq(target, Common(dir, target) + 1, Len(target))]

\* Faulty: only the name of the target's file is kept.
RelPathShort(dir, target) ==
    [up |-> Len(dir) - Common(dir, target), down |-> <<Last(target)>>]

\* filepath.Rel: so many "..", then names.
RelPath(dir, target) ==
    [up |-> Len(dir) - Common(dir, target),
     down |-> SubSeq(target, Common(dir, target) + 1, Len(target))]

\* What a link means in a document of directory dir, for url.Parse and for a
\* browser alike.
Resolve(dir, link) ==
    [path |-> SubSeq(dir, 1, Len(dir) - link.up) \o link.down,
     slash |-> link.down = <<>>, query |-> NoQuery]

\* The file that answers a request, of those there are; <<>> for a 404.
Served(there, url) ==
    LET index == Append(url.path, IndexName) IN
    IF url.slash /\ index \in there THEN index
    ELSE IF url.path \in there THEN url.path
    ELSE IF url.path # <<>> /\ ~HasDot(Last(url.path)) /\ index \in there
    THEN index ELSE <<>>

\* The addresses of a file at which its own links work: its path, and the
\* directory of an index.html.  The same directory without the slash is
\* answered too, but a browser takes the directory above for its base.
Addresses(file) ==
    {[path |-> file, slash |-> FALSE, query |-> NoQuery]}
    \union IF Last(file) = IndexName
           THEN {[path |-> Dir(file), slash |-> TRUE, query |-> NoQuery]}
           ELSE {}
BaseDir(url) == IF url.slash THEN url.path ELSE Front(url.path)
============================================================================
