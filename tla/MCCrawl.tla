------------------------------ MODULE MCCrawl ------------------------------
(* A site of four pages: a and b are stored in the same file (/a, /a/), the *)
(* link graph has a cycle and a self-link, one link leaves the host and one *)
(* is disallowed.                                                           *)
EXTENDS Crawl, TLC

CONSTANTS home, a, b, hidden, elsewhere

MCUrls == {home, a, b, hidden, elsewhere}
MCOnHost == MCUrls \ {elsewhere}
MCPolicies == {{hidden}, {home}}
MCLinks ==
    home :> {home, a, b, elsewhere} @@ a :> {home, hidden} @@
    b :> {a} @@ hidden :> {a} @@ elsewhere :> {home}
MCLocalPath ==
    home :> "index.html" @@ a :> "a" @@ b :> "a" @@
    hidden :> "hidden" @@ elsewhere :> "elsewhere"
=============================================================================
