----------------------------- MODULE SiteCrawls -----------------------------
(***************************************************************************)
(* The crawls of a site as those see them who share its mirror: which are  *)
(* at work, and whether the newest row says that one is.  The two need not *)
(* agree: rows are closed while crawls go on, and crawls die with their    *)
(* rows open.  MirrorFiles is written for any crawls that do no more than  *)
(* this; CrawlLifecycle implements it.                                     *)
(***************************************************************************)
CONSTANT Crawls

VARIABLES
    working,    \* crawls at work
    open        \* the newest row of the site says running

vars == <<working, open>>

Init == working = {} /\ open = FALSE

Start(c) ==
    /\ c \notin working
    /\ working' = working \union {c} /\ open' = TRUE

\* FinishCrawl of the newest row or of another one, or no word.
End(c) ==
    /\ c \in working
    /\ working' = working \ {c} /\ open' \in {open, FALSE}

\* The row of a crawl that ended before it heard of it.
RowOpened == open' = TRUE /\ UNCHANGED working

RowClosed == open /\ open' = FALSE /\ UNCHANGED working

Next == (\E c \in Crawls : Start(c) \/ End(c)) \/ RowOpened \/ RowClosed

Spec == Init /\ [][Next]_vars
=============================================================================
