-------------------------- MODULE SiteExploration --------------------------
(***************************************************************************)
(* What one crawl promises: starting from the seed it visits every page it *)
(* finds in scope exactly once, and may only call itself "ok" when nothing *)
(* it found is left unvisited.  Crawl refines this.                        *)
(***************************************************************************)
CONSTANTS Urls, Seed

VARIABLES
    frontier,   \* found and not yet visited
    done,       \* visited
    verdict     \* "none" until the crawl reports how it ended

vars == <<frontier, done, verdict>>

Init == frontier = {} /\ done = {} /\ verdict = "none"

Begin ==
    /\ verdict = "none" /\ frontier = {} /\ done = {}
    /\ frontier' = {Seed}
    /\ UNCHANGED <<done, verdict>>

Visit(u, found) ==
    /\ verdict = "none" /\ u \in frontier
    /\ done' = done \union {u}
    /\ frontier' = (frontier \union found) \ done'
    /\ UNCHANGED verdict

Complete ==
    /\ verdict = "none" /\ frontier = {} /\ Seed \in done
    /\ verdict' = "ok"
    /\ UNCHANGED <<frontier, done>>

GiveUp ==
    /\ verdict = "none"
    /\ verdict' \in {"failed", "cancelled"}
    /\ UNCHANGED <<frontier, done>>

Next ==
    \/ Begin
    \/ \E u \in frontier, found \in SUBSET Urls : Visit(u, found)
    \/ Complete
    \/ GiveUp

Spec == Init /\ [][Next]_vars
=============================================================================
