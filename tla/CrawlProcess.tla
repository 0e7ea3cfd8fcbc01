---------------------------- MODULE CrawlProcess ----------------------------
(***************************************************************************)
(* One crawler pod and its crawls row, as the two parts of the system see  *)
(* each other: the pod opens the row once, or ends before it knows whether *)
(* it has; its verdict is the last thing it does, and it calls itself      *)
(* "cancelled" only when it was told to stop; all others do to the row is  *)
(* to close it or to remove it, and they never say "ok".  Crawl, which is  *)
(* what runs in the pod, implements this, and so does each Job of          *)
(* CrawlLifecycle, which takes the pod for no more.                        *)
(***************************************************************************)
VARIABLES
    stage,      \* "starting", "crawling", "stopping" once told to, "ended"
    status      \* the row: "absent", "running" or a verdict

vars == <<stage, status>>

AtWork == stage \in {"crawling", "stopping"}

Init == stage = "starting" /\ status = "absent"

Start ==
    /\ stage = "starting" /\ stage' = "crawling"
    /\ status = "absent" /\ status' = "running"

\* The row is opened, and the pod ends without having heard of it.
StartUnheard ==
    /\ stage = "starting" /\ stage' = "ended"
    /\ status = "absent" /\ status' = "running"

NeverStart == stage = "starting" /\ stage' = "ended" /\ UNCHANGED status

Stop == stage = "crawling" /\ stage' = "stopping" /\ UNCHANGED status

\* An UPDATE does not bring back a row that has been removed.
End(verdict) ==
    /\ AtWork /\ stage' = "ended"
    /\ verdict = "cancelled" => stage = "stopping"
    /\ status' = IF status = "absent" THEN "absent" ELSE verdict

\* Killed, or the database fails the last call.
Die == AtWork /\ stage' = "ended" /\ UNCHANGED status

OthersClose ==
    /\ status # "absent" /\ status' \in {"failed", "cancelled"}
    /\ UNCHANGED stage

OthersRemove == status' = "absent" /\ UNCHANGED stage

Next ==
    \/ Start \/ StartUnheard \/ NeverStart \/ Stop \/ Die
    \/ \E verdict \in {"ok", "failed", "cancelled"} : End(verdict)
    \/ OthersClose \/ OthersRemove

Spec == Init /\ [][Next]_vars
=============================================================================
