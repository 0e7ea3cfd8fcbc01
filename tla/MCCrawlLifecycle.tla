-------------------------- MODULE MCCrawlLifecycle --------------------------
(* Two Jobs, of either kind: enough for two crawls that overlap and for a   *)
(* row whose Job is gone while another Job of the site is active.           *)
EXTENDS CrawlLifecycle

CONSTANTS j1, j2

MCJobs == {j1, j2}
=============================================================================
