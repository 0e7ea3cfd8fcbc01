----------------------------- MODULE MCFetcher -----------------------------
(* Small instance of Fetcher: 0.1 rps is 4 units, a request costs 24.       *)
EXTENDS Fetcher

MCConfiguredRates == {0, 2, 10, 40}
=============================================================================
