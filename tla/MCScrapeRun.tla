---------------------------- MODULE MCScrapeRun ----------------------------
(* Small instances of ScrapeRun for TLC; the .cfg files give the values.   *)
(* Runs are interchangeable in the runs that check no liveness.            *)
EXTENDS ScrapeRun, TLC

NoPrices  == {}
OnePrice  == {1}
Symmetry  == Permutations(Runs)
============================================================================
