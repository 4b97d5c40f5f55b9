-------------------------- MODULE MCWatchRegistry --------------------------
(* Small instances of WatchRegistry for TLC.  Commands are interchangeable *)
(* and so are products.                                                    *)
EXTENDS WatchRegistry, TLC

Symmetry == Permutations(Sessions) \cup Permutations(Products)
============================================================================
