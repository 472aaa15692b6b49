--------------------------- MODULE MCAnalyticsCache ---------------------------
(* Small instances of the analytics cache for TLC. *)
EXTENDS AnalyticsCache, TLC

CONSTANTS overview, filtered, p1, p2, a, b

Interchangeable == Permutations({a, b})
=============================================================================
