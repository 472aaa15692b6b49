--------------------------- MODULE MCDastCoverage ---------------------------
(* Two data sources; the first has two scans, the second one.  A list of all *)
(* three does not fit in the window. *)
EXTENDS DastCoverage

CONSTANTS first, second, s1, s2, s3

MCSources == {first, second}
MCScans == {s1, s2, s3}
MCCreated == [s \in MCScans |-> IF s = s3 THEN 3 ELSE IF s = s1 THEN 2 ELSE 1]
MCOwner == [s \in MCScans |-> IF s = s2 THEN second ELSE first]
MCVisited == {s1, s2}
=============================================================================
