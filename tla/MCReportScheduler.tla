------------------------- MODULE MCReportScheduler -------------------------
(* Small instances of the report scheduler for TLC. *)
EXTENDS ReportScheduler, TLC

CONSTANTS s1, s2, w1, w2, r1, r2

\* Bodies of PUT that never enable a schedule: disable it, change its cron, make
\* it due at once.
Edits == {[cron |-> None, enabled |-> FALSE, next_run_at |-> None],
          [cron |-> 2, enabled |-> None, next_run_at |-> None],
          [cron |-> None, enabled |-> None, next_run_at |-> 0]}

NoEdits == {}

\* A new schedule runs at its cron's next instant, or at the one the body gives.
ByCron       == {None}
AtOnceOrCron == {None, 0}

AllOperations == {"create", "update", "delete", "run_now", "generate"}
UserEdits     == {"create", "delete"}

Interchangeable == Permutations({w1, w2}) \cup Permutations({r1, r2})
=============================================================================
