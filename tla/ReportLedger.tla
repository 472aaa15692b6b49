---------------------------- MODULE ReportLedger ----------------------------
(***************************************************************************)
(* What the reporting tables promise a reader of the report history.       *)
(*                                                                         *)
(* A report is first recorded (a report_history row), then stored (its     *)
(* report_artifacts row, which the download route needs), and only then    *)
(* named by the audit event of the operation that produced it.  Nothing is *)
(* ever taken back: the three tables only grow.                            *)
(***************************************************************************)
VARIABLES
    recorded,   \* reports with a report_history row
    stored,     \* reports with a report_artifacts row
    audited     \* reports named by an audit event

ledger == <<recorded, stored, audited>>

Init ==
    /\ recorded = {}
    /\ stored = {}
    /\ audited = {}

\* A run of a schedule, or POST /reports/generate, starts a report.
Record ==
    /\ \E r \in recorded' : r \notin recorded /\ recorded' = recorded \cup {r}
    /\ UNCHANGED <<stored, audited>>

\* Its artifact becomes downloadable.
Store ==
    /\ \E r \in recorded \ stored : stored' = stored \cup {r}
    /\ UNCHANGED <<recorded, audited>>

\* The operation that produced it is reported to the auditors.
Audit ==
    /\ \E r \in stored \ audited : audited' = audited \cup {r}
    /\ UNCHANGED <<recorded, stored>>

Next == Record \/ Store \/ Audit

Spec == Init /\ [][Next]_ledger
=============================================================================
