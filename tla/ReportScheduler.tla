--------------------------- MODULE ReportScheduler ---------------------------
(***************************************************************************)
(* The report scheduler (workers/report_scheduler.py), the report routes   *)
(* (api/v1/routes/reports.py) and the report tables of                     *)
(* repositories/postgres_store.py.                                         *)
(*                                                                         *)
(* Every gunicorn worker process runs one scheduler task; the route        *)
(* handlers are plain functions that run on threadpool threads.  All of    *)
(* them share the tables, and each call of postgres_store is one           *)
(* transaction, except update_report_schedule, which SELECTs the row,      *)
(* merges it with its arguments in Python and UPDATEs every column.  The   *)
(* actions below are those calls, so a scheduler, another scheduler and    *)
(* the requests interleave between any two of them.                        *)
(*                                                                         *)
(* Time is abstract: one unit separates two instants at which something    *)
(* can become due.  Names, templates, formats, messages and timestamps     *)
(* other than next_run_at are left out; last_error is reduced to whether   *)
(* it is empty.                                                            *)
(***************************************************************************)
EXTENDS Naturals, FiniteSets, Sequences

CONSTANTS
    Schedules,      \* identifiers of report schedules
    Workers,        \* scheduler tasks, one per worker process
    Requests,       \* HTTP requests to the report routes, each served once
    Operations,     \* the routes they may call
    Payloads,       \* bodies of PUT /reports/schedules/{id}
    Starts,         \* next_run_at in bodies of POST /reports/schedules, None: left out
    Crons,          \* cron expressions
    MaxRetries,     \* settings.report_scheduler_max_retries
    BackoffBase,    \* settings.report_scheduler_backoff_base_seconds
    BackoffMax,     \* settings.report_scheduler_backoff_max_seconds
    MaxTime,        \* bound: the last instant
    MaxFaults,      \* bound: how many times something goes wrong
    MaxCrashes,     \* bound: how many of those are lost worker processes
    None            \* SQL NULL, a missing row and an omitted argument

Actors == Workers \cup Requests

----------------------------------------------------------------------------
(* The clock functions *)

\* Some operators are preceded by a variant with a plausible mistake, named after
\* them with a suffix; nothing uses the variants, they serve to test that the
\* properties notice the mistake.

NextFire_Inclusive(cron, t) == IF t % cron = 0 THEN t ELSE t + (cron - (t % cron))

\* A cron expression is its period: the next instant after t that it divides.
\* compute_next_run_iso is strictly later than its base.
NextFire(cron, t) == t + (cron - (t % cron))

\* Exponential backoff with a cap.
BackoffDelay(retry) ==
    LET doubled == BackoffBase * (2 ^ (retry - 1))
    IN  IF doubled <= BackoffMax THEN doubled ELSE BackoffMax

ASSUME ConstantsAssumption ==
    /\ Workers \cap Requests = {}
    /\ None \notin Schedules /\ None \notin BOOLEAN /\ None \notin Nat
    /\ Crons \subseteq Nat \ {0}
    /\ MaxRetries \in Nat \ {0}
    /\ MaxTime \in Nat /\ MaxFaults \in Nat /\ MaxCrashes \in Nat
    /\ Operations \subseteq {"create", "update", "delete", "run_now", "generate"}
    /\ Starts \subseteq Nat \cup {None}
    /\ Payloads \subseteq [cron : Crons \cup {None},
                           enabled : BOOLEAN \cup {None},
                           next_run_at : Nat \cup {None}]

\* The delays in use are positive (report_scheduler_backoff_* are).
ASSUME BackoffAssumption ==
    \A retry \in 1 .. MaxRetries : BackoffDelay(retry) \in Nat \ {0}

----------------------------------------------------------------------------
(* The state *)

VARIABLES
    now,        \* utc_now()
    schedules,  \* table report_schedules: id -> row, or None
    issued,     \* ids handed out so far (uuid4 never repeats one)
    history,    \* table report_history, in order of insertion
    artifacts,  \* reports that have a report_artifacts row
    audit,      \* table audit_events
    pc,         \* the next call of each actor
    request,    \* what each request asks for
    due,        \* the rest of each worker's due_schedules
    snapshot,   \* the row an actor listed and now works from
    report,     \* the report it is producing
    failed,     \* the worker is in its except branch
    pending,    \* the row update_report_schedule is about to write
    faults,     \* number of calls that raised and processes lost
    crashes     \* number of processes lost

tables  == <<schedules, issued, history, artifacts, audit>>
locals  == <<pc, request, due, snapshot, report, failed, pending>>
budget  == <<faults, crashes>>
vars    == <<now, tables, locals, budget>>

\* occurrence is an auxiliary field, no column and read by no guard: the instant
\* the row is next to be reported for, which its cron or a user set.  It is
\* next_run_at, except while a failed attempt is retried: then next_run_at is the
\* end of the backoff.
Row == [cron : Crons, enabled : BOOLEAN, next_run_at : Nat, occurrence : Nat,
        retry_count : Nat, last_error : BOOLEAN]

Snapshot == [id : Schedules, row : Row]

\* occurrence and attempt are auxiliary as well: what the scheduler produced the
\* report for, and in which attempt at it.
HistoryRow == [schedule   : Schedules \cup {None},
               occurrence : Nat \cup {None},
               attempt    : Nat,
               by         : Actors]

AuditEvent == [action   : {"create", "update", "delete", "run_now", "generate",
                           "execute", "retry", "disabled"},
               schedule : Schedules \cup {None},
               report   : Nat \cup {None},
               retry    : Nat,
               by       : Actors]

Request == [op       : Operations,
            schedule : Schedules \cup {None},
            payload  : Payloads \cup {None}]

Steps == {"poll", "record", "store", "select", "write", "audit", "dead",
          "idle", "done", "failed"}

\* payload.next_run_at or compute_next_run_iso(payload.cron)
NewRow(cron, enabled, start) ==
    LET first == IF start = None THEN NextFire(cron, now) ELSE start
    IN  [cron |-> cron, enabled |-> enabled, next_run_at |-> first, occurrence |-> first,
         retry_count |-> 0, last_error |-> FALSE]

\* The program starts on a database holding some schedules that were created
\* through the routes.
Init ==
    /\ now = 0
    /\ \E existing \in SUBSET Schedules, cron \in [Schedules -> Crons],
          start \in [Schedules -> Starts] :
          /\ schedules = [s \in Schedules |-> IF s \in existing
                                             THEN NewRow(cron[s], TRUE, start[s])
                                             ELSE None]
          /\ issued = existing
    /\ history = <<>>
    /\ artifacts = {}
    /\ audit = {}
    /\ pc = [a \in Actors |-> IF a \in Workers THEN "poll" ELSE "idle"]
    /\ request = [r \in Requests |-> None]
    /\ due = [w \in Workers |-> {}]
    /\ snapshot = [a \in Actors |-> None]
    /\ report = [a \in Actors |-> None]
    /\ failed = [w \in Workers |-> FALSE]
    /\ pending = [a \in Actors |-> None]
    /\ faults = 0
    /\ crashes = 0

----------------------------------------------------------------------------
(* update_report_schedule *)

Keep_Overwrites(argument, column) == argument

\* An omitted argument keeps the column's value; so does an explicit None.
Keep(argument, column) == IF argument = None THEN column ELSE argument

Merge(row, args) ==
    [cron        |-> Keep(args.cron, row.cron),
     enabled     |-> Keep(args.enabled, row.enabled),
     next_run_at |-> Keep(args.next_run_at, row.next_run_at),
     occurrence  |-> Keep(args.occurrence, row.occurrence),
     retry_count |-> Keep(args.retry_count, row.retry_count),
     last_error  |-> Keep(args.last_error, row.last_error)]

\* The report was produced: the next occurrence of the cron it was listed with.
SuccessArgs(row) ==
    [cron |-> None, enabled |-> row.enabled,
     next_run_at |-> NextFire(row.cron, now), occurrence |-> NextFire(row.cron, now),
     retry_count |-> 0, last_error |-> FALSE]

Maxed_OffByOne(retry) == retry > MaxRetries

Maxed(retry) == retry >= MaxRetries

\* The attempt raised: back off, or give up after MaxRetries attempts.  A retry is
\* for the occurrence of the attempt that raised, reported already or not.
FailureArgs(row) ==
    LET retry == row.retry_count + 1
    IN  [cron |-> None,
         enabled |-> IF Maxed(retry) THEN FALSE ELSE row.enabled,
         next_run_at |-> IF Maxed(retry) THEN None ELSE now + BackoffDelay(retry),
         occurrence |-> IF Maxed(retry) THEN None ELSE row.occurrence,
         retry_count |-> retry, last_error |-> TRUE]

\* POST /schedules/{id}/run-now leaves enabled alone.
RunNowArgs(row) ==
    [cron |-> None, enabled |-> None,
     next_run_at |-> NextFire(row.cron, now), occurrence |-> NextFire(row.cron, now),
     retry_count |-> 0, last_error |-> FALSE]

\* PUT /schedules/{id}: a new cron moves next_run_at unless the body sets it.
PutArgs(payload) ==
    LET next == IF payload.cron # None /\ payload.next_run_at = None
                THEN NextFire(payload.cron, now)
                ELSE payload.next_run_at
    IN  [cron |-> payload.cron, enabled |-> payload.enabled,
         next_run_at |-> next, occurrence |-> next,
         retry_count |-> None, last_error |-> None]

UpdateArgs(a) ==
    IF a \in Workers
    THEN IF failed[a] THEN FailureArgs(snapshot[a].row)
                      ELSE SuccessArgs(snapshot[a].row)
    ELSE IF request[a].op = "run_now" THEN RunNowArgs(snapshot[a].row)
                                      ELSE PutArgs(request[a].payload)

\* The schedule an actor is working on, None for POST /reports/generate.
Subject(a) == IF a \in Workers THEN snapshot[a].id ELSE request[a].schedule

----------------------------------------------------------------------------
(* The steps of a scheduler task *)

Listed_Strictly(s) ==
    /\ schedules[s] # None
    /\ schedules[s].enabled
    /\ schedules[s].next_run_at < now

\* WHERE enabled = 1 AND next_run_at IS NOT NULL AND next_run_at <= now
Listed(s) ==
    /\ schedules[s] # None
    /\ schedules[s].enabled
    /\ schedules[s].next_run_at <= now

Earliest(snapshots) ==
    {x \in snapshots : \A y \in snapshots : x.row.next_run_at <= y.row.next_run_at}

\* for schedule in due_schedules: the earliest first, then sleep until the
\* next tick.
Take(w, snapshots) ==
    /\ failed' = [failed EXCEPT ![w] = FALSE]
    /\ report' = [report EXCEPT ![w] = None]
    /\ \/ /\ snapshots = {}
          /\ pc' = [pc EXCEPT ![w] = "poll"]
          /\ snapshot' = [snapshot EXCEPT ![w] = None]
          /\ due' = [due EXCEPT ![w] = {}]
       \/ \E first \in Earliest(snapshots) :
             /\ pc' = [pc EXCEPT ![w] = "record"]
             /\ snapshot' = [snapshot EXCEPT ![w] = first]
             /\ due' = [due EXCEPT ![w] = snapshots \ {first}]

\* list_due_report_schedules.  A tick that finds nothing changes nothing.
Poll(w) ==
    LET found == {s \in Schedules : Listed(s)}
    IN  /\ pc[w] = "poll"
        /\ found # {}
        /\ Take(w, {[id |-> s, row |-> schedules[s]] : s \in found})
        /\ UNCHANGED <<now, tables, request, pending, budget>>

Attempt_Uncounted(w) == snapshot[w].row.retry_count

\* The number of this attempt among those that failed.
Attempt(w) == snapshot[w].row.retry_count + 1

\* The audit event that ends an attempt.
AttemptEvent(w) ==
    [action   |-> IF ~failed[w] THEN "execute"
                  ELSE IF Maxed(Attempt(w)) THEN "disabled" ELSE "retry",
     schedule |-> Subject(w),
     report   |-> IF failed[w] THEN None ELSE report[w],
     retry    |-> IF failed[w] THEN Attempt(w) ELSE 0,
     by       |-> w]

FinishAttempt(w) ==
    /\ pc[w] = "audit"
    /\ audit' = audit \cup {AttemptEvent(w)}
    /\ Take(w, due[w])
    /\ UNCHANGED <<now, schedules, issued, history, artifacts, request, pending, budget>>

\* A store call raises.  Inside the try the except branch takes over; in the
\* except branch, or in list_due_report_schedules, the exception ends the task.
SchedulerFault(w) ==
    LET handled == pc[w] # "poll" /\ ~failed[w]
    IN  /\ faults < MaxFaults
        /\ pc[w] \in {"poll", "record", "store", "select", "write", "audit"}
        /\ faults' = faults + 1
        /\ pc' = [pc EXCEPT ![w] = IF handled THEN "select" ELSE "dead"]
        /\ failed' = [failed EXCEPT ![w] = handled]
        /\ report' = [report EXCEPT ![w] = None]
        /\ pending' = [pending EXCEPT ![w] = None]
        /\ due' = [due EXCEPT ![w] = IF handled THEN @ ELSE {}]
        /\ snapshot' = [snapshot EXCEPT ![w] = IF handled THEN @ ELSE None]
        /\ UNCHANGED <<now, tables, request, crashes>>

\* The worker process is replaced and its start-up creates a new task.
Restart(w) ==
    /\ pc[w] # "poll"
    /\ faults < MaxFaults /\ crashes < MaxCrashes
    /\ faults' = faults + 1
    /\ crashes' = crashes + 1
    /\ pc' = [pc EXCEPT ![w] = "poll"]
    /\ failed' = [failed EXCEPT ![w] = FALSE]
    /\ report' = [report EXCEPT ![w] = None]
    /\ pending' = [pending EXCEPT ![w] = None]
    /\ due' = [due EXCEPT ![w] = {}]
    /\ snapshot' = [snapshot EXCEPT ![w] = None]
    /\ UNCHANGED <<now, tables, request>>

----------------------------------------------------------------------------
(* The calls a scheduler and a request share *)

HasReport(a) == a \in Workers \/ request[a].op \in {"run_now", "generate"}

NewReport_Reused == Cardinality(artifacts) + 1

\* The identifier of the next report (a uuid: never used before).
NewReport == Len(history) + 1

\* append_report_history
RecordReport(a) ==
    /\ pc[a] = "record"
    /\ history' = Append(history,
                         [schedule   |-> Subject(a),
                          occurrence |-> IF a \in Workers THEN snapshot[a].row.occurrence
                                                          ELSE None,
                          attempt    |-> IF a \in Workers THEN Attempt(a) ELSE 0,
                          by         |-> a])
    /\ report' = [report EXCEPT ![a] = NewReport]
    /\ pc' = [pc EXCEPT ![a] = "store"]
    /\ UNCHANGED <<now, schedules, issued, artifacts, audit, request, due, snapshot,
                   failed, pending, budget>>

StoreArtifact_BestEffort(a) ==
    /\ pc[a] = "store"
    /\ artifacts' \in {artifacts, artifacts \cup {report[a]}}
    /\ pc' = [pc EXCEPT ![a] = IF Subject(a) = None THEN "audit" ELSE "select"]
    /\ UNCHANGED <<now, schedules, issued, history, audit, request, due, snapshot,
                   report, failed, pending, budget>>

\* create_report_artifact: the file is in place before its row is.
StoreArtifact(a) ==
    /\ pc[a] = "store"
    /\ artifacts' = artifacts \cup {report[a]}
    /\ pc' = [pc EXCEPT ![a] = IF Subject(a) = None THEN "audit" ELSE "select"]
    /\ UNCHANGED <<now, schedules, issued, history, audit, request, due, snapshot,
                   report, failed, pending, budget>>

\* The SELECT of update_report_schedule.  When the row is gone it returns None,
\* which only PUT turns into a 404.
SelectRow(a) ==
    LET row == schedules[Subject(a)]
    IN  /\ pc[a] = "select"
        /\ pending' = [pending EXCEPT ![a] = IF row = None THEN None
                                             ELSE Merge(row, UpdateArgs(a))]
        /\ pc' = [pc EXCEPT ![a] = IF row # None THEN "write"
                                   ELSE IF HasReport(a) THEN "audit" ELSE "done"]
        /\ UNCHANGED <<now, tables, request, due, snapshot, report, failed, budget>>

Written_Upsert(a) == pending[a]

\* What the UPDATE leaves: it finds no row when the schedule was deleted meanwhile.
Written(a) == IF schedules[Subject(a)] = None THEN None ELSE pending[a]

\* The UPDATE of update_report_schedule.
WriteRow(a) ==
    /\ pc[a] = "write"
    /\ schedules' = [schedules EXCEPT ![Subject(a)] = Written(a)]
    /\ pending' = [pending EXCEPT ![a] = None]
    /\ pc' = [pc EXCEPT ![a] = "audit"]
    /\ UNCHANGED <<now, issued, history, artifacts, audit, request, due, snapshot,
                   report, failed, budget>>

----------------------------------------------------------------------------
(* The requests *)

Ask(r, op, s, payload) ==
    /\ pc[r] = "idle"
    /\ op \in Operations
    /\ request' = [request EXCEPT ![r] = [op |-> op, schedule |-> s, payload |-> payload]]

\* POST /reports/generate
Generate(r) ==
    /\ Ask(r, "generate", None, None)
    /\ pc' = [pc EXCEPT ![r] = "record"]
    /\ UNCHANGED <<now, tables, due, snapshot, report, failed, pending, budget>>

\* POST /reports/schedules: the INSERT of create_report_schedule.
Create(r) ==
    \E s \in Schedules \ issued, cron \in Crons, enabled \in BOOLEAN, start \in Starts :
       /\ Ask(r, "create", s, None)
       /\ schedules' = [schedules EXCEPT ![s] = NewRow(cron, enabled, start)]
       /\ issued' = issued \cup {s}
       /\ pc' = [pc EXCEPT ![r] = "audit"]
       /\ UNCHANGED <<now, history, artifacts, audit, due, snapshot, report, failed,
                      pending, budget>>

\* PUT /reports/schedules/{id}
Put(r) ==
    \E s \in issued, payload \in Payloads :
       /\ Ask(r, "update", s, payload)
       /\ pc' = [pc EXCEPT ![r] = "select"]
       /\ UNCHANGED <<now, tables, due, snapshot, report, failed, pending, budget>>

\* DELETE /reports/schedules/{id}: 404 when the DELETE removes no row.
Delete(r) ==
    \E s \in issued :
       /\ Ask(r, "delete", s, None)
       /\ schedules' = [schedules EXCEPT ![s] = None]
       /\ pc' = [pc EXCEPT ![r] = IF schedules[s] = None THEN "done" ELSE "audit"]
       /\ UNCHANGED <<now, issued, history, artifacts, audit, due, snapshot, report,
                      failed, pending, budget>>

\* POST /reports/schedules/{id}/run-now looks the schedule up in the full list.
RunNow(r) ==
    \E s \in issued :
       /\ Ask(r, "run_now", s, None)
       /\ snapshot' = [snapshot EXCEPT ![r] =
                          IF schedules[s] = None THEN None ELSE [id |-> s, row |-> schedules[s]]]
       /\ pc' = [pc EXCEPT ![r] = IF schedules[s] = None THEN "done" ELSE "record"]
       /\ UNCHANGED <<now, tables, due, report, failed, pending, budget>>

\* Every route ends with its audit event, in a transaction of its own.
Respond(r) ==
    /\ pc[r] = "audit"
    /\ audit' = audit \cup {[action |-> request[r].op, schedule |-> Subject(r),
                             report |-> report[r], retry |-> 0, by |-> r]}
    /\ pc' = [pc EXCEPT ![r] = "done"]
    /\ UNCHANGED <<now, schedules, issued, history, artifacts, request, due, snapshot,
                   report, failed, pending, budget>>

\* A store call raises: the request answers 500 and what it committed stays.
RequestFault(r) ==
    /\ faults < MaxFaults
    /\ pc[r] \in {"record", "store", "select", "write", "audit"}
    /\ faults' = faults + 1
    /\ pc' = [pc EXCEPT ![r] = "failed"]
    /\ pending' = [pending EXCEPT ![r] = None]
    /\ UNCHANGED <<now, tables, request, due, snapshot, report, failed, crashes>>

Tick ==
    /\ now < MaxTime
    /\ now' = now + 1
    /\ UNCHANGED <<tables, locals, budget>>

----------------------------------------------------------------------------
SharedCall(a) == RecordReport(a) \/ StoreArtifact(a) \/ SelectRow(a) \/ WriteRow(a)

Scheduler(w) == Poll(w) \/ SharedCall(w) \/ FinishAttempt(w)

Handler(r) == SharedCall(r) \/ Respond(r)

Arrive(r) == Generate(r) \/ Create(r) \/ Put(r) \/ Delete(r) \/ RunNow(r)

Next ==
    \/ \E w \in Workers : Scheduler(w) \/ SchedulerFault(w) \/ Restart(w)
    \/ \E r \in Requests : Arrive(r) \/ Handler(r) \/ RequestFault(r)
    \/ Tick

Spec == Init /\ [][Next]_vars

\* The event loop runs a scheduler task, and a threadpool thread a handler, to
\* its next call; nothing obliges a user to send a request or a call to raise.
FairSpec ==
    /\ Spec
    /\ \A w \in Workers : WF_vars(Scheduler(w))
    /\ \A r \in Requests : WF_vars(Handler(r))
----------------------------------------------------------------------------
(* Properties *)

TypeOK ==
    /\ now \in 0 .. MaxTime
    /\ schedules \in [Schedules -> Row \cup {None}]
    /\ issued \in SUBSET Schedules
    /\ history \in Seq(HistoryRow)
    /\ artifacts \subseteq 1 .. Len(history)
    /\ audit \subseteq AuditEvent
    /\ pc \in [Actors -> Steps]
    /\ request \in [Requests -> Request \cup {None}]
    /\ due \in [Workers -> SUBSET Snapshot]
    /\ snapshot \in [Actors -> Snapshot \cup {None}]
    /\ report \in [Actors -> Nat \cup {None}]
    /\ failed \in [Workers -> BOOLEAN]
    /\ pending \in [Actors -> Row \cup {None}]
    /\ faults \in 0 .. MaxFaults
    /\ crashes \in 0 .. MaxCrashes

\* The report tables implement the ledger: whatever fails, and however the
\* schedulers and the requests interleave, an audited report can be downloaded,
\* a report is produced by one operation only, and no table shrinks.
Ledger == INSTANCE ReportLedger
          WITH recorded <- 1 .. Len(history),
               stored   <- artifacts,
               audited  <- {e.report : e \in audit} \ {None}

LedgerSpec == Ledger!Spec

\* An audit event that names a report names the schedule that report was
\* produced for and the actor that produced it (the monitor and the audit page
\* join on them).
AuditMatchesHistory ==
    \A e \in audit :
       e.report # None =>
          /\ e.report \in 1 .. Len(history)
          /\ history[e.report].schedule = e.schedule
          /\ history[e.report].by = e.by

\* A schedule that used up its retries is disabled, even when stale rows are
\* written back over newer ones; only a PUT that enables it says otherwise.
ExhaustedIsDisabled ==
    (\A p \in Payloads : p.enabled # TRUE) =>
       \A s \in Schedules :
          schedules[s] # None /\ schedules[s].retry_count >= MaxRetries
             => ~schedules[s].enabled

\* A deleted schedule stays deleted: an update that read it before the DELETE
\* does not bring it back.
NoResurrection ==
    [][\A s \in issued : schedules[s] = None => schedules'[s] = None]_vars

\* The run that produced report n reached its audit event.
Executed(n) == \E e \in audit : e.action = "execute" /\ e.report = n

\* One scheduler reports the occurrences of a schedule in order, as long as its
\* process is not replaced and next_run_at is only moved by runs.  It reports an
\* occurrence again only when the attempt that reported it raised afterwards
\* (append_report_history is the first of the calls in the try, and its report
\* stays in the history), in a later one of at most MaxRetries attempts; a run
\* that got through to its audit event is never repeated.
OncePerOccurrence ==
    \A i, j \in 1 .. Len(history) :
       /\ i < j
       /\ history[i].schedule = history[j].schedule
       /\ {history[i].by, history[j].by} \subseteq Workers
       => \/ history[i].occurrence < history[j].occurrence
          \/ /\ history[i].occurrence = history[j].occurrence
             /\ history[i].attempt < history[j].attempt
             /\ history[j].attempt <= MaxRetries
             /\ ~Executed(i)

\* Every failed attempt but the last is in the audit trail with its number.
FailuresAudited ==
    \A s \in Schedules : schedules[s] # None =>
       \A n \in 1 .. schedules[s].retry_count - 1 :
          \E e \in audit : e.schedule = s /\ e.retry = n

\* An enabled schedule whose time has come.
Due(s) ==
    /\ schedules[s] # None
    /\ schedules[s].enabled
    /\ schedules[s].next_run_at <= now

\* A due schedule is attempted, or stops being due, unless every scheduler task
\* has died on an exception of its error handling.
DueIsServed ==
    \A s \in Schedules : Due(s) ~> (~Due(s) \/ \A w \in Workers : pc[w] = "dead")

\* "Scheduler loop starts with backend startup and executes due report schedules
\* automatically" (docs/operations/install-guide.md): no exception to it.
DueIsAlwaysServed == \A s \in Schedules : Due(s) ~> ~Due(s)

\* "disables schedules after max retries" (docs/architecture/system-overview.md):
\* only a PUT that enables the schedule undoes it.
ExhaustedStaysDisabled ==
    [][\A s \in Schedules :
          /\ schedules[s] # None /\ schedules'[s] # None
          /\ schedules[s].retry_count >= MaxRetries
          /\ ~schedules[s].enabled /\ schedules'[s].enabled
          => \E r \in Requests : pc[r] = "write" /\ request[r].payload # None
                                 /\ request[r].payload.enabled = TRUE]_vars
=============================================================================
