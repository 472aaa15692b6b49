----------------------- MODULE ReportSchedulerProofs -----------------------
(***************************************************************************)
(* Theorems about the report scheduler, for any number of schedules,       *)
(* worker processes and requests, any payloads, and any number of faults.  *)
(***************************************************************************)
EXTENDS ReportScheduler, TLAPS

InCall == {"record", "store", "select", "write", "audit"}

\* What the locals of an actor hold while it is between two calls.
WellFormed ==
    /\ \A w \in Workers : pc[w] \in InCall => snapshot[w] \in Snapshot
    /\ \A r \in Requests :
          /\ pc[r] \in InCall => request[r] \in Request
          /\ pc[r] \in {"record", "store"} => request[r].op \in {"run_now", "generate"}
          /\ pc[r] \in {"select", "write"} => request[r].op \in {"run_now", "update"}
          /\ pc[r] \in InCall /\ request[r].op # "generate" => request[r].schedule \in Schedules
          /\ pc[r] \in InCall /\ request[r].op = "generate" => request[r].schedule = None
          /\ pc[r] \in InCall /\ request[r].op = "run_now" => snapshot[r] \in Snapshot
          /\ pc[r] \in InCall /\ request[r].op = "update" => request[r].payload \in Payloads
    /\ \A a \in Actors : pc[a] = "store" => report[a] \in 1 .. Len(history)
    /\ \A a \in Actors : pc[a] = "write" => pending[a] \in Row

TypeInv == TypeOK /\ WellFormed

----------------------------------------------------------------------------
(* The operators *)

LEMMA NextFireLater ==
    ASSUME NEW cron \in Nat \ {0}, NEW t \in Nat
    PROVE  NextFire(cron, t) \in Nat /\ NextFire(cron, t) > t
  BY DEF NextFire

\* A change is a row in which any column may be left out.
Args == [cron : Crons \cup {None}, enabled : BOOLEAN \cup {None},
         next_run_at : Nat \cup {None}, occurrence : Nat \cup {None},
         retry_count : Nat \cup {None}, last_error : BOOLEAN \cup {None}]

LEMMA MergeType ==
    ASSUME NEW row \in Row, NEW args \in Args
    PROVE  Merge(row, args) \in Row
  BY DEF Merge, Keep, Row, Args

LEMMA UpdateArgsType ==
    ASSUME TypeInv, NEW a \in Actors, pc[a] = "select"
    PROVE  UpdateArgs(a) \in Args
<1> USE DEF TypeInv, WellFormed, TypeOK
<1>1. now \in Nat /\ Crons \subseteq Nat \ {0}
  BY ConstantsAssumption
<1>2. ASSUME NEW row \in Row
      PROVE  SuccessArgs(row) \in Args /\ RunNowArgs(row) \in Args
  <2>1. NextFire(row.cron, now) \in Nat
    BY <1>1, NextFireLater DEF Row
  <2>2. QED
    BY <2>1 DEF SuccessArgs, RunNowArgs, Args, Row
<1>3. ASSUME NEW row \in Row
      PROVE  FailureArgs(row) \in Args
  <2> DEFINE retry == row.retry_count + 1
  <2>1. retry \in Nat \ {0}
    BY DEF Row
  <2>2. CASE Maxed(retry)
    BY <2>1, <2>2 DEF FailureArgs, Args, Row
  <2>3. CASE ~Maxed(retry)
    <3>1. retry \in 1 .. MaxRetries
      BY <2>1, <2>3, ConstantsAssumption DEF Maxed
    <3>2. BackoffDelay(retry) \in Nat
      BY <3>1, BackoffAssumption
    <3>3. now + BackoffDelay(retry) \in Nat
      BY <3>2, <1>1
    <3>4. QED
      BY <2>1, <2>3, <3>3 DEF FailureArgs, Args, Row
  <2>4. QED
    BY <2>2, <2>3
<1>4. ASSUME NEW payload \in Payloads
      PROVE  PutArgs(payload) \in Args
  <2>1. payload \in [cron : Crons \cup {None}, enabled : BOOLEAN \cup {None},
                     next_run_at : Nat \cup {None}]
    BY ConstantsAssumption
  <2>2. payload.cron # None => NextFire(payload.cron, now) \in Nat
    BY <1>1, <2>1, NextFireLater
  <2>3. QED
    BY <2>1, <2>2 DEF PutArgs, Args
<1>5. CASE a \in Workers
  <2>1. snapshot[a].row \in Row
    BY <1>5 DEF InCall, Snapshot
  <2>2. QED
    BY <1>2, <1>3, <1>5, <2>1 DEF UpdateArgs
<1>6. CASE a \in Requests /\ request[a].op = "run_now"
  <2>1. snapshot[a].row \in Row
    BY <1>6 DEF InCall, Snapshot
  <2>2. QED
    BY <1>2, <1>6, <2>1, ConstantsAssumption DEF UpdateArgs
<1>7. CASE a \in Requests /\ request[a].op = "update"
  BY <1>4, <1>7, ConstantsAssumption DEF UpdateArgs, InCall
<1>8. QED
  BY <1>5, <1>6, <1>7 DEF Actors

----------------------------------------------------------------------------
(* Type correctness *)

LEMMA NewRowType ==
    ASSUME now \in Nat, NEW cron \in Crons, NEW enabled \in BOOLEAN, NEW start \in Starts
    PROVE  NewRow(cron, enabled, start) \in Row
<1>1. NextFire(cron, now) \in Nat
  BY NextFireLater, ConstantsAssumption
<1>2. QED
  BY <1>1, ConstantsAssumption DEF NewRow, Row

LEMMA InitType == Init => TypeInv
<1> SUFFICES ASSUME Init PROVE TypeInv
  OBVIOUS
<1>1. PICK existing \in SUBSET Schedules, cron \in [Schedules -> Crons],
           start \in [Schedules -> Starts] :
         /\ schedules = [s \in Schedules |-> IF s \in existing
                                            THEN NewRow(cron[s], TRUE, start[s]) ELSE None]
         /\ issued = existing
  BY DEF Init
<1>2. schedules \in [Schedules -> Row \cup {None}] /\ issued \in SUBSET Schedules
  <2>1. \A s \in Schedules : NewRow(cron[s], TRUE, start[s]) \in Row
    BY NewRowType DEF Init
  <2>2. QED
    BY <1>1, <2>1
<1>3. TypeOK
  <2>1. /\ now = 0 /\ history = <<>> /\ artifacts = {} /\ audit = {} /\ faults = 0 /\ crashes = 0
        /\ pc = [a \in Actors |-> IF a \in Workers THEN "poll" ELSE "idle"]
        /\ request = [r \in Requests |-> None] /\ due = [w \in Workers |-> {}]
        /\ snapshot = [a \in Actors |-> None] /\ report = [a \in Actors |-> None]
        /\ failed = [w \in Workers |-> FALSE] /\ pending = [a \in Actors |-> None]
    BY DEF Init
  <2>2. QED
    BY <1>2, <2>1, ConstantsAssumption DEF TypeOK, Steps
<1>4. WellFormed
  BY ConstantsAssumption DEF Init, WellFormed, InCall, Actors
<1>5. QED
  BY <1>3, <1>4 DEF TypeInv

LEMMA TakeType ==
    ASSUME TypeInv, NEW w \in Workers, NEW snapshots \in SUBSET Snapshot,
           Take(w, snapshots)
    PROVE  /\ failed' \in [Workers -> BOOLEAN]
           /\ report' \in [Actors -> Nat \cup {None}]
           /\ pc' \in [Actors -> Steps]
           /\ snapshot' \in [Actors -> Snapshot \cup {None}]
           /\ due' \in [Workers -> SUBSET Snapshot]
           /\ \A a \in Actors : a # w => pc'[a] = pc[a] /\ snapshot'[a] = snapshot[a]
                                       /\ report'[a] = report[a]
           /\ pc'[w] \in {"poll", "record"}
           /\ pc'[w] = "record" => snapshot'[w] \in Snapshot
<1>0. w \in Actors
  BY DEF Actors
<1>1. CASE snapshots = {} /\ pc' = [pc EXCEPT ![w] = "poll"]
            /\ snapshot' = [snapshot EXCEPT ![w] = None]
            /\ due' = [due EXCEPT ![w] = {}]
  BY <1>0, <1>1 DEF TypeInv, TypeOK, Take, Steps
<1>2. ASSUME NEW first \in Earliest(snapshots),
             pc' = [pc EXCEPT ![w] = "record"],
             snapshot' = [snapshot EXCEPT ![w] = first],
             due' = [due EXCEPT ![w] = snapshots \ {first}]
      PROVE  /\ pc' \in [Actors -> Steps] /\ pc'[w] = "record"
             /\ snapshot' \in [Actors -> Snapshot \cup {None}]
             /\ snapshot'[w] \in Snapshot
             /\ due' \in [Workers -> SUBSET Snapshot]
             /\ \A a \in Actors : a # w => pc'[a] = pc[a] /\ snapshot'[a] = snapshot[a]
  <2>1. first \in Snapshot
    BY DEF Earliest
  <2>2. QED
    BY <1>0, <1>2, <2>1 DEF TypeInv, TypeOK, Steps
<1>3. /\ failed' \in [Workers -> BOOLEAN]
      /\ report' \in [Actors -> Nat \cup {None}]
      /\ \A a \in Actors : a # w => report'[a] = report[a]
  BY <1>0 DEF TypeInv, TypeOK, Take
<1>4. QED
  BY <1>1, <1>2, <1>3 DEF Take

LEMMA SchedulerType ==
    ASSUME TypeInv, NEW w \in Workers,
           Poll(w) \/ FinishAttempt(w) \/ SchedulerFault(w) \/ Restart(w)
    PROVE  TypeInv'
<1> USE DEF TypeInv
<1>0. w \in Actors /\ w \notin Requests
  BY ConstantsAssumption DEF Actors
<1>1. CASE Poll(w)
  <2>1. {[id |-> s, row |-> schedules[s]] : s \in {s \in Schedules : Listed(s)}} \in SUBSET Snapshot
    BY DEF TypeOK, Listed, Snapshot
  <2> DEFINE found == {[id |-> s, row |-> schedules[s]] : s \in {s \in Schedules : Listed(s)}}
  <2>2. Take(w, found)
    BY <1>1 DEF Poll
  <2> HIDE DEF found
  <2>3. TypeOK'
    BY <1>1, <2>1, <2>2, TakeType DEF Poll, TypeOK, tables, budget
  <2>4. WellFormed'
    BY <1>0, <1>1, <2>1, <2>2, TakeType DEF Poll, WellFormed, InCall, tables, budget, Actors
  <2>5. QED
    BY <2>3, <2>4
<1>2. CASE FinishAttempt(w)
  <2>1. due[w] \in SUBSET Snapshot /\ Take(w, due[w])
    BY <1>2 DEF FinishAttempt, TypeOK
  <2>2. AttemptEvent(w) \in AuditEvent
    <3>1. snapshot[w] \in Snapshot
      BY <1>2 DEF FinishAttempt, WellFormed, InCall
    <3>2. Attempt(w) \in Nat /\ Subject(w) \in Schedules
      BY <3>1 DEF Attempt, Subject, Snapshot, Row
    <3>3. report[w] \in Nat \cup {None}
      BY <1>0 DEF TypeOK
    <3>4. QED
      BY <1>0, <3>2, <3>3 DEF AttemptEvent, AuditEvent
  <2>3. TypeOK'
    BY <1>2, <2>1, <2>2, TakeType DEF FinishAttempt, TypeOK, budget
  <2>4. WellFormed'
    BY <1>0, <1>2, <2>1, TakeType DEF FinishAttempt, WellFormed, InCall, budget, Actors
  <2>5. QED
    BY <2>3, <2>4
<1>3. CASE SchedulerFault(w)
  <2>1. TypeOK'
    BY <1>0, <1>3, ConstantsAssumption DEF SchedulerFault, TypeOK, tables, Steps
  <2>2. WellFormed'
    BY <1>0, <1>3 DEF SchedulerFault, WellFormed, InCall, TypeOK, tables, Actors
  <2>3. QED
    BY <2>1, <2>2
<1>4. CASE Restart(w)
  <2>1. TypeOK'
    BY <1>0, <1>4, ConstantsAssumption DEF Restart, TypeOK, tables, Steps
  <2>2. WellFormed'
    BY <1>0, <1>4 DEF Restart, WellFormed, InCall, TypeOK, tables, Actors
  <2>3. QED
    BY <2>1, <2>2
<1>5. QED
  BY <1>1, <1>2, <1>3, <1>4

LEMMA SharedCallType ==
    ASSUME TypeInv, NEW a \in Actors, SharedCall(a)
    PROVE  TypeInv'
<1> USE DEF TypeInv
<1>0. a \in Workers => a \notin Requests
  BY ConstantsAssumption
<1>1. CASE RecordReport(a)
  <2> DEFINE new == [schedule |-> Subject(a),
                     occurrence |-> IF a \in Workers THEN snapshot[a].row.occurrence ELSE None,
                     attempt |-> IF a \in Workers THEN Attempt(a) ELSE 0,
                     by |-> a]
  <2>1. new \in HistoryRow
    <3>1. CASE a \in Workers
      BY <1>1, <3>1 DEF RecordReport, Subject, WellFormed, InCall, Snapshot, Row, HistoryRow,
         Attempt
    <3>2. CASE a \notin Workers
      BY <1>1, <3>2 DEF RecordReport, Subject, WellFormed, InCall, HistoryRow, Actors
    <3>3. QED
      BY <3>1, <3>2
  <2>2. history' = Append(history, new)
    BY <1>1 DEF RecordReport
  <2> HIDE DEF new
  <2>3. history' \in Seq(HistoryRow) /\ Len(history') = Len(history) + 1 /\ Len(history) \in Nat
    BY <2>1, <2>2 DEF TypeOK
  <2>4. report'[a] \in 1 .. Len(history') /\ report' \in [Actors -> Nat \cup {None}]
    BY <1>1, <2>3 DEF RecordReport, NewReport, TypeOK
  <2>5. TypeOK'
    BY <1>1, <2>3, <2>4 DEF RecordReport, TypeOK, Steps, budget
  <2>6. WellFormed'
    BY <1>0, <1>1, <2>3, <2>4 DEF RecordReport, WellFormed, InCall, TypeOK, budget, Actors
  <2>7. QED
    BY <2>5, <2>6
<1>2. CASE StoreArtifact(a)
  <2>1. TypeOK'
    BY <1>2 DEF StoreArtifact, WellFormed, TypeOK, Steps, budget
  <2>2. Subject(a) # None => a \in Workers \/ request[a].op = "run_now"
    BY <1>2 DEF StoreArtifact, WellFormed, InCall, Subject, Actors
  <2>3. WellFormed'
    BY <1>0, <1>2, <2>2 DEF StoreArtifact, WellFormed, InCall, TypeOK, budget, Actors
  <2>4. QED
    BY <2>1, <2>3
<1>3. CASE SelectRow(a)
  <2> DEFINE row == schedules[Subject(a)]
  <2>1. Subject(a) \in Schedules
    BY <1>3 DEF SelectRow, Subject, WellFormed, InCall, Snapshot, Actors
  <2>2. row \in Row \cup {None}
    BY <2>1 DEF TypeOK
  <2>3. row # None => Merge(row, UpdateArgs(a)) \in Row
    BY <1>3, <2>2, UpdateArgsType, MergeType DEF SelectRow
  <2>4. pending' \in [Actors -> Row \cup {None}] /\ (row # None => pending'[a] \in Row)
    BY <1>3, <2>3 DEF SelectRow, TypeOK
  <2>5. TypeOK'
    BY <1>3, <2>4 DEF SelectRow, TypeOK, Steps, budget, tables
  <2>6. pc'[a] = "write" => row # None
    BY <1>3 DEF SelectRow, TypeOK
  <2> HIDE DEF row
  <2>7. \A b \in Actors : b # a => pc'[b] = pc[b] /\ pending'[b] = pending[b]
    BY <1>3 DEF SelectRow, TypeOK
  <2>8. pc'[a] \in {"write", "audit", "done"}
    BY <1>3 DEF SelectRow, TypeOK
  <2>9. WellFormed'
    BY <1>0, <1>3, <2>4, <2>6, <2>7, <2>8 DEF SelectRow, WellFormed, InCall, budget, tables, Actors
  <2>10. QED
    BY <2>5, <2>9
<1>4. CASE WriteRow(a)
  <2>1. Written(a) \in Row \cup {None}
    BY <1>4 DEF WriteRow, Written, WellFormed
  <2>2. TypeOK'
    BY <1>4, <2>1 DEF WriteRow, TypeOK, Steps, budget
  <2>3. WellFormed'
    BY <1>0, <1>4 DEF WriteRow, WellFormed, InCall, TypeOK, budget, Actors
  <2>4. QED
    BY <2>2, <2>3
<1>5. QED
  BY <1>1, <1>2, <1>3, <1>4 DEF SharedCall

LEMMA RequestType ==
    ASSUME TypeInv, NEW r \in Requests,
           Arrive(r) \/ Respond(r) \/ RequestFault(r)
    PROVE  TypeInv'
<1> USE DEF TypeInv
<1>0. r \in Actors /\ r \notin Workers
  BY ConstantsAssumption DEF Actors
<1>1. CASE Generate(r)
  <2>1. TypeOK'
    BY <1>0, <1>1 DEF Generate, Ask, TypeOK, Request, Steps, tables, budget
  <2>2. WellFormed'
    BY <1>0, <1>1 DEF Generate, Ask, WellFormed, InCall, TypeOK, Request, tables, budget, Actors
  <2>3. QED
    BY <2>1, <2>2
<1>2. CASE Create(r)
  <2> PICK s \in Schedules \ issued, cron \in Crons, enabled \in BOOLEAN, start \in Starts :
         /\ Ask(r, "create", s, None)
         /\ schedules' = [schedules EXCEPT ![s] = NewRow(cron, enabled, start)]
         /\ issued' = issued \cup {s}
         /\ pc' = [pc EXCEPT ![r] = "audit"]
         /\ UNCHANGED <<now, history, artifacts, audit, due, snapshot, report, failed,
                        pending, budget>>
    BY <1>2 DEF Create
  <2>1. NewRow(cron, enabled, start) \in Row
    BY NewRowType, ConstantsAssumption DEF TypeOK
  <2>2. TypeOK'
    BY <1>0, <2>1 DEF Ask, TypeOK, Request, Steps, budget
  <2>3. WellFormed'
    BY <1>0 DEF Ask, WellFormed, InCall, TypeOK, Request, budget, Actors
  <2>4. QED
    BY <2>2, <2>3
<1>3. CASE Put(r)
  <2>1. TypeOK'
    BY <1>0, <1>3 DEF Put, Ask, TypeOK, Request, Steps, tables, budget
  <2>2. WellFormed'
    BY <1>0, <1>3 DEF Put, Ask, WellFormed, InCall, TypeOK, Request, tables, budget, Actors
  <2>3. QED
    BY <2>1, <2>2
<1>4. CASE Delete(r)
  <2>1. TypeOK'
    BY <1>0, <1>4 DEF Delete, Ask, TypeOK, Request, Steps, budget
  <2>2. WellFormed'
    BY <1>0, <1>4 DEF Delete, Ask, WellFormed, InCall, TypeOK, Request, budget, Actors
  <2>3. QED
    BY <2>1, <2>2
<1>5. CASE RunNow(r)
  <2>1. TypeOK'
    BY <1>0, <1>5 DEF RunNow, Ask, TypeOK, Request, Snapshot, Steps, tables, budget
  <2>2. WellFormed'
    BY <1>0, <1>5 DEF RunNow, Ask, WellFormed, InCall, TypeOK, Request, Snapshot, tables, budget, Actors
  <2>3. QED
    BY <2>1, <2>2
<1>6. CASE Respond(r)
  <2>1. [action |-> request[r].op, schedule |-> Subject(r), report |-> report[r],
         retry |-> 0, by |-> r] \in AuditEvent
    BY <1>0, <1>6, ConstantsAssumption
       DEF Respond, Subject, AuditEvent, Request, WellFormed, InCall, TypeOK
  <2>2. TypeOK'
    BY <1>0, <1>6, <2>1 DEF Respond, TypeOK, Steps, budget
  <2>3. WellFormed'
    BY <1>0, <1>6 DEF Respond, WellFormed, InCall, TypeOK, budget, Actors
  <2>4. QED
    BY <2>2, <2>3
<1>7. CASE RequestFault(r)
  <2>1. TypeOK'
    BY <1>0, <1>7, ConstantsAssumption DEF RequestFault, TypeOK, Steps, tables
  <2>2. WellFormed'
    BY <1>0, <1>7 DEF RequestFault, WellFormed, InCall, TypeOK, tables, Actors
  <2>3. QED
    BY <2>1, <2>2
<1>8. QED
  BY <1>1, <1>2, <1>3, <1>4, <1>5, <1>6, <1>7 DEF Arrive

LEMMA NextType == TypeInv /\ [Next]_vars => TypeInv'
<1> SUFFICES ASSUME TypeInv, [Next]_vars PROVE TypeInv'
  OBVIOUS
<1>1. CASE \E w \in Workers : Scheduler(w) \/ SchedulerFault(w) \/ Restart(w)
  BY <1>1, SchedulerType, SharedCallType DEF Scheduler, Actors
<1>2. CASE \E r \in Requests : Arrive(r) \/ Handler(r) \/ RequestFault(r)
  BY <1>2, RequestType, SharedCallType DEF Handler, Actors
<1>3. CASE Tick
  BY <1>3, ConstantsAssumption DEF Tick, TypeInv, TypeOK, WellFormed, tables, locals, budget
<1>4. CASE UNCHANGED vars
  BY <1>4 DEF vars, TypeInv, TypeOK, WellFormed, tables, locals, budget
<1>5. QED
  BY <1>1, <1>2, <1>3, <1>4 DEF Next

\* Every table and every local keeps its type, and a call never runs on a local
\* that was not set.
THEOREM TypeCorrect == Spec => []TypeInv
<1>1. Init => TypeInv
  BY InitType
<1>2. TypeInv /\ [Next]_vars => TypeInv'
  BY NextType
<1>3. QED
  BY <1>1, <1>2, PTL DEF Spec

\* The type invariant of the runs.
THEOREM TypeSafety == Spec => []TypeOK
<1>1. TypeInv => TypeOK
  BY DEF TypeInv
<1>2. QED
  BY <1>1, TypeCorrect, PTL

----------------------------------------------------------------------------
(* Retries *)

Sound(row) == row.retry_count >= MaxRetries => ~row.enabled

\* The invariant has to cover the rows that are read but not written back yet.
RetryInv ==
    (\A p \in Payloads : p.enabled # TRUE) =>
       /\ \A s \in Schedules : schedules[s] # None => Sound(schedules[s])
       /\ \A a \in Actors : pc[a] = "write" => Sound(pending[a])

\* Whatever an actor listed earlier, merging its change keeps a row sound: a
\* change either sets retry_count and enabled together, or sets neither up.
LEMMA MergeSound ==
    ASSUME TypeInv, NEW a \in Actors, pc[a] = "select", NEW row \in Row, Sound(row),
           \A p \in Payloads : p.enabled # TRUE
    PROVE  Sound(Merge(row, UpdateArgs(a)))
<1> USE DEF TypeInv, WellFormed, InCall
<1>0. MaxRetries \in Nat \ {0} /\ None \notin Nat /\ None \notin BOOLEAN
  BY ConstantsAssumption
<1>1. CASE a \in Workers /\ failed[a]
  <2> DEFINE retry == snapshot[a].row.retry_count + 1
  <2>1. retry \in Nat
    BY <1>1 DEF Snapshot, Row
  <2>2. UpdateArgs(a) = FailureArgs(snapshot[a].row)
    BY <1>1 DEF UpdateArgs
  <2>3. CASE Maxed(retry)
    <3>1. FailureArgs(snapshot[a].row).enabled = FALSE
      BY <2>3 DEF FailureArgs
    <3>2. Merge(row, UpdateArgs(a)).enabled = Keep(FALSE, row.enabled)
      BY <2>2, <3>1 DEF Merge
    <3>3. Keep(FALSE, row.enabled) = FALSE
      BY <1>0, Zenon DEF Keep
    <3>4. QED
      BY <3>2, <3>3 DEF Sound
  <2>4. CASE ~Maxed(retry)
    BY <1>0, <2>1, <2>2, <2>4 DEF Merge, Keep, Sound, FailureArgs, Maxed
  <2>5. QED
    BY <2>3, <2>4
<1>2. CASE a \in Workers /\ ~failed[a]
  BY <1>0, <1>2 DEF UpdateArgs, SuccessArgs, Merge, Keep, Sound
<1>3. CASE a \in Requests /\ request[a].op = "run_now"
  BY <1>0, <1>3, ConstantsAssumption DEF UpdateArgs, RunNowArgs, Merge, Keep, Sound
<1>4. CASE a \in Requests /\ request[a].op = "update"
  <2>1. UpdateArgs(a) = PutArgs(request[a].payload)
    BY <1>4, ConstantsAssumption DEF UpdateArgs
  <2>2. request[a].payload.enabled \in {FALSE, None}
    BY <1>4, ConstantsAssumption
  <2>3. Merge(row, UpdateArgs(a)).retry_count = row.retry_count
    BY <2>1 DEF Merge, Keep, PutArgs
  <2>4. Merge(row, UpdateArgs(a)).enabled = Keep(request[a].payload.enabled, row.enabled)
    BY <2>1 DEF Merge, PutArgs
  <2>5. QED
    BY <2>2, <2>3, <2>4 DEF Sound, Keep
<1>5. QED
  BY <1>1, <1>2, <1>3, <1>4 DEF Actors

LEMMA RetryStep == TypeInv /\ RetryInv /\ [Next]_vars => RetryInv'
<1> SUFFICES ASSUME TypeInv, RetryInv, [Next]_vars,
                    \A p \in Payloads : p.enabled # TRUE
             PROVE  /\ \A s \in Schedules : schedules'[s] # None => Sound(schedules'[s])
                    /\ \A a \in Actors : pc'[a] = "write" => Sound(pending'[a])
  BY DEF RetryInv, Sound
<1> USE DEF TypeInv
<1>0. /\ \A s \in Schedules : schedules[s] # None => Sound(schedules[s])
      /\ \A a \in Actors : pc[a] = "write" => Sound(pending[a])
  BY DEF RetryInv
<1>1. ASSUME NEW w \in Workers,
             Poll(w) \/ FinishAttempt(w) \/ SchedulerFault(w) \/ Restart(w)
      PROVE  /\ schedules' = schedules
             /\ \A a \in Actors : pc'[a] = "write" => pc[a] = "write" /\ pending'[a] = pending[a]
  <2>1. w \in Actors
    BY DEF Actors
  <2>2. CASE Poll(w)
    BY <2>1, <2>2 DEF Poll, Take, TypeOK, tables
  <2>3. CASE FinishAttempt(w)
    BY <2>1, <2>3 DEF FinishAttempt, Take, TypeOK
  <2>4. CASE SchedulerFault(w)
    BY <2>1, <2>4 DEF SchedulerFault, TypeOK, tables
  <2>5. CASE Restart(w)
    BY <2>1, <2>5 DEF Restart, TypeOK, tables
  <2>6. QED
    BY <1>1, <2>2, <2>3, <2>4, <2>5
<1>2. ASSUME NEW a \in Actors, SharedCall(a)
      PROVE  /\ \A s \in Schedules : schedules'[s] # None => Sound(schedules'[s])
             /\ \A b \in Actors : pc'[b] = "write" => Sound(pending'[b])
  <2>1. CASE RecordReport(a)
    BY <1>0, <2>1 DEF RecordReport, TypeOK
  <2>2. CASE StoreArtifact(a)
    BY <1>0, <2>2 DEF StoreArtifact, TypeOK
  <2>3. CASE SelectRow(a)
    <3>1. Subject(a) \in Schedules
      BY <2>3 DEF SelectRow, Subject, WellFormed, InCall, Snapshot, Actors
    <3>2. schedules[Subject(a)] # None => Sound(Merge(schedules[Subject(a)], UpdateArgs(a)))
      BY <1>0, <2>3, <3>1, MergeSound DEF SelectRow, TypeOK
    <3>3. pc'[a] = "write" => Sound(pending'[a])
      BY <2>3, <3>2 DEF SelectRow, TypeOK
    <3>4. \A b \in Actors : b # a => pc'[b] = pc[b] /\ pending'[b] = pending[b]
      BY <2>3 DEF SelectRow, TypeOK
    <3>5. QED
      BY <1>0, <2>3, <3>3, <3>4 DEF SelectRow, tables
  <2>4. CASE WriteRow(a)
    BY <1>0, <2>4 DEF WriteRow, Written, TypeOK
  <2>5. QED
    BY <1>2, <2>1, <2>2, <2>3, <2>4 DEF SharedCall
<1>3. ASSUME NEW r \in Requests, Arrive(r) \/ Respond(r) \/ RequestFault(r)
      PROVE  /\ \A s \in Schedules : schedules'[s] # None => Sound(schedules'[s])
             /\ \A a \in Actors : pc'[a] = "write" => pc[a] = "write" /\ pending'[a] = pending[a]
  <2>0. r \in Actors
    BY DEF Actors
  <2>1. CASE Create(r)
    <3>1. \A c \in Crons, enabled \in BOOLEAN, start \in Starts : Sound(NewRow(c, enabled, start))
      BY ConstantsAssumption DEF Sound, NewRow
    <3>2. QED
      BY <1>0, <2>0, <2>1, <3>1 DEF Create, Ask, TypeOK
  <2>2. CASE Delete(r)
    BY <1>0, <2>0, <2>2 DEF Delete, Ask, TypeOK
  <2>3. CASE Generate(r) \/ Put(r) \/ RunNow(r)
    BY <1>0, <2>0, <2>3 DEF Generate, Put, RunNow, Ask, TypeOK, tables
  <2>4. CASE Respond(r)
    BY <1>0, <2>0, <2>4 DEF Respond, TypeOK
  <2>5. CASE RequestFault(r)
    BY <1>0, <2>0, <2>5 DEF RequestFault, TypeOK, tables
  <2>6. QED
    BY <1>3, <2>1, <2>2, <2>3, <2>4, <2>5 DEF Arrive
<1>4. CASE \E w \in Workers : Scheduler(w) \/ SchedulerFault(w) \/ Restart(w)
  BY <1>0, <1>1, <1>2, <1>4 DEF Scheduler, Actors
<1>5. CASE \E r \in Requests : Arrive(r) \/ Handler(r) \/ RequestFault(r)
  BY <1>0, <1>2, <1>3, <1>5 DEF Handler, Actors
<1>6. CASE Tick
  BY <1>0, <1>6 DEF Tick, tables, locals
<1>7. CASE UNCHANGED vars
  BY <1>0, <1>7 DEF vars, tables, locals
<1>8. QED
  BY <1>4, <1>5, <1>6, <1>7 DEF Next

\* A schedule that used up its retries is disabled, unless a PUT may enable
\* schedules, through every lost update and for every number of schedulers.
THEOREM ExhaustedSafety == Spec => []ExhaustedIsDisabled
<1>1. Init => RetryInv
  <2>1. \A c, start : Sound(NewRow(c, TRUE, start))
    BY ConstantsAssumption DEF Sound, NewRow
  <2>2. ASSUME Init, NEW s \in Schedules, schedules[s] # None
        PROVE  Sound(schedules[s])
    BY <2>1, <2>2 DEF Init
  <2>3. ASSUME Init, NEW a \in Actors
        PROVE  pc[a] # "write"
    BY <2>3 DEF Init
  <2>4. QED
    BY <2>2, <2>3 DEF RetryInv
<1>2. TypeInv /\ RetryInv /\ [Next]_vars => RetryInv'
  BY RetryStep
<1>3. RetryInv => ExhaustedIsDisabled
  BY DEF RetryInv, ExhaustedIsDisabled, Sound
<1>4. QED
  BY <1>1, <1>2, <1>3, TypeCorrect, PTL DEF Spec

----------------------------------------------------------------------------
(* Deletion *)

\* A deleted schedule stays deleted.
THEOREM DeletionIsFinal == Spec => NoResurrection
<1>1. TypeInv /\ [Next]_vars
        => [\A s \in issued : schedules[s] = None => schedules'[s] = None]_vars
  <2> SUFFICES ASSUME TypeInv, [Next]_vars, NEW s \in issued, schedules[s] = None
               PROVE  schedules'[s] = None
    OBVIOUS
  <2> USE DEF TypeInv, TypeOK
  <2>1. ASSUME NEW a \in Actors, SharedCall(a)
        PROVE  schedules'[s] = None
    BY <2>1 DEF SharedCall, RecordReport, StoreArtifact, SelectRow, WriteRow, Written, tables
  <2>2. ASSUME NEW w \in Workers, Poll(w) \/ FinishAttempt(w) \/ SchedulerFault(w) \/ Restart(w)
        PROVE  schedules' = schedules
    BY <2>2 DEF Poll, FinishAttempt, SchedulerFault, Restart, tables
  <2>3. ASSUME NEW r \in Requests, Arrive(r) \/ Respond(r) \/ RequestFault(r)
        PROVE  schedules'[s] = None
    BY <2>3 DEF Arrive, Generate, Create, Put, Delete, RunNow, Respond, RequestFault, tables
  <2>4. CASE Tick \/ UNCHANGED vars
    BY <2>4 DEF Tick, vars, tables
  <2>5. QED
    BY <2>1, <2>2, <2>3, <2>4 DEF Next, Scheduler, Handler, Actors
<1>2. QED
  BY <1>1, TypeCorrect, PTL DEF Spec, NoResurrection

----------------------------------------------------------------------------
(* The ledger *)

\* Report n was produced by actor a, for the schedule a works on.
Produced(a, n) ==
    /\ n \in 1 .. Len(history)
    /\ history[n].schedule = Subject(a)
    /\ history[n].by = a

\* The actor has a stored report that its audit event will name.
Holding(a) ==
    /\ pc[a] \in {"select", "write", "audit"}
    /\ IF a \in Workers THEN ~failed[a] ELSE request[a].op \in {"run_now", "generate"}

\* Which report an actor holds, and how far that report got.
LedgerInv ==
    /\ \A w \in Workers :
          /\ pc[w] \in {"record", "store"} => ~failed[w]
          /\ failed[w] => report[w] = None
    /\ \A r \in Requests :
          /\ pc[r] = "idle" => report[r] = None
          /\ pc[r] \in InCall /\ ~(request[r].op \in {"run_now", "generate"}) => report[r] = None
    /\ \A a \in Actors : pc[a] = "store" => Produced(a, report[a]) /\ report[a] \notin artifacts
    /\ \A a \in Actors : Holding(a) =>
          /\ Produced(a, report[a])
          /\ report[a] \in artifacts
          /\ \A e \in audit : e.report # report[a]
    /\ \A e \in audit : e.report # None => e.report \in artifacts
    /\ AuditMatchesHistory

LEMMA LedgerInit == Init => LedgerInv
  BY DEF Init, LedgerInv, Holding, InCall, AuditMatchesHistory, Actors

\* Steps that leave the three tables alone and move no actor towards its report.
LEMMA LedgerQuiet ==
    ASSUME TypeInv, LedgerInv, NEW a \in Actors,
           UNCHANGED <<history, artifacts, audit>>,
           \A b \in Actors : b # a => /\ pc'[b] = pc[b] /\ report'[b] = report[b]
                                      /\ snapshot'[b] = snapshot[b]
                                      /\ b \in Workers => failed'[b] = failed[b]
                                      /\ b \in Requests => request'[b] = request[b],
           pc'[a] # "store",
           a \in Workers => /\ failed'[a] => report'[a] = None
                            /\ pc'[a] = "record" => ~failed'[a],
           a \in Requests => /\ pc'[a] # "idle"
                             /\ pc'[a] \in InCall /\ ~(request'[a].op \in {"run_now", "generate"})
                                  => report'[a] = None,
           Holding(a)' => /\ Holding(a) /\ report'[a] = report[a]
                          /\ Subject(a)' = Subject(a)
    PROVE  LedgerInv'
<1>1. \A b \in Actors : b # a => /\ Subject(b)' = Subject(b) /\ Holding(b)' = Holding(b)
                                 /\ \A n : Produced(b, n)' = Produced(b, n)
  BY DEF Subject, Holding, Produced, Actors
<1>2. \A b \in Actors : Holding(b)' =>
          /\ Produced(b, report[b])' /\ report'[b] = report[b]
          /\ report[b] \in artifacts
          /\ \A e \in audit : e.report # report[b]
  BY <1>1 DEF LedgerInv, Produced
<1>3. \A b \in Actors : pc'[b] = "store" => Produced(b, report[b])' /\ report'[b] = report[b]
                                            /\ report[b] \notin artifacts
  BY <1>1 DEF LedgerInv
<1>4. AuditMatchesHistory'
  BY DEF LedgerInv, AuditMatchesHistory
<1>5. \A w \in Workers : /\ pc'[w] \in {"record", "store"} => ~failed'[w]
                         /\ failed'[w] => report'[w] = None
  BY DEF LedgerInv, Actors
<1>6. \A r \in Requests :
          /\ pc'[r] = "idle" => report'[r] = None
          /\ pc'[r] \in InCall /\ ~(request'[r].op \in {"run_now", "generate"}) => report'[r] = None
  BY DEF LedgerInv, Actors
<1>7. QED
  BY <1>2, <1>3, <1>4, <1>5, <1>6 DEF LedgerInv

\* The audit event that ends an actor's operation names the report it holds, or
\* no report.
LEMMA LedgerAudit ==
    ASSUME TypeInv, LedgerInv, NEW a \in Actors, NEW event,
           pc[a] = "audit",
           audit' = audit \cup {event},
           event.report = report[a], event.schedule = Subject(a), event.by = a,
           report[a] # None => Holding(a)
    PROVE  /\ \A e \in audit' : e.report # None =>
                 /\ e.report \in artifacts
                 /\ e.report \in 1 .. Len(history)
                 /\ history[e.report].schedule = e.schedule
                 /\ history[e.report].by = e.by
           /\ \A b \in Actors : b # a /\ Holding(b) =>
                 \A e \in audit' : e.report # report[b]
<1>1. report[a] # None => Produced(a, report[a]) /\ report[a] \in artifacts
  BY DEF LedgerInv
<1>2. \A b \in Actors : Holding(b) => Produced(b, report[b]) /\ report[b] # None
  BY ConstantsAssumption DEF LedgerInv, Produced
<1>3. QED
  BY <1>1, <1>2 DEF LedgerInv, AuditMatchesHistory, Produced

LEMMA LedgerScheduler ==
    ASSUME TypeInv, LedgerInv, NEW w \in Workers,
           Poll(w) \/ FinishAttempt(w) \/ SchedulerFault(w) \/ Restart(w)
    PROVE  LedgerInv'
<1> USE DEF TypeInv
<1>0. w \in Actors /\ w \notin Requests
  BY ConstantsAssumption DEF Actors
<1>1. CASE Poll(w)
  BY <1>0, <1>1, LedgerQuiet DEF Poll, Take, TypeOK, tables, Holding
<1>2. CASE SchedulerFault(w)
  <2>1. ~Holding(w)'
    BY <1>0, <1>2 DEF SchedulerFault, TypeOK, Holding
  <2>2. QED
    BY <1>0, <1>2, <2>1, LedgerQuiet DEF SchedulerFault, TypeOK, tables
<1>3. CASE Restart(w)
  BY <1>0, <1>3, LedgerQuiet DEF Restart, TypeOK, tables, Holding
<1>4. CASE FinishAttempt(w)
  <2>1. report[w] # None => Holding(w)
    BY <1>0, <1>4 DEF FinishAttempt, LedgerInv, Holding
  <2>2. /\ AttemptEvent(w).report = report[w]
        /\ AttemptEvent(w).schedule = Subject(w)
        /\ AttemptEvent(w).by = w
    BY DEF AttemptEvent, LedgerInv
  <2>3. /\ \A e \in audit' : e.report # None =>
              /\ e.report \in artifacts
              /\ e.report \in 1 .. Len(history)
              /\ history[e.report].schedule = e.schedule
              /\ history[e.report].by = e.by
        /\ \A b \in Actors : b # w /\ Holding(b) => \A e \in audit' : e.report # report[b]
    BY <1>0, <1>4, <2>1, <2>2, LedgerAudit DEF FinishAttempt
  <2>4. /\ history' = history /\ artifacts' = artifacts /\ request' = request
        /\ pc'[w] \in {"poll", "record"} /\ failed'[w] = FALSE /\ report'[w] = None
        /\ \A b \in Actors : b # w => /\ pc'[b] = pc[b] /\ report'[b] = report[b]
                                      /\ snapshot'[b] = snapshot[b]
        /\ \A b \in Workers : b # w => failed'[b] = failed[b]
    BY <1>0, <1>4 DEF FinishAttempt, Take, TypeOK
  <2>5. \A b \in Actors : b # w => /\ Subject(b)' = Subject(b) /\ Holding(b)' = Holding(b)
                                   /\ Produced(b, report[b])' = Produced(b, report[b])
    BY <2>4 DEF Subject, Holding, Produced, Actors
  <2>6. AuditMatchesHistory'
    BY <2>3, <2>4 DEF AuditMatchesHistory
  <2>7. \A b \in Actors : Holding(b)' =>
           Produced(b, report[b])' /\ report'[b] \in artifacts' /\ \A e \in audit' : e.report # report'[b]
    <3>1. ~Holding(w)'
      BY <2>4 DEF Holding
    <3>2. QED
      BY <2>3, <2>4, <2>5, <3>1 DEF LedgerInv
  <2>8. \A b \in Actors : pc'[b] = "store" => Produced(b, report[b])' /\ report'[b] \notin artifacts'
    BY <2>4, <2>5 DEF LedgerInv
  <2>9. \A v \in Workers : /\ pc'[v] \in {"record", "store"} => ~failed'[v]
                           /\ failed'[v] => report'[v] = None
    BY <2>4 DEF LedgerInv, Actors
  <2>10. \A r \in Requests :
            /\ pc'[r] = "idle" => report'[r] = None
            /\ pc'[r] \in InCall /\ ~(request'[r].op \in {"run_now", "generate"}) => report'[r] = None
    BY <1>0, <2>4 DEF LedgerInv, Actors
  <2>11. QED
    BY <2>3, <2>4, <2>6, <2>7, <2>8, <2>9, <2>10 DEF LedgerInv, Produced
<1>5. QED
  BY <1>1, <1>2, <1>3, <1>4

LEMMA LedgerRequest ==
    ASSUME TypeInv, LedgerInv, NEW r \in Requests,
           Arrive(r) \/ Respond(r) \/ RequestFault(r)
    PROVE  LedgerInv'
<1> USE DEF TypeInv
<1>0. r \in Actors /\ r \notin Workers
  BY ConstantsAssumption DEF Actors
<1>1. CASE Arrive(r)
  <2>1. /\ pc[r] = "idle" /\ report[r] = None /\ report' = report /\ failed' = failed
        /\ UNCHANGED <<history, artifacts, audit>>
        /\ \A b \in Actors : b # r => /\ pc'[b] = pc[b] /\ snapshot'[b] = snapshot[b]
                                      /\ b \in Requests => request'[b] = request[b]
        /\ pc'[r] \in {"record", "select", "audit", "done"}
        /\ pc'[r] \in {"select", "audit"} => request'[r].op \in {"create", "update", "delete"}
    BY <1>0, <1>1 DEF Arrive, Generate, Create, Put, Delete, RunNow, Ask, LedgerInv, TypeOK, tables
  <2>2. ~Holding(r)'
    BY <1>0, <2>1 DEF Holding
  <2>3. QED
    BY <1>0, <2>1, <2>2, LedgerQuiet
<1>2. CASE RequestFault(r)
  BY <1>0, <1>2, LedgerQuiet DEF RequestFault, TypeOK, tables, Holding, InCall
<1>3. CASE Respond(r)
  <2> DEFINE event == [action |-> request[r].op, schedule |-> Subject(r),
                       report |-> report[r], retry |-> 0, by |-> r]
  <2>1. report[r] # None => Holding(r)
    BY <1>0, <1>3 DEF Respond, LedgerInv, Holding, InCall
  <2>2. /\ \A e \in audit' : e.report # None =>
              /\ e.report \in artifacts
              /\ e.report \in 1 .. Len(history)
              /\ history[e.report].schedule = e.schedule
              /\ history[e.report].by = e.by
        /\ \A b \in Actors : b # r /\ Holding(b) => \A e \in audit' : e.report # report[b]
    <3>1. audit' = audit \cup {event} /\ pc[r] = "audit"
      BY <1>3 DEF Respond
    <3>2. event.report = report[r] /\ event.schedule = Subject(r) /\ event.by = r
      OBVIOUS
    <3> HIDE DEF event
    <3>3. QED
      BY <1>0, <2>1, <3>1, <3>2, LedgerAudit
  <2>3. /\ history' = history /\ artifacts' = artifacts /\ request' = request
        /\ pc'[r] = "done" /\ report' = report /\ failed' = failed /\ snapshot' = snapshot
        /\ \A b \in Actors : b # r => pc'[b] = pc[b]
    BY <1>0, <1>3 DEF Respond, TypeOK
  <2>4. \A b \in Actors : b # r => /\ Subject(b)' = Subject(b) /\ Holding(b)' = Holding(b)
                                   /\ Produced(b, report[b])' = Produced(b, report[b])
    BY <2>3 DEF Subject, Holding, Produced, Actors
  <2>5. AuditMatchesHistory'
    BY <2>2, <2>3 DEF AuditMatchesHistory
  <2>6. \A b \in Actors : Holding(b)' =>
           Produced(b, report[b])' /\ report'[b] \in artifacts' /\ \A e \in audit' : e.report # report'[b]
    <3>1. ~Holding(r)'
      BY <2>3 DEF Holding
    <3>2. QED
      BY <2>2, <2>3, <2>4, <3>1 DEF LedgerInv
  <2>7. \A b \in Actors : pc'[b] = "store" => Produced(b, report[b])' /\ report'[b] \notin artifacts'
    BY <2>3, <2>4 DEF LedgerInv
  <2>8. \A v \in Workers : /\ pc'[v] \in {"record", "store"} => ~failed'[v]
                           /\ failed'[v] => report'[v] = None
    BY <1>0, <2>3 DEF LedgerInv, Actors
  <2>9. \A q \in Requests :
            /\ pc'[q] = "idle" => report'[q] = None
            /\ pc'[q] \in InCall /\ ~(request'[q].op \in {"run_now", "generate"}) => report'[q] = None
    BY <2>3 DEF LedgerInv, Actors, InCall
  <2>10. QED
    BY <2>2, <2>3, <2>5, <2>6, <2>7, <2>8, <2>9 DEF LedgerInv, Produced
<1>4. QED
  BY <1>1, <1>2, <1>3

LEMMA LedgerShared ==
    ASSUME TypeInv, LedgerInv, NEW a \in Actors, SharedCall(a)
    PROVE  LedgerInv'
<1> USE DEF TypeInv
<1>0. (a \in Workers => a \notin Requests) /\ Len(history) \in Nat
  BY ConstantsAssumption DEF TypeOK
<1>1. CASE RecordReport(a)
  <2> DEFINE new == [schedule |-> Subject(a),
                     occurrence |-> IF a \in Workers THEN snapshot[a].row.occurrence ELSE None,
                     attempt |-> IF a \in Workers THEN Attempt(a) ELSE 0,
                     by |-> a]
  <2>1. /\ pc[a] = "record" /\ pc' = [pc EXCEPT ![a] = "store"]
        /\ history' = Append(history, new)
        /\ report' = [report EXCEPT ![a] = Len(history) + 1]
        /\ UNCHANGED <<artifacts, audit, request, snapshot, failed>>
    BY <1>1 DEF RecordReport, NewReport
  <2>2. /\ Len(history') = Len(history) + 1
        /\ history'[Len(history) + 1] = new
        /\ \A n \in 1 .. Len(history) : history'[n] = history[n]
    <3> HIDE DEF new
    <3>1. history \in Seq(HistoryRow)
      BY DEF TypeOK
    <3>2. QED
      BY <2>1, <3>1
  <2>3. \A b \in Actors : Subject(b)' = Subject(b)
    BY <2>1 DEF Subject
  <2>4. new.schedule = Subject(a) /\ new.by = a
    OBVIOUS
  <2> HIDE DEF new
  <2>5. /\ pc'[a] = "store" /\ report'[a] = Len(history) + 1
        /\ \A b \in Actors : b # a => pc'[b] = pc[b] /\ report'[b] = report[b]
    BY <2>1 DEF TypeOK
  <2>6. \A b \in Actors : b # a => (Holding(b)' <=> Holding(b))
    BY <2>1, <2>5 DEF Holding
  <2>7. ~Holding(a)'
    BY <2>5 DEF Holding
  <2>8. ASSUME NEW b \in Actors, Produced(b, report[b]), b # a
        PROVE  Produced(b, report[b])'
    <3>1. report'[b] = report[b] /\ report[b] \in 1 .. Len(history)
      BY <2>5, <2>8 DEF Produced
    <3>2. report[b] \in 1 .. Len(history') /\ history'[report[b]] = history[report[b]]
      BY <1>0, <2>2, <3>1
    <3>3. QED
      BY <2>3, <2>8, <3>1, <3>2 DEF Produced
  <2>9. Produced(a, report[a])' /\ report'[a] \notin artifacts
    <3>1. report'[a] \in 1 .. Len(history') /\ report'[a] \notin 1 .. Len(history)
      BY <1>0, <2>2, <2>5
    <3>2. history'[report'[a]].schedule = Subject(a)' /\ history'[report'[a]].by = a
      BY <2>2, <2>3, <2>4, <2>5
    <3>3. QED
      BY <3>1, <3>2 DEF Produced, TypeOK
  <2>10. \A b \in Actors : pc'[b] = "store" => Produced(b, report[b])' /\ report'[b] \notin artifacts'
    <3>1. ASSUME NEW b \in Actors, b # a, pc'[b] = "store"
          PROVE  Produced(b, report[b])' /\ report'[b] \notin artifacts'
      BY <2>1, <2>5, <2>8, <3>1 DEF LedgerInv
    <3>2. QED
      BY <2>1, <2>9, <3>1
  <2>11. \A b \in Actors : Holding(b)' =>
            Produced(b, report[b])' /\ report'[b] \in artifacts' /\ \A e \in audit' : e.report # report'[b]
    <3>1. ASSUME NEW b \in Actors, b # a, Holding(b)
          PROVE  Produced(b, report[b])' /\ report'[b] \in artifacts' /\ \A e \in audit' : e.report # report'[b]
      BY <2>1, <2>5, <2>8, <3>1 DEF LedgerInv
    <3>2. QED
      BY <2>6, <2>7, <3>1
  <2>12. AuditMatchesHistory'
    <3>1. \A e \in audit : e.report # None => history'[e.report] = history[e.report]
                                              /\ e.report \in 1 .. Len(history')
      BY <1>0, <2>2 DEF LedgerInv, AuditMatchesHistory
    <3>2. QED
      BY <2>1, <3>1 DEF LedgerInv, AuditMatchesHistory
  <2>13. \A w \in Workers : /\ pc'[w] \in {"record", "store"} => ~failed'[w]
                            /\ failed'[w] => report'[w] = None
    BY <2>1, <2>5 DEF LedgerInv, Actors
  <2>14. \A r \in Requests :
            /\ pc'[r] = "idle" => report'[r] = None
            /\ pc'[r] \in InCall /\ ~(request'[r].op \in {"run_now", "generate"}) => report'[r] = None
    BY <2>1, <2>5 DEF LedgerInv, Actors, WellFormed
  <2>15. \A e \in audit' : e.report # None => e.report \in artifacts'
    BY <2>1 DEF LedgerInv
  <2>16. QED
    BY <2>10, <2>11, <2>12, <2>13, <2>14, <2>15 DEF LedgerInv
<1>2. CASE StoreArtifact(a)
  <2>1. /\ pc[a] = "store" /\ artifacts' = artifacts \cup {report[a]}
        /\ pc'[a] \in {"select", "audit"}
        /\ \A b \in Actors : b # a => pc'[b] = pc[b]
        /\ UNCHANGED <<history, audit, request, snapshot, report, failed>>
    BY <1>2 DEF StoreArtifact, TypeOK
  <2>2. \A b \in Actors : /\ Subject(b)' = Subject(b)
                          /\ Produced(b, report[b])' <=> Produced(b, report[b])
    BY <2>1 DEF Subject, Produced
  <2>3. Produced(a, report[a]) /\ report[a] \notin artifacts
    BY <2>1 DEF LedgerInv
  <2>4. \A e \in audit : e.report # report[a]
    BY <2>3, ConstantsAssumption DEF LedgerInv, Produced
  <2>5. \A b \in Actors : b # a /\ Produced(b, report[b]) => report[b] # report[a]
    BY <2>3 DEF Produced
  <2>6. \A b \in Actors : b # a => (Holding(b)' <=> Holding(b))
    BY <2>1 DEF Holding
  <2>7. \A b \in Actors : pc'[b] = "store" => Produced(b, report[b])' /\ report'[b] \notin artifacts'
    BY <2>1, <2>2, <2>5 DEF LedgerInv
  <2>8. \A b \in Actors : Holding(b)' =>
           Produced(b, report[b])' /\ report'[b] \in artifacts' /\ \A e \in audit' : e.report # report'[b]
    BY <2>1, <2>2, <2>3, <2>4, <2>6 DEF LedgerInv
  <2>9. AuditMatchesHistory'
    BY <2>1 DEF LedgerInv, AuditMatchesHistory
  <2>10. \A w \in Workers : /\ pc'[w] \in {"record", "store"} => ~failed'[w]
                            /\ failed'[w] => report'[w] = None
    BY <2>1 DEF LedgerInv, Actors
  <2>11. \A r \in Requests :
            /\ pc'[r] = "idle" => report'[r] = None
            /\ pc'[r] \in InCall /\ ~(request'[r].op \in {"run_now", "generate"}) => report'[r] = None
    BY <2>1 DEF LedgerInv, Actors, InCall
  <2>12. \A e \in audit' : e.report # None => e.report \in artifacts'
    BY <2>1 DEF LedgerInv
  <2>13. QED
    BY <2>7, <2>8, <2>9, <2>10, <2>11, <2>12 DEF LedgerInv
<1>3. CASE SelectRow(a) \/ WriteRow(a)
  <2>1. /\ UNCHANGED <<history, artifacts, audit, request, snapshot, report, failed>>
        /\ pc[a] \in {"select", "write"} /\ pc'[a] \in {"write", "audit", "done"}
        /\ \A b \in Actors : b # a => pc'[b] = pc[b]
    BY <1>3 DEF SelectRow, WriteRow, TypeOK, tables
  <2>2. Holding(a)' => Holding(a) /\ Subject(a)' = Subject(a)
    BY <2>1 DEF Holding, Subject
  <2>3. a \in Workers /\ failed'[a] => report'[a] = None
    BY <2>1 DEF LedgerInv
  <2>4. a \in Requests /\ ~(request'[a].op \in {"run_now", "generate"}) => report'[a] = None
    BY <2>1 DEF LedgerInv, InCall
  <2>5. QED
    BY <2>1, <2>2, <2>3, <2>4, LedgerQuiet
<1>4. QED
  BY <1>1, <1>2, <1>3 DEF SharedCall

LEMMA LedgerStep == TypeInv /\ LedgerInv /\ [Next]_vars => LedgerInv'
<1> SUFFICES ASSUME TypeInv, LedgerInv, [Next]_vars PROVE LedgerInv'
  OBVIOUS
<1>1. CASE \E w \in Workers : Scheduler(w) \/ SchedulerFault(w) \/ Restart(w)
  BY <1>1, LedgerScheduler, LedgerShared DEF Scheduler, Actors
<1>2. CASE \E r \in Requests : Arrive(r) \/ Handler(r) \/ RequestFault(r)
  BY <1>2, LedgerRequest, LedgerShared DEF Handler, Actors
<1>3. CASE Tick \/ UNCHANGED vars
  <2>1. UNCHANGED <<tables, locals>>
    BY <1>3 DEF Tick, vars
  <2>2. QED
    BY <2>1 DEF tables, locals, LedgerInv, Holding, Produced, Subject, AuditMatchesHistory
<1>4. QED
  BY <1>1, <1>2, <1>3 DEF Next

\* An audit event names a report that the event's actor recorded for the event's
\* schedule.
THEOREM AuditTrailSafety == Spec => []AuditMatchesHistory
<1>1. LedgerInv => AuditMatchesHistory
  BY DEF LedgerInv
<1>2. QED
  BY <1>1, LedgerInit, LedgerStep, TypeCorrect, PTL DEF Spec

----------------------------------------------------------------------------
(* The tables implement the ledger *)

Audited == {e.report : e \in audit} \ {None}

\* The ledger's step taken by the audit event of an actor.
LEMMA AuditRefines ==
    ASSUME TypeInv, LedgerInv, NEW a \in Actors, NEW event,
           audit' = audit \cup {event},
           event.report # None => Holding(a) /\ event.report = report[a],
           UNCHANGED <<history, artifacts>>
    PROVE  [Ledger!Next]_(Ledger!ledger)
<1>1. CASE event.report = None
  <2>1. {e.report : e \in audit'} \ {None} = Audited
    BY <1>1 DEF Audited
  <2>2. QED
    BY <2>1 DEF Ledger!ledger, Audited
<1>2. CASE event.report # None
  <2>1. event.report \in artifacts /\ event.report \notin Audited
    BY <1>2 DEF LedgerInv, Audited
  <2>2. {e.report : e \in audit'} \ {None} = Audited \cup {event.report}
    BY <1>2 DEF Audited
  <2>3. Ledger!Audit
    BY <2>1, <2>2 DEF Ledger!Audit, Audited
  <2>4. QED
    BY <2>3 DEF Ledger!Next
<1>3. QED
  BY <1>1, <1>2

LEMMA LedgerNext ==
    TypeInv /\ LedgerInv /\ [Next]_vars => [Ledger!Next]_(Ledger!ledger)
<1> SUFFICES ASSUME TypeInv, LedgerInv, [Next]_vars PROVE [Ledger!Next]_(Ledger!ledger)
  OBVIOUS
<1> USE DEF TypeInv
<1>1. ASSUME UNCHANGED <<history, artifacts, audit>>
      PROVE  [Ledger!Next]_(Ledger!ledger)
  BY <1>1 DEF Ledger!ledger
<1>2. ASSUME NEW a \in Actors, RecordReport(a)
      PROVE  [Ledger!Next]_(Ledger!ledger)
  <2>1. Len(history) \in Nat /\ Len(history') = Len(history) + 1
    BY <1>2 DEF RecordReport, TypeOK
  <2>2. 1 .. Len(history') = (1 .. Len(history)) \cup {Len(history')}
    BY <2>1
  <2>3. Len(history') \in 1 .. Len(history') /\ Len(history') \notin 1 .. Len(history)
    BY <2>1
  <2>4. artifacts' = artifacts /\ audit' = audit
    BY <1>2 DEF RecordReport
  <2>5. Ledger!Record
    BY <2>2, <2>3, <2>4 DEF Ledger!Record
  <2>6. QED
    BY <2>5 DEF Ledger!Next
<1>3. ASSUME NEW a \in Actors, StoreArtifact(a)
      PROVE  [Ledger!Next]_(Ledger!ledger)
  <2>1. report[a] \in (1 .. Len(history)) \ artifacts
    BY <1>3 DEF StoreArtifact, LedgerInv, Produced
  <2>2. artifacts' = artifacts \cup {report[a]} /\ history' = history /\ audit' = audit
    BY <1>3 DEF StoreArtifact
  <2>3. Ledger!Store
    BY <2>1, <2>2 DEF Ledger!Store
  <2>4. QED
    BY <2>3 DEF Ledger!Next
<1>4. ASSUME NEW a \in Actors, SharedCall(a)
      PROVE  [Ledger!Next]_(Ledger!ledger)
  BY <1>1, <1>2, <1>3, <1>4 DEF SharedCall, SelectRow, WriteRow, tables
<1>5. ASSUME NEW w \in Workers, FinishAttempt(w)
      PROVE  [Ledger!Next]_(Ledger!ledger)
  <2>1. w \in Actors
    BY DEF Actors
  <2>2. AttemptEvent(w).report # None => Holding(w) /\ AttemptEvent(w).report = report[w]
    BY <1>5 DEF FinishAttempt, AttemptEvent, Holding
  <2>3. audit' = audit \cup {AttemptEvent(w)} /\ UNCHANGED <<history, artifacts>>
    BY <1>5 DEF FinishAttempt
  <2>4. QED
    BY <2>1, <2>2, <2>3, AuditRefines
<1>6. ASSUME NEW r \in Requests, Respond(r)
      PROVE  [Ledger!Next]_(Ledger!ledger)
  <2> DEFINE event == [action |-> request[r].op, schedule |-> Subject(r),
                       report |-> report[r], retry |-> 0, by |-> r]
  <2>1. r \in Actors /\ r \notin Workers
    BY ConstantsAssumption DEF Actors
  <2>2. report[r] # None => Holding(r)
    BY <1>6, <2>1 DEF Respond, LedgerInv, Holding, InCall
  <2>3. audit' = audit \cup {event} /\ UNCHANGED <<history, artifacts>>
    BY <1>6 DEF Respond
  <2>4. event.report = report[r]
    OBVIOUS
  <2> HIDE DEF event
  <2>5. QED
    BY <2>1, <2>2, <2>3, <2>4, AuditRefines
<1>7. CASE \E w \in Workers : Scheduler(w) \/ SchedulerFault(w) \/ Restart(w)
  BY <1>1, <1>4, <1>5, <1>7 DEF Scheduler, Poll, SchedulerFault, Restart, tables, Actors
<1>8. CASE \E r \in Requests : Arrive(r) \/ Handler(r) \/ RequestFault(r)
  <2>1. ASSUME NEW r \in Requests, Arrive(r) \/ RequestFault(r)
        PROVE  UNCHANGED <<history, artifacts, audit>>
    BY <2>1 DEF Arrive, Generate, Create, Put, Delete, RunNow, RequestFault, tables
  <2>2. QED
    BY <1>1, <1>4, <1>6, <1>8, <2>1 DEF Handler, Actors
<1>9. CASE Tick \/ UNCHANGED vars
  BY <1>1, <1>9 DEF Tick, vars, tables
<1>10. QED
  BY <1>7, <1>8, <1>9 DEF Next

\* The scheduler, the routes and every failure of theirs implement the ledger.
THEOREM LedgerRefinement == Spec => LedgerSpec
<1>1. Init => Ledger!Init
  BY DEF Init, Ledger!Init
<1>2. TypeInv /\ LedgerInv /\ [Next]_vars => [Ledger!Next]_(Ledger!ledger)
  BY LedgerNext
<1>3. QED
  BY <1>1, <1>2, LedgerInit, LedgerStep, TypeCorrect, PTL DEF Spec, LedgerSpec, Ledger!Spec

----------------------------------------------------------------------------
(* One scheduler *)

\* One worker process.  What follows holds as long as it is not replaced: its
\* successor starts over, before the audit event or the write that was due.
OneScheduler == \A v, w \in Workers : v = w

LEMMA CrashesGrow == TypeInv /\ [Next]_vars => crashes \in Nat /\ (crashes' = 0 => crashes = 0)
<1> SUFFICES ASSUME TypeInv, [Next]_vars PROVE crashes \in Nat /\ (crashes' = 0 => crashes = 0)
  OBVIOUS
<1>1. crashes \in Nat
  BY ConstantsAssumption DEF TypeInv, TypeOK
<1>2. crashes' = crashes \/ crashes' = crashes + 1
  BY DEF Next, vars, budget, Tick, Scheduler, Poll, FinishAttempt, SchedulerFault, Restart, Handler,
     SharedCall, RecordReport, StoreArtifact, SelectRow, WriteRow, Arrive, Generate, Create, Put,
     Delete, RunNow, Respond, RequestFault
<1>3. QED
  BY <1>1, <1>2

\* The first n failed attempts of a schedule are in the audit trail.
Known(s, n) == \A m \in 1 .. n : \E e \in audit : e.schedule = s /\ e.retry = m

\* The n-th failure of s is written, its audit event is not, and the scheduler is
\* about to write that or has died.
Owed(s, n) ==
    \E w \in Workers :
       \/ pc[w] = "dead"
       \/ pc[w] = "audit" /\ failed[w] /\ snapshot[w].id = s /\ n = Attempt(w)

Accounted(s, n) == Known(s, n - 1) /\ (n = 0 \/ Known(s, n) \/ Owed(s, n))

\* Also the rows that were read, by the scheduler or by a PUT, and not written
\* back yet count failures the audit trail accounts for.
FailureInv ==
    /\ \A s \in Schedules : schedules[s] # None => Accounted(s, schedules[s].retry_count)
    /\ \A r \in Requests : pc[r] = "write" => Accounted(request[r].schedule, pending[r].retry_count)
    /\ \A w \in Workers :
          /\ \A d \in due[w] : Known(d.id, d.row.retry_count)
          /\ pc[w] \in InCall => Known(snapshot[w].id, snapshot[w].row.retry_count)
          /\ pc[w] = "write" => pending[w].retry_count = IF failed[w] THEN Attempt(w) ELSE 0

\* What took no part in a step stays accounted for.
LEMMA StayAccounted ==
    ASSUME audit \subseteq audit',
           \A w \in Workers : \/ pc[w] \notin {"audit", "dead"}
                              \/ pc'[w] = pc[w] /\ failed'[w] = failed[w] /\ snapshot'[w] = snapshot[w]
                              \/ pc'[w] = "dead"
    PROVE  \A s, n : Accounted(s, n) => Accounted(s, n)'
<1>1. \A s, n : Known(s, n) => Known(s, n)'
  BY DEF Known
<1>2. \A s, n : Owed(s, n) => Owed(s, n)'
  BY DEF Owed, Attempt
<1>3. QED
  BY <1>1, <1>2 DEF Accounted

\* A step that writes no row, and reads none but into the scheduler's list
LEMMA FailureQuiet ==
    ASSUME FailureInv, audit \subseteq audit',
           \A s, n : Accounted(s, n) => Accounted(s, n)',
           \A s \in Schedules : schedules'[s] \in {schedules[s], None},
           \A r \in Requests : pc'[r] = "write" =>
              pc[r] = "write" /\ request'[r] = request[r] /\ pending'[r] = pending[r],
           \A w \in Workers :
              /\ due'[w] \subseteq due[w]
              /\ pc'[w] \in InCall => \/ pc[w] \in InCall /\ snapshot'[w] = snapshot[w]
                                      \/ snapshot'[w] \in due[w]
              /\ pc'[w] = "write" => /\ pc[w] = "write" /\ pending'[w] = pending[w]
                                     /\ failed'[w] = failed[w] /\ snapshot'[w] = snapshot[w]
    PROVE  FailureInv'
<1>1. \A s, n : Known(s, n) => Known(s, n)'
  BY DEF Known
<1>2. \A s \in Schedules : schedules'[s] # None => Accounted(s, schedules[s].retry_count)'
  BY DEF FailureInv
<1>3. \A r \in Requests : pc'[r] = "write" => Accounted(request[r].schedule, pending[r].retry_count)'
  <2>1. ASSUME NEW r \in Requests, pc'[r] = "write"
        PROVE  /\ request'[r] = request[r] /\ pending'[r] = pending[r]
               /\ Accounted(request[r].schedule, pending[r].retry_count)
    BY <2>1 DEF FailureInv
  <2>2. \A s, n : \A r \in Requests : pc'[r] = "write" /\ s = request'[r].schedule
           /\ n = pending'[r].retry_count => Accounted(s, n)'
    BY <2>1
  <2>3. QED
    BY <2>2 DEF Accounted, Known, Owed
<1>4. ASSUME NEW w \in Workers
      PROVE  /\ \A d \in due'[w] : Known(d.id, d.row.retry_count)'
             /\ pc'[w] \in InCall => Known(snapshot[w].id, snapshot[w].row.retry_count)'
             /\ pc'[w] = "write" => pending'[w].retry_count = IF failed'[w] THEN Attempt(w)' ELSE 0
  <2>1. \A d \in due'[w] : Known(d.id, d.row.retry_count)
    BY DEF FailureInv
  <2>2. pc'[w] \in InCall => Known(snapshot'[w].id, snapshot'[w].row.retry_count)
    BY DEF FailureInv
  <2>3. \A x : Known(x.id, x.row.retry_count) => Known(x.id, x.row.retry_count)'
    BY <1>1
  <2>4. pc'[w] \in InCall => Known(snapshot[w].id, snapshot[w].row.retry_count)'
    BY <2>2, <2>3 DEF Known
  <2>5. pc'[w] = "write" => pending'[w].retry_count = IF failed'[w] THEN Attempt(w)' ELSE 0
    BY DEF FailureInv, Attempt
  <2>6. QED
    BY <2>1, <2>3, <2>4, <2>5
<1>5. QED
  BY <1>2, <1>3, <1>4 DEF FailureInv

LEMMA FailureScheduler ==
    ASSUME TypeInv, OneScheduler, FailureInv, NEW w \in Workers, crashes' = 0,
           Poll(w) \/ FinishAttempt(w) \/ SchedulerFault(w) \/ Restart(w)
    PROVE  FailureInv'
<1> USE DEF TypeInv
<1>0. /\ w \in Actors /\ w \notin Requests /\ \A v \in Workers : v = w
      /\ \A r \in Requests : r \in Actors /\ r # w
  BY ConstantsAssumption DEF Actors, OneScheduler
<1>1. CASE Poll(w)
  <2> DEFINE found == {[id |-> s, row |-> schedules[s]] : s \in {s \in Schedules : Listed(s)}}
  <2>1. /\ pc[w] = "poll" /\ Take(w, found) /\ UNCHANGED <<schedules, audit, request, pending>>
    BY <1>1 DEF Poll, tables
  <2>2. found \in SUBSET Snapshot
    BY DEF TypeOK, Listed, Snapshot
  <2>3. \A s, n : ~Owed(s, n)
    BY <1>0, <2>1 DEF Owed
  <2>4. ASSUME NEW s \in Schedules, schedules[s] # None
        PROVE  Known(s, schedules[s].retry_count)
    <3>1. Accounted(s, schedules[s].retry_count)
      BY <2>4 DEF FailureInv
    <3>2. 1 .. 0 = {}
      OBVIOUS
    <3>3. QED
      BY <2>3, <3>1, <3>2 DEF Accounted, Known
  <2>5. \A d \in found : Known(d.id, d.row.retry_count)
    BY <2>4 DEF Listed
  <2> HIDE DEF found
  <2>6. /\ pc'[w] \in {"poll", "record"} /\ \A a \in Actors : a # w => pc'[a] = pc[a]
        /\ due'[w] \subseteq found
        /\ pc'[w] = "record" => snapshot'[w] \in found
    BY <1>0, <2>1, <2>2, TakeType DEF Take, Earliest, TypeOK
  <2>7. \A s, n : Known(s, n) => Known(s, n)'
    BY <2>1 DEF Known
  <2>8. \A s, n : Accounted(s, n) => Accounted(s, n)'
    BY <1>0, <2>1, StayAccounted
  <2>9. \A d \in found : Known(d.id, d.row.retry_count)'
    BY <2>1, <2>5 DEF Known
  <2>10. \A s \in Schedules : schedules'[s] # None => Accounted(s, schedules[s].retry_count)'
    BY <2>1, <2>8 DEF FailureInv
  <2>11. \A r \in Requests : pc'[r] = "write" => Accounted(request[r].schedule, pending[r].retry_count)'
    <3>1. \A r \in Requests : pc[r] = "write" => Accounted(request[r].schedule, pending[r].retry_count)
      BY DEF FailureInv
    <3>2. \A s, n : \A r \in Requests : pc'[r] = "write" /\ s = request'[r].schedule
             /\ n = pending'[r].retry_count => Accounted(s, n)'
      BY <1>0, <2>1, <2>6, <2>8, <3>1
    <3>3. QED
      BY <3>2 DEF Accounted, Known, Owed
  <2>12. /\ \A d \in due'[w] : Known(d.id, d.row.retry_count)'
         /\ pc'[w] \in InCall => Known(snapshot[w].id, snapshot[w].row.retry_count)'
         /\ pc'[w] # "write"
    BY <2>6, <2>9 DEF InCall, Known
  <2>13. QED
    BY <1>0, <2>10, <2>11, <2>12 DEF FailureInv
<1>2. CASE FinishAttempt(w)
  <2>1. /\ pc[w] = "audit" /\ audit' = audit \cup {AttemptEvent(w)} /\ Take(w, due[w])
        /\ UNCHANGED <<schedules, request, pending>>
    BY <1>2 DEF FinishAttempt
  <2>2. \A s, n : Accounted(s, n) => Accounted(s, n)'
    <3>1. ASSUME NEW s, NEW n, Known(s, n - 1), Owed(s, n)
          PROVE  Known(s, n)'
      <4>1. failed[w] /\ snapshot[w].id = s /\ n = Attempt(w)
        BY <1>0, <2>1, <3>1 DEF Owed
      <4>2. n \in Nat
        BY <2>1, <4>1 DEF Attempt, WellFormed, InCall, Snapshot, Row
      <4>3. AttemptEvent(w).schedule = s /\ AttemptEvent(w).retry = n
        BY <1>0, <4>1 DEF AttemptEvent, Subject
      <4>4. \A m \in 1 .. n : m \in 1 .. n - 1 \/ m = n
        BY <4>2
      <4>5. QED
        BY <2>1, <3>1, <4>3, <4>4 DEF Known
    <3>2. \A s, n : Known(s, n) => Known(s, n)'
      BY <2>1 DEF Known
    <3>3. QED
      BY <3>1, <3>2 DEF Accounted
  <2>3. due[w] \in SUBSET Snapshot
    BY DEF TypeOK
  <2>4. /\ pc'[w] \in {"poll", "record"} /\ \A a \in Actors : a # w => pc'[a] = pc[a]
        /\ due'[w] \subseteq due[w]
        /\ pc'[w] = "record" => snapshot'[w] \in due[w]
    BY <1>0, <2>1, <2>3, TakeType DEF Take, Earliest, TypeOK
  <2>5. /\ \A v \in Workers : /\ due'[v] \subseteq due[v]
                              /\ pc'[v] \in InCall => snapshot'[v] \in due[v]
                              /\ pc'[v] # "write"
        /\ \A r \in Requests : pc'[r] = pc[r]
    BY <1>0, <2>4 DEF InCall
  <2>6. QED
    BY <2>1, <2>2, <2>5, FailureQuiet
<1>3. CASE SchedulerFault(w)
  <2>1. /\ UNCHANGED <<schedules, audit, request>> /\ pc'[w] \in {"select", "dead"}
        /\ pc[w] = "audit" /\ failed[w] => pc'[w] = "dead"
        /\ pc[w] # "dead"
        /\ \A a \in Actors : a # w => pc'[a] = pc[a] /\ pending'[a] = pending[a]
        /\ due'[w] \subseteq due[w]
        /\ pc'[w] = "select" => snapshot'[w] = snapshot[w] /\ pc[w] \in InCall
    BY <1>0, <1>3 DEF SchedulerFault, TypeOK, tables, InCall
  <2>2. \A s, n : Accounted(s, n) => Accounted(s, n)'
    <3>1. \A s, n : Known(s, n) => Known(s, n)'
      BY <2>1 DEF Known
    <3>2. \A s, n : Owed(s, n) => Owed(s, n)'
      BY <1>0, <2>1 DEF Owed
    <3>3. QED
      BY <3>1, <3>2 DEF Accounted
  <2>3. /\ \A v \in Workers :
              /\ due'[v] \subseteq due[v]
              /\ pc'[v] \in InCall => pc[v] \in InCall /\ snapshot'[v] = snapshot[v]
              /\ pc'[v] # "write"
        /\ \A r \in Requests : pc'[r] = pc[r] /\ pending'[r] = pending[r]
    BY <1>0, <2>1 DEF InCall
  <2>4. QED
    BY <2>1, <2>2, <2>3, FailureQuiet
<1>4. CASE Restart(w)
  BY <1>4, ConstantsAssumption DEF Restart, TypeOK
<1>5. QED
  BY <1>1, <1>2, <1>3, <1>4

\* What the rows that are read and written next count
LEMMA FailureSelect ==
    ASSUME TypeInv, OneScheduler, FailureInv, NEW a \in Actors, SelectRow(a)
    PROVE  FailureInv'
<1> USE DEF TypeInv
<1> DEFINE s0 == Subject(a)
           row == schedules[s0]
<1>1. /\ pc[a] = "select" /\ UNCHANGED <<schedules, audit, request, due, snapshot, failed>>
      /\ pc'[a] \in {"write", "audit", "done"}
      /\ pc'[a] = "write" => row # None /\ pending'[a] = Merge(row, UpdateArgs(a))
      /\ \A b \in Actors : b # a => pc'[b] = pc[b] /\ pending'[b] = pending[b]
  BY DEF SelectRow, TypeOK, tables
<1>2. (a \in Workers => a \notin Requests) /\ None \notin Nat /\ (a \in Workers \/ a \in Requests)
  BY ConstantsAssumption DEF Actors
<1>3. s0 \in Schedules
  BY <1>1 DEF Subject, WellFormed, InCall, Snapshot, Actors
<1>4. \A s, n : Accounted(s, n) => Accounted(s, n)'
  <2>1. \A w \in Workers : \/ pc[w] \notin {"audit", "dead"}
                           \/ pc'[w] = pc[w] /\ failed'[w] = failed[w] /\ snapshot'[w] = snapshot[w]
    BY <1>1 DEF Actors
  <2>2. QED
    BY <1>1, <2>1, StayAccounted
<1>5. \A s \in Schedules : schedules'[s] # None => Accounted(s, schedules[s].retry_count)'
  BY <1>1, <1>4 DEF FailureInv
<1>6. ASSUME NEW r \in Requests, pc'[r] = "write"
      PROVE  Accounted(request'[r].schedule, pending'[r].retry_count)
  <2>1. CASE r # a
    BY <1>1, <1>6, <2>1 DEF FailureInv, Actors
  <2>2. CASE r = a
    <3>1. request[r].schedule = s0 /\ request[r].op \in {"run_now", "update"}
      BY <1>1, <1>2, <2>2 DEF Subject, WellFormed
    <3>2. pending'[r].retry_count \in {0, row.retry_count}
      BY <1>1, <1>2, <1>6, <2>2, <3>1 DEF Merge, Keep, UpdateArgs, RunNowArgs, PutArgs
    <3>3. Accounted(s0, row.retry_count)
      BY <1>1, <1>3, <1>6, <2>2 DEF FailureInv
    <3>4. Accounted(s0, 0)
      <4>1. 1 .. 0 = {} /\ 1 .. 0 - 1 = {}
        OBVIOUS
      <4>2. QED
        BY <4>1 DEF Accounted, Known
    <3>5. QED
      BY <1>1, <3>1, <3>2, <3>3, <3>4
  <2>3. QED
    BY <2>1, <2>2
<1>7. \A r \in Requests : pc'[r] = "write" => Accounted(request[r].schedule, pending[r].retry_count)'
  <2>1. \A s, n : \A r \in Requests : pc'[r] = "write" /\ s = request'[r].schedule
           /\ n = pending'[r].retry_count => Accounted(s, n)'
    BY <1>4, <1>6
  <2>2. QED
    BY <2>1 DEF Accounted, Known, Owed
<1>8. ASSUME NEW w \in Workers
      PROVE  /\ \A d \in due'[w] : Known(d.id, d.row.retry_count)'
             /\ pc'[w] \in InCall => Known(snapshot[w].id, snapshot[w].row.retry_count)'
             /\ pc'[w] = "write" => pending'[w].retry_count = IF failed'[w] THEN Attempt(w)' ELSE 0
  <2>1. pc'[w] \in InCall => pc[w] \in InCall
    BY <1>1 DEF InCall, Actors
  <2>2. /\ \A d \in due'[w] : Known(d.id, d.row.retry_count)'
        /\ pc'[w] \in InCall => Known(snapshot[w].id, snapshot[w].row.retry_count)'
    BY <1>1, <2>1 DEF FailureInv, Known
  <2>3. ASSUME pc'[w] = "write"
        PROVE  pending'[w].retry_count = IF failed'[w] THEN Attempt(w)' ELSE 0
    <3>1. CASE w # a
      BY <1>1, <2>3, <3>1 DEF FailureInv, Attempt, Actors
    <3>2. CASE w = a
      <4>1. Attempt(w) \in Nat /\ Attempt(w)' = Attempt(w)
        BY <1>1, <3>2 DEF Attempt, WellFormed, InCall, Snapshot, Row
      <4>2. UpdateArgs(w).retry_count = IF failed[w] THEN Attempt(w) ELSE 0
        BY DEF UpdateArgs, FailureArgs, SuccessArgs, Attempt
      <4>3. pending'[w].retry_count = Keep(UpdateArgs(w).retry_count, row.retry_count)
        BY <1>1, <2>3, <3>2 DEF Merge
      <4>4. QED
        BY <1>1, <1>2, <4>1, <4>2, <4>3 DEF Keep
    <3>3. QED
      BY <3>1, <3>2
  <2>4. QED
    BY <2>2, <2>3
<1>9. QED
  BY <1>5, <1>7, <1>8 DEF FailureInv

LEMMA FailureWrite ==
    ASSUME TypeInv, OneScheduler, FailureInv, NEW a \in Actors, WriteRow(a)
    PROVE  FailureInv'
<1> USE DEF TypeInv
<1>0. PICK s0 \in Schedules : s0 = Subject(a)
  BY DEF WriteRow, Subject, WellFormed, InCall, Snapshot, Actors
<1>1. /\ pc[a] = "write" /\ UNCHANGED <<audit, request, due, snapshot, failed>>
      /\ pc'[a] = "audit" /\ \A b \in Actors : b # a => pc'[b] = pc[b] /\ pending'[b] = pending[b]
      /\ schedules'[s0] \in {pending[a], None}
      /\ \A s \in Schedules : s # s0 => schedules'[s] = schedules[s]
  BY <1>0 DEF WriteRow, Written, TypeOK
<1>2. (a \in Workers => a \notin Requests) /\ (a \in Workers \/ a \in Requests)
  BY ConstantsAssumption DEF Actors
<1>3. \A s, n : Accounted(s, n) => Accounted(s, n)'
  <2>1. \A w \in Workers : \/ pc[w] \notin {"audit", "dead"}
                           \/ pc'[w] = pc[w] /\ failed'[w] = failed[w] /\ snapshot'[w] = snapshot[w]
    BY <1>1 DEF Actors
  <2>2. QED
    BY <1>1, <2>1, StayAccounted
<1>4. ASSUME NEW n, n = pending[a].retry_count
      PROVE  Accounted(s0, n)'
  <2>1. CASE a \in Requests
    BY <1>0, <1>1, <1>2, <1>3, <1>4, <2>1 DEF FailureInv, Subject
  <2>2. CASE a \in Workers /\ failed[a]
    <3>1. /\ Known(s0, snapshot[a].row.retry_count) /\ n = Attempt(a) /\ snapshot[a].id = s0
          /\ snapshot[a].row.retry_count \in Nat
      BY <1>0, <1>1, <1>4, <2>2 DEF FailureInv, Subject, InCall, WellFormed, Snapshot, Row
    <3>2. n - 1 = snapshot[a].row.retry_count
      BY <3>1 DEF Attempt
    <3>3. Known(s0, n - 1)'
      BY <1>1, <3>1, <3>2 DEF Known
    <3>4. Owed(s0, n)'
      BY <1>1, <2>2, <3>1 DEF Owed, Attempt
    <3>5. QED
      BY <3>3, <3>4 DEF Accounted
  <2>3. CASE a \in Workers /\ ~failed[a]
    <3>1. n = 0
      BY <1>1, <1>4, <2>3 DEF FailureInv
    <3>2. 1 .. 0 - 1 = {}
      OBVIOUS
    <3>3. QED
      BY <3>1, <3>2 DEF Accounted, Known
  <2>4. QED
    BY <1>2, <2>1, <2>2, <2>3
<1>5. \A s \in Schedules : schedules'[s] # None => Accounted(s, schedules[s].retry_count)'
  <2>1. \A n : \A s \in Schedules : schedules'[s] # None /\ n = schedules'[s].retry_count
          => Accounted(s, n)'
    BY <1>1, <1>3, <1>4 DEF FailureInv
  <2>2. QED
    BY <2>1 DEF Accounted, Known, Owed
<1>6. \A r \in Requests : pc'[r] = "write" => Accounted(request[r].schedule, pending[r].retry_count)'
  <2>1. \A s, n : \A r \in Requests : pc'[r] = "write" /\ s = request'[r].schedule
           /\ n = pending'[r].retry_count => Accounted(s, n)'
    BY <1>1, <1>3 DEF FailureInv, Actors
  <2>2. QED
    BY <2>1 DEF Accounted, Known, Owed
<1>7. ASSUME NEW w \in Workers
      PROVE  /\ \A d \in due'[w] : Known(d.id, d.row.retry_count)'
             /\ pc'[w] \in InCall => Known(snapshot[w].id, snapshot[w].row.retry_count)'
             /\ pc'[w] = "write" => pending'[w].retry_count = IF failed'[w] THEN Attempt(w)' ELSE 0
  <2>1. /\ pc'[w] \in InCall => pc[w] \in InCall
        /\ pc'[w] = "write" => pc[w] = "write" /\ pending'[w] = pending[w]
    BY <1>1 DEF InCall, Actors
  <2>2. QED
    BY <1>1, <2>1 DEF FailureInv, Known, Attempt
<1>8. QED
  BY <1>5, <1>6, <1>7 DEF FailureInv

LEMMA FailureRequest ==
    ASSUME TypeInv, FailureInv, NEW r \in Requests, Arrive(r) \/ Respond(r) \/ RequestFault(r)
    PROVE  FailureInv'
<1> USE DEF TypeInv
<1>0. r \in Actors /\ r \notin Workers
  BY ConstantsAssumption DEF Actors
<1>1. /\ audit \subseteq audit' /\ pc'[r] # "write"
      /\ \A b \in Actors : b # r => /\ pc'[b] = pc[b] /\ pending'[b] = pending[b]
                                    /\ snapshot'[b] = snapshot[b]
      /\ \A q \in Requests : q # r => request'[q] = request[q]
      /\ UNCHANGED <<due, failed>>
  <2>1. CASE Arrive(r)
    BY <1>0, <2>1 DEF Arrive, Generate, Create, Put, Delete, RunNow, Ask, TypeOK, tables
  <2>2. CASE Respond(r) \/ RequestFault(r)
    BY <1>0, <2>2 DEF Respond, RequestFault, TypeOK, tables
  <2>3. QED
    BY <2>1, <2>2
<1>2. \A s, n : Accounted(s, n) => Accounted(s, n)'
  <2>1. \A w \in Workers : pc'[w] = pc[w] /\ failed'[w] = failed[w] /\ snapshot'[w] = snapshot[w]
    BY <1>0, <1>1 DEF Actors
  <2>2. QED
    BY <1>1, <2>1, StayAccounted
<1>3. \A w \in Workers : /\ pc'[w] = pc[w] /\ snapshot'[w] = snapshot[w]
                         /\ pending'[w] = pending[w]
  BY <1>0, <1>1 DEF Actors
<1>4. \A q \in Requests : pc'[q] = "write" =>
         pc[q] = "write" /\ request'[q] = request[q] /\ pending'[q] = pending[q]
  BY <1>1 DEF Actors
<1>5. CASE ~Create(r)
  <2>1. \A s \in Schedules : schedules'[s] \in {schedules[s], None}
    BY <1>5 DEF Arrive, Generate, Put, Delete, RunNow, Respond, RequestFault, TypeOK, tables
  <2>2. QED
    BY <1>1, <1>2, <1>3, <1>4, <2>1, FailureQuiet
<1>6. CASE Create(r)
  <2>1. PICK s0 \in Schedules, cron \in Crons, enabled \in BOOLEAN, start \in Starts :
           schedules' = [schedules EXCEPT ![s0] = NewRow(cron, enabled, start)]
    BY <1>6 DEF Create
  <2>2. ASSUME NEW s \in Schedules, NEW n, schedules'[s] # None, n = schedules'[s].retry_count
        PROVE  Accounted(s, n)'
    <3>1. CASE s # s0
      BY <1>2, <2>1, <2>2, <3>1 DEF FailureInv, TypeOK
    <3>2. CASE s = s0
      <4>1. n = 0
        BY <2>1, <2>2, <3>2 DEF NewRow, TypeOK
      <4>2. 1 .. 0 - 1 = {}
        OBVIOUS
      <4>3. QED
        BY <4>1, <4>2 DEF Accounted, Known
    <3>3. QED
      BY <3>1, <3>2
  <2>3. \A s \in Schedules : schedules'[s] # None => Accounted(s, schedules[s].retry_count)'
    BY <2>2 DEF Accounted, Known, Owed
  <2>4. \A q \in Requests : pc'[q] = "write" => Accounted(request[q].schedule, pending[q].retry_count)'
    <3>1. \A s, n : \A q \in Requests : pc'[q] = "write" /\ s = request'[q].schedule
             /\ n = pending'[q].retry_count => Accounted(s, n)'
      BY <1>2, <1>4 DEF FailureInv
    <3>2. QED
      BY <3>1 DEF Accounted, Known, Owed
  <2>5. \A w \in Workers :
          /\ \A d \in due'[w] : Known(d.id, d.row.retry_count)'
          /\ pc'[w] \in InCall => Known(snapshot[w].id, snapshot[w].row.retry_count)'
          /\ pc'[w] = "write" => pending'[w].retry_count = IF failed'[w] THEN Attempt(w)' ELSE 0
    BY <1>1, <1>3 DEF FailureInv, Known, Attempt
  <2>6. QED
    BY <2>3, <2>4, <2>5 DEF FailureInv
<1>7. QED
  BY <1>5, <1>6

LEMMA FailureStep ==
    OneScheduler /\ TypeInv /\ FailureInv /\ [Next]_vars /\ crashes' = 0 => FailureInv'
<1> SUFFICES ASSUME OneScheduler, TypeInv, FailureInv, [Next]_vars, crashes' = 0 PROVE FailureInv'
  OBVIOUS
<1> USE DEF TypeInv
<1>1. ASSUME NEW a \in Actors, RecordReport(a) \/ StoreArtifact(a)
      PROVE  FailureInv'
  <2>1. /\ UNCHANGED <<schedules, audit, request, pending, due, snapshot, failed>>
        /\ pc[a] \in {"record", "store"} /\ pc'[a] \in {"store", "select", "audit"}
        /\ \A b \in Actors : b # a => pc'[b] = pc[b]
    BY <1>1 DEF RecordReport, StoreArtifact, TypeOK
  <2>2. \A w \in Workers : \/ pc[w] \notin {"audit", "dead"}
                           \/ pc'[w] = pc[w] /\ failed'[w] = failed[w] /\ snapshot'[w] = snapshot[w]
    BY <2>1 DEF Actors
  <2>3. \A s, n : Accounted(s, n) => Accounted(s, n)'
    BY <2>1, <2>2, StayAccounted
  <2>4. \A b \in Actors : /\ pc'[b] \in InCall => pc[b] \in InCall
                          /\ pc'[b] = "write" => pc[b] = "write"
    BY <2>1 DEF InCall
  <2>5. QED
    BY <2>1, <2>3, <2>4, FailureQuiet DEF Actors
<1>2. CASE \E w \in Workers : Scheduler(w) \/ SchedulerFault(w) \/ Restart(w)
  BY <1>1, <1>2, FailureScheduler, FailureSelect, FailureWrite DEF Scheduler, SharedCall, Actors
<1>3. CASE \E r \in Requests : Arrive(r) \/ Handler(r) \/ RequestFault(r)
  BY <1>1, <1>3, FailureRequest, FailureSelect, FailureWrite DEF Handler, SharedCall, Actors
<1>4. CASE Tick \/ UNCHANGED vars
  <2>1. UNCHANGED <<tables, locals>>
    BY <1>4 DEF Tick, vars
  <2>2. \A s, n : Accounted(s, n) => Accounted(s, n)'
    BY <2>1, StayAccounted DEF tables, locals
  <2>3. QED
    BY <2>1, <2>2, FailureQuiet DEF tables, locals
<1>5. QED
  BY <1>2, <1>3, <1>4 DEF Next

\* The audit trail of one scheduler has every failed attempt but the last, under
\* its number (run_scheduler), as long as its process is not replaced: through
\* every call that raises, and whatever requests create, change, run or delete
\* schedules meanwhile.
THEOREM FailureTrail == OneScheduler => (Spec => [](crashes = 0 => FailuresAudited))
<1> SUFFICES ASSUME OneScheduler PROVE Spec => [](crashes = 0 => FailuresAudited)
  OBVIOUS
<1>1. Init => FailureInv
  <2> SUFFICES ASSUME Init PROVE FailureInv
    OBVIOUS
  <2>1. \A s \in Schedules : schedules[s] # None => schedules[s].retry_count = 0
    BY DEF Init, NewRow
  <2>2. 1 .. 0 - 1 = {}
    OBVIOUS
  <2>3. \A s : Accounted(s, 0)
    BY <2>2 DEF Accounted, Known
  <2>4. QED
    BY <2>1, <2>3 DEF Init, FailureInv, InCall, Actors
<1>2. TypeInv /\ (crashes = 0 => FailureInv) /\ [Next]_vars => (crashes = 0 => FailureInv)'
  BY FailureStep, CrashesGrow
<1>3. FailureInv => FailuresAudited
  BY DEF FailureInv, Accounted, Known, FailuresAudited
<1>4. QED
  BY <1>1, <1>2, <1>3, TypeCorrect, PTL DEF Spec

----------------------------------------------------------------------------
(* Occurrences *)

\* What the scheduler reported for s leaves attempt n at occurrence o open: it
\* was for earlier occurrences, or earlier attempts at this one that raised.
Open(s, o, n) ==
    \A i \in 1 .. Len(history) :
       history[i].schedule = s /\ history[i].by \in Workers =>
          \/ history[i].occurrence < o
          \/ history[i].occurrence = o /\ history[i].attempt < n /\ ~Executed(i)

\* All of it was for occurrences before o.
Past(s, o) ==
    \A i \in 1 .. Len(history) :
       history[i].schedule = s /\ history[i].by \in Workers => history[i].occurrence < o

NextOpen(s, row) == Open(s, row.occurrence, row.retry_count + 1)

\* A retry is not due before the occurrence it is for, and is not one too many.
Steady(row) == row.occurrence <= row.next_run_at /\ row.retry_count < MaxRetries

\* A row that was listed.
Ripe(row) == row.occurrence <= now /\ row.retry_count < MaxRetries

\* The scheduler has still to move the schedule's next_run_at, or died before.
Unmoved(s) ==
    \E w \in Workers :
       \/ pc[w] = "dead"
       \/ pc[w] \in {"record", "store", "select", "write"} /\ snapshot[w].id = s

HistoryInOrder ==
    /\ OncePerOccurrence
    /\ \A i \in 1 .. Len(history) :
          /\ history[i].schedule # None => history[i].schedule \in issued
          /\ history[i].by \in Workers => history[i].occurrence \in Nat
          /\ history[i].attempt \in Nat

RowsAhead ==
    \A s \in Schedules : schedules[s] # None =>
       /\ s \in issued
       /\ schedules[s].enabled => /\ Steady(schedules[s])
                                  /\ NextOpen(s, schedules[s]) \/ Unmoved(s)

\* The report the scheduler holds is its last one for the schedule.
Latest(w) ==
    \A j \in 1 .. Len(history) :
       j > report[w] /\ history[j].by \in Workers => history[j].schedule # snapshot[w].id

\* The scheduler lists a schedule once, and what it listed has come due and is
\* still open; the row it is about to write is open as well, or disabled.  After a
\* report that succeeded the row is for a later occurrence.
TaskAhead(w) ==
    /\ \A d \in due[w] : /\ d.id \in issued /\ Ripe(d.row) /\ NextOpen(d.id, d.row)
                         /\ d.id # snapshot[w].id
                         /\ \A e \in due[w] : e # d => e.id # d.id
    /\ pc[w] \notin InCall => due[w] = {}
    /\ pc[w] \in InCall =>
          /\ snapshot[w].id \in issued
          /\ Ripe(snapshot[w].row)
          /\ Open(snapshot[w].id, snapshot[w].row.occurrence, Attempt(w) + 1)
    /\ pc[w] = "record" => NextOpen(snapshot[w].id, snapshot[w].row)
    /\ pc[w] = "write" /\ pending[w].enabled =>
          /\ Steady(pending[w]) /\ NextOpen(snapshot[w].id, pending[w])
          /\ ~failed[w] => Past(snapshot[w].id, pending[w].occurrence)
    /\ pc[w] \in {"store", "select", "write", "audit"} /\ ~failed[w] => Latest(w)
    /\ pc[w] = "audit" /\ ~failed[w] =>
          \A s \in Schedules :
             s = snapshot[w].id /\ schedules[s] # None /\ schedules[s].enabled
                => Past(s, schedules[s].occurrence)

OccurrenceInv == HistoryInOrder /\ RowsAhead /\ \A w \in Workers : TaskAhead(w)

\* No request moves next_run_at.
OnlyRunsMove == {"update", "run_now"} \cap Operations = {}

\* Only the scheduler's own audit event makes a report an executed one.
LEMMA SameExecuted ==
    ASSUME audit \subseteq audit', \A e \in audit' : e \in audit \/ e.action # "execute"
    PROVE  \A i : Executed(i)' <=> Executed(i)
  BY DEF Executed

LEMMA SameHistory ==
    ASSUME history' = history, \A i : Executed(i)' <=> Executed(i)
    PROVE  /\ \A s, o, n : Open(s, o, n)' <=> Open(s, o, n)
           /\ \A s, o : Past(s, o)' <=> Past(s, o)
           /\ OncePerOccurrence' <=> OncePerOccurrence
  BY DEF Open, Past, OncePerOccurrence

\* What is past is open to a first attempt and to any other.
LEMMA PastIsOpen ==
    ASSUME NEW s, NEW o, NEW n, Past(s, o)
    PROVE  Open(s, o, n)
  BY DEF Past, Open

\* What the scheduler holds stays as it is while it does.
LEMMA TaskKept ==
    ASSUME TypeInv, NEW w \in Workers, TaskAhead(w),
           history' = history, \A i : Executed(i)' <=> Executed(i),
           issued \subseteq issued', now' \in Nat, now <= now',
           \A s \in issued : schedules'[s] \in {schedules[s], None},
           /\ pc'[w] = pc[w] /\ due'[w] = due[w] /\ snapshot'[w] = snapshot[w]
           /\ pending'[w] = pending[w] /\ failed'[w] = failed[w] /\ report'[w] = report[w]
    PROVE  TaskAhead(w)'
<1>1. /\ now \in Nat /\ due[w] \in SUBSET Snapshot
      /\ pc[w] \in InCall => snapshot[w] \in Snapshot
  BY DEF TypeInv, TypeOK, WellFormed
<1>2. \A d \in Snapshot : Ripe(d.row) => Ripe(d.row)'
  BY <1>1 DEF Ripe, Snapshot, Row
<1>3. /\ \A s, o, n : Open(s, o, n)' <=> Open(s, o, n)
      /\ \A s, o : Past(s, o)' <=> Past(s, o)
  BY SameHistory
<1>4. \A s, row : NextOpen(s, row)' <=> NextOpen(s, row)
  BY <1>3 DEF NextOpen
<1>5. \A d \in due'[w] : /\ d.id \in issued' /\ Ripe(d.row)' /\ NextOpen(d.id, d.row)'
                         /\ d.id # snapshot'[w].id
                         /\ \A e \in due'[w] : e # d => e.id # d.id
  BY <1>1, <1>2, <1>4 DEF TaskAhead
<1>6. pc'[w] \in InCall =>
         /\ snapshot'[w].id \in issued' /\ Ripe(snapshot[w].row)'
         /\ Open(snapshot[w].id, snapshot[w].row.occurrence, Attempt(w) + 1)'
  <2>1. pc[w] \in InCall => Ripe(snapshot[w].row) /\ Ripe(snapshot[w].row)'
    BY <1>1, <1>2 DEF TaskAhead, Ripe
  <2>2. pc[w] \in InCall => Open(snapshot[w].id, snapshot[w].row.occurrence, Attempt(w) + 1)'
    BY DEF TaskAhead, Open, Attempt
  <2>3. QED
    BY <2>1, <2>2 DEF TaskAhead
<1>7. pc'[w] = "record" => NextOpen(snapshot[w].id, snapshot[w].row)'
  BY DEF TaskAhead, NextOpen, Open
<1>8. pc'[w] = "write" /\ pending'[w].enabled =>
         /\ Steady(pending[w])' /\ NextOpen(snapshot[w].id, pending[w])'
         /\ ~failed'[w] => Past(snapshot[w].id, pending[w].occurrence)'
  BY DEF TaskAhead, NextOpen, Open, Past, Steady
<1>9. /\ pc'[w] \in {"store", "select", "write", "audit"} /\ ~failed'[w] => Latest(w)'
      /\ pc'[w] = "audit" /\ ~failed'[w] =>
            \A s \in Schedules :
               s = snapshot'[w].id /\ schedules'[s] # None /\ schedules'[s].enabled
                  => Past(s, schedules[s].occurrence)'
  <2>1. pc[w] = "audit" => snapshot[w].id \in issued
    BY DEF TaskAhead, InCall
  <2>2. QED
    BY <2>1 DEF TaskAhead, Latest, Past
<1>10. pc'[w] \notin InCall => due'[w] = {}
  BY DEF TaskAhead
<1>11. QED
  BY <1>5, <1>6, <1>7, <1>8, <1>9, <1>10 DEF TaskAhead

\* Requests come and go, and so does time.
LEMMA OccurrenceQuiet ==
    ASSUME TypeInv, OccurrenceInv, history' = history, issued \subseteq issued',
           \A i : Executed(i)' <=> Executed(i), now' \in Nat, now <= now',
           \A s \in Schedules : \/ schedules'[s] \in {schedules[s], None}
                                \/ s \in issued' \ issued /\ Steady(schedules'[s]),
           \A w \in Workers : /\ pc'[w] = pc[w] /\ due'[w] = due[w]
                              /\ snapshot'[w] = snapshot[w] /\ pending'[w] = pending[w]
                              /\ failed'[w] = failed[w] /\ report'[w] = report[w]
    PROVE  OccurrenceInv'
<1>1. \A s, o, n : Open(s, o, n)' <=> Open(s, o, n)
  BY SameHistory
<1>2. HistoryInOrder'
  BY SameHistory DEF OccurrenceInv, HistoryInOrder
<1>3. \A s : Unmoved(s)' <=> Unmoved(s)
  BY DEF Unmoved
<1>4. RowsAhead'
  <2>1. ASSUME NEW s \in Schedules, NEW row, row = schedules'[s], row # None
        PROVE  /\ s \in issued'
               /\ row.enabled => /\ Steady(row)
                                 /\ Open(s, row.occurrence, row.retry_count + 1) \/ Unmoved(s)
    <3>1. CASE schedules'[s] = schedules[s]
      BY <2>1, <3>1 DEF OccurrenceInv, RowsAhead, NextOpen
    <3>2. CASE s \in issued' \ issued /\ Steady(schedules'[s])
      BY <2>1, <3>2, ConstantsAssumption DEF OccurrenceInv, HistoryInOrder, Open
    <3>3. QED
      BY <2>1, <3>1, <3>2
  <2>2. \A row : \A s \in Schedules : row = schedules'[s] /\ row # None =>
           /\ s \in issued'
           /\ row.enabled => /\ Steady(row)'
                             /\ Open(s, row.occurrence, row.retry_count + 1)' \/ Unmoved(s)'
    BY <1>1, <1>3, <2>1 DEF Steady
  <2>3. QED
    BY <2>2 DEF RowsAhead, NextOpen, Open, Steady, Unmoved
<1>5. ASSUME NEW w \in Workers
      PROVE  TaskAhead(w)'
  <2>1. \A s \in issued : schedules'[s] \in {schedules[s], None}
    BY DEF TypeInv, TypeOK
  <2>2. QED
    BY <2>1, TaskKept DEF OccurrenceInv
<1>6. QED
  BY <1>2, <1>4, <1>5 DEF OccurrenceInv

\* The history after a report
LEMMA Appended ==
    ASSUME TypeInv, NEW a \in Actors, RecordReport(a)
    PROVE  LET n == Len(history) + 1
           IN  /\ Len(history) \in Nat /\ Len(history') = n
               /\ history'[n].schedule = Subject(a) /\ history'[n].by = a
               /\ history'[n].occurrence = IF a \in Workers THEN snapshot[a].row.occurrence
                                                            ELSE None
               /\ history'[n].attempt = IF a \in Workers THEN Attempt(a) ELSE 0
               /\ \A i \in 1 .. Len(history) : history'[i] = history[i]
<1> DEFINE new == [schedule   |-> Subject(a),
                   occurrence |-> IF a \in Workers THEN snapshot[a].row.occurrence ELSE None,
                   attempt    |-> IF a \in Workers THEN Attempt(a) ELSE 0,
                   by         |-> a]
<1>1. history' = Append(history, new) /\ history \in Seq(HistoryRow)
  BY DEF RecordReport, TypeInv, TypeOK
<1>2. /\ new.schedule = Subject(a) /\ new.by = a
      /\ new.occurrence = IF a \in Workers THEN snapshot[a].row.occurrence ELSE None
      /\ new.attempt = IF a \in Workers THEN Attempt(a) ELSE 0
  OBVIOUS
<1> HIDE DEF new
<1>3. /\ Len(history) \in Nat /\ Len(history') = Len(history) + 1
      /\ history'[Len(history) + 1] = new
      /\ \A i \in 1 .. Len(history) : history'[i] = history[i]
  BY <1>1
<1>4. QED
  BY <1>2, <1>3

LEMMA OccurrenceRecord ==
    ASSUME TypeInv, LedgerInv, OneScheduler, OnlyRunsMove, OccurrenceInv,
           NEW a \in Actors, RecordReport(a)
    PROVE  OccurrenceInv'
<1> USE DEF TypeInv
<1> DEFINE n == Len(history) + 1
<1>1. /\ n \in Nat /\ Len(history') = n /\ 1 .. n = 1 .. Len(history) \cup {n}
      /\ history'[n].schedule = Subject(a) /\ history'[n].by = a
      /\ a \in Workers => history'[n].occurrence = snapshot[a].row.occurrence
      /\ history'[n].attempt = IF a \in Workers THEN Attempt(a) ELSE 0
      /\ \A i \in 1 .. Len(history) : history'[i] = history[i]
  BY Appended
<1>2. /\ UNCHANGED <<now, schedules, issued, due, snapshot, pending, request, audit, failed>>
      /\ pc[a] = "record" /\ pc'[a] = "store" /\ report'[a] = n
      /\ \A b \in Actors : b # a => pc'[b] = pc[b] /\ report'[b] = report[b]
  BY DEF RecordReport, TypeOK, NewReport
<1>0. Len(history) \in Nat /\ \A i \in 1 .. Len(history) : i < n
  BY Appended DEF n
<1>8. /\ \A i : Executed(i)' <=> Executed(i)
      /\ ~Executed(n)
  <2>1. \A i : Executed(i)' <=> Executed(i)
    BY <1>2, SameExecuted
  <2>2. \A e \in audit : e.report # n
    BY <1>1, ConstantsAssumption DEF LedgerInv, TypeOK
  <2>3. QED
    BY <2>1, <2>2 DEF Executed
<1> HIDE DEF n
<1>3. CASE a \in Requests
  <2>1. a \notin Workers /\ Subject(a) = None
    <3>1. a \notin Workers
      BY <1>3, ConstantsAssumption
    <3>2. request[a].op = "generate"
      BY <1>2, <1>3 DEF OnlyRunsMove, WellFormed, InCall, Request
    <3>3. QED
      BY <1>2, <1>3, <3>1, <3>2 DEF Subject, WellFormed, InCall
  <2>2. /\ \A s, o, m : Open(s, o, m)' <=> Open(s, o, m)
        /\ \A s, o : Past(s, o)' <=> Past(s, o)
    BY <1>1, <1>8, <2>1 DEF Open, Past, n
  <2>3. \A w \in Workers : pc'[w] = pc[w] /\ report'[w] = report[w]
    BY <1>2, <2>1 DEF Actors
  <2>4. HistoryInOrder'
    <3>1. OncePerOccurrence'
      <4>1. ASSUME NEW i \in 1 .. n, NEW j \in 1 .. n, i < j,
                   history'[i].schedule = history'[j].schedule,
                   {history'[i].by, history'[j].by} \subseteq Workers
            PROVE  \/ history'[i].occurrence < history'[j].occurrence
                   \/ /\ history'[i].occurrence = history'[j].occurrence
                      /\ history'[i].attempt < history'[j].attempt
                      /\ history'[j].attempt <= MaxRetries
                      /\ ~Executed(i)
        <5>1. i \in 1 .. Len(history) /\ j \in 1 .. Len(history)
          BY <1>1, <2>1, <4>1
        <5>2. QED
          BY <1>1, <4>1, <5>1 DEF OccurrenceInv, HistoryInOrder, OncePerOccurrence
      <4>2. QED
        BY <1>1, <1>8, <4>1 DEF OncePerOccurrence
    <3>2. QED
      BY <1>1, <1>2, <2>1, <3>1 DEF OccurrenceInv, HistoryInOrder
  <2>5. RowsAhead'
    <3>1. \A s : Unmoved(s)' <=> Unmoved(s)
      BY <1>2, <2>3 DEF Unmoved
    <3>2. \A row : \A s \in Schedules : schedules[s] # None /\ row = schedules[s] =>
             /\ s \in issued
             /\ row.enabled => /\ Steady(row)
                               /\ Open(s, row.occurrence, row.retry_count + 1)' \/ Unmoved(s)'
      BY <2>2, <3>1 DEF OccurrenceInv, RowsAhead, NextOpen
    <3>3. QED
      BY <1>2, <3>2 DEF RowsAhead, NextOpen, Open, Unmoved, Steady
  <2>6. ASSUME NEW w \in Workers
        PROVE  TaskAhead(w)'
    <3>1. TaskAhead(w)
      BY DEF OccurrenceInv
    <3>0. PICK sn, pd : sn = snapshot[w] /\ pd = pending[w]
      OBVIOUS
    <3>2. \A d \in due'[w] : /\ d.id \in issued' /\ Ripe(d.row)' /\ NextOpen(d.id, d.row)'
                             /\ d.id # snapshot'[w].id
                             /\ \A e \in due'[w] : e # d => e.id # d.id
      BY <1>2, <2>2, <3>1 DEF TaskAhead, NextOpen, Ripe
    <3>5. pc[w] \in InCall =>
             /\ Ripe(snapshot[w].row)'
             /\ Open(snapshot[w].id, snapshot[w].row.occurrence, Attempt(w) + 1)'
      <4>1. pc[w] \in InCall => Open(sn.id, sn.row.occurrence, (sn.row.retry_count + 1) + 1)
        BY <3>0, <3>1 DEF TaskAhead, Attempt
      <4>2. pc[w] \in InCall => Open(sn.id, sn.row.occurrence, (sn.row.retry_count + 1) + 1)'
        BY <2>2, <4>1
      <4>3. QED
        BY <1>2, <3>0, <3>1, <4>2 DEF TaskAhead, Ripe, Attempt, Open
    <3>6. pc[w] = "record" => NextOpen(snapshot[w].id, snapshot[w].row)'
      <4>1. pc[w] = "record" => Open(sn.id, sn.row.occurrence, sn.row.retry_count + 1)
        BY <3>0, <3>1 DEF TaskAhead, NextOpen
      <4>2. pc[w] = "record" => Open(sn.id, sn.row.occurrence, sn.row.retry_count + 1)'
        BY <2>2, <4>1
      <4>3. QED
        BY <1>2, <3>0, <4>2 DEF NextOpen, Open
    <3>7. pc[w] = "write" /\ pending[w].enabled =>
             /\ Steady(pending[w])' /\ NextOpen(snapshot[w].id, pending[w])'
             /\ ~failed[w] => Past(snapshot[w].id, pending[w].occurrence)'
      <4>1. pc[w] = "write" /\ pd.enabled =>
               /\ Steady(pd) /\ Open(sn.id, pd.occurrence, pd.retry_count + 1)
               /\ ~failed[w] => Past(sn.id, pd.occurrence)
        BY <3>0, <3>1 DEF TaskAhead, NextOpen
      <4>2. pc[w] = "write" /\ pd.enabled =>
               /\ Open(sn.id, pd.occurrence, pd.retry_count + 1)'
               /\ ~failed[w] => Past(sn.id, pd.occurrence)'
        BY <2>2, <4>1
      <4>3. pc[w] = "write" /\ pd.enabled => NextOpen(snapshot[w].id, pending[w])'
        BY <1>2, <3>0, <4>2 DEF NextOpen, Open
      <4>4. pc[w] = "write" /\ pd.enabled /\ ~failed[w] =>
               Past(snapshot[w].id, pending[w].occurrence)'
        BY <1>2, <3>0, <4>2 DEF Past
      <4>5. QED
        BY <1>2, <3>0, <4>1, <4>3, <4>4 DEF Steady
    <3>8. pc[w] = "audit" /\ ~failed[w] =>
             \A s \in Schedules :
                s = snapshot[w].id /\ schedules[s] # None /\ schedules[s].enabled
                   => Past(s, schedules[s].occurrence)'
      <4>1. \A o : \A s \in Schedules :
               /\ pc[w] = "audit" /\ ~failed[w] /\ o = schedules[s].occurrence
               /\ s = snapshot[w].id /\ schedules[s] # None /\ schedules[s].enabled
               => Past(s, o)'
        BY <2>2, <3>1 DEF TaskAhead
      <4>2. QED
        BY <1>2, <4>1 DEF Past
    <3>3. pc[w] \in {"store", "select", "write", "audit"} /\ ~failed[w] => Latest(w)'
      BY <1>1, <1>2, <2>1, <2>3, <3>1 DEF TaskAhead, Latest
    <3>4. QED
      BY <1>2, <2>3, <3>1, <3>2, <3>3, <3>5, <3>6, <3>7, <3>8 DEF TaskAhead
  <2>7. QED
    BY <2>4, <2>5, <2>6 DEF OccurrenceInv
<1>4. CASE a \in Workers
  <2> DEFINE id == snapshot[a].id
             slot == snapshot[a].row.occurrence
  <2>1. /\ Subject(a) = id /\ id \in issued /\ slot \in Nat /\ TaskAhead(a) /\ Attempt(a) \in Nat
        /\ Open(id, slot, Attempt(a)) /\ Ripe(snapshot[a].row) /\ Attempt(a) <= MaxRetries
    <3>1. TaskAhead(a) /\ pc[a] \in InCall /\ snapshot[a].row \in Row
      BY <1>2, <1>4 DEF OccurrenceInv, InCall, WellFormed, Snapshot
    <3>2. /\ Open(id, slot, Attempt(a)) /\ id \in issued /\ Ripe(snapshot[a].row)
          /\ Subject(a) = id
      BY <1>2, <1>4, <3>1 DEF Subject, TaskAhead, NextOpen, Attempt
    <3>3. slot \in Nat /\ Attempt(a) \in Nat /\ Attempt(a) <= MaxRetries
      BY <3>1, <3>2, ConstantsAssumption DEF Ripe, Row, Attempt
    <3>4. QED
      BY <3>1, <3>2, <3>3
  <2>2. \A s, o, m : s # id /\ Open(s, o, m) => Open(s, o, m)'
    BY <1>1, <1>8, <2>1 DEF Open, n
  <2>3. Open(snapshot[a].id, snapshot[a].row.occurrence, Attempt(a) + 1)'
    <3>1. \A i \in 1 .. Len(history) :
             history[i].schedule = id /\ history[i].by \in Workers =>
                /\ history[i].attempt \in Nat
                /\ \/ history[i].occurrence < slot
                   \/ /\ history[i].occurrence = slot /\ history[i].attempt < Attempt(a)
                      /\ ~Executed(i)
      BY <2>1 DEF Open, OccurrenceInv, HistoryInOrder
    <3>2. ASSUME NEW i \in 1 .. n, history'[i].schedule = id, history'[i].by \in Workers
          PROVE  \/ history'[i].occurrence < slot
                 \/ /\ history'[i].occurrence = slot /\ history'[i].attempt < Attempt(a) + 1
                    /\ ~Executed(i)
      <4>1. CASE i = n
        BY <1>1, <1>4, <1>8, <2>1, <4>1
      <4>2. CASE i \in 1 .. Len(history)
        BY <1>1, <2>1, <3>1, <3>2, <4>2
      <4>3. QED
        BY <1>1, <4>1, <4>2
    <3>3. QED
      BY <1>1, <1>2, <1>8, <3>2 DEF Open, Attempt
  <2>4. HistoryInOrder'
    <3>1. OncePerOccurrence'
      <4>1. ASSUME NEW i \in 1 .. n, NEW j \in 1 .. n, i < j,
                   history'[i].schedule = history'[j].schedule,
                   {history'[i].by, history'[j].by} \subseteq Workers
            PROVE  \/ history'[i].occurrence < history'[j].occurrence
                   \/ /\ history'[i].occurrence = history'[j].occurrence
                      /\ history'[i].attempt < history'[j].attempt
                      /\ history'[j].attempt <= MaxRetries
                      /\ ~Executed(i)
        <5>0. i \in 1 .. Len(history)
          BY <1>1, <4>1
        <5>1. CASE j = n
          BY <1>1, <1>4, <2>1, <4>1, <5>0, <5>1 DEF Open
        <5>2. CASE j \in 1 .. Len(history)
          BY <1>1, <4>1, <5>0, <5>2 DEF OccurrenceInv, HistoryInOrder, OncePerOccurrence
        <5>3. QED
          BY <1>1, <5>1, <5>2
      <4>2. QED
        BY <1>1, <1>8, <4>1 DEF OncePerOccurrence
    <3>2. QED
      BY <1>1, <1>2, <1>4, <2>1, <3>1 DEF OccurrenceInv, HistoryInOrder
  <2>5. \A w \in Workers : w = a
    BY <1>4 DEF OneScheduler
  <2>6. RowsAhead'
    <3>1. \A s : s = id => Unmoved(s)'
      BY <1>2, <1>4 DEF Unmoved
    <3>2. ASSUME NEW s \in Schedules, NEW row, schedules[s] # None, row.enabled,
                 row = schedules[s], s # id
          PROVE  Open(s, row.occurrence, row.retry_count + 1)'
      <4>1. ~Unmoved(s)
        BY <1>2, <2>5, <3>2 DEF Unmoved
      <4>2. QED
        BY <2>2, <3>2, <4>1 DEF OccurrenceInv, RowsAhead, NextOpen
    <3>3. \A row : \A s \in Schedules : schedules[s] # None /\ row = schedules[s] =>
             /\ s \in issued
             /\ row.enabled => /\ Steady(row)
                               /\ Open(s, row.occurrence, row.retry_count + 1)' \/ Unmoved(s)'
      BY <3>1, <3>2 DEF OccurrenceInv, RowsAhead
    <3>4. QED
      BY <1>2, <3>3 DEF RowsAhead, NextOpen, Open, Unmoved, Steady
  <2>7. TaskAhead(a)'
    <3>1. \A d \in due[a] : NextOpen(d.id, d.row)'
      BY <2>1, <2>2 DEF TaskAhead, NextOpen
    <3>2. \A d \in due'[a] : /\ d.id \in issued' /\ Ripe(d.row)' /\ NextOpen(d.id, d.row)'
                             /\ d.id # snapshot'[a].id
                             /\ \A e \in due'[a] : e # d => e.id # d.id
      BY <1>2, <2>1, <3>1 DEF TaskAhead, Ripe
    <3>3. Latest(a)'
      BY <1>1, <1>2 DEF Latest
    <3>4. Ripe(snapshot[a].row)' /\ snapshot'[a].id \in issued'
      BY <1>2, <2>1 DEF Ripe
    <3>5. QED
      BY <1>2, <2>3, <3>2, <3>3, <3>4 DEF TaskAhead, InCall
  <2>8. QED
    BY <2>4, <2>5, <2>6, <2>7 DEF OccurrenceInv
<1>5. QED
  BY <1>3, <1>4 DEF Actors

\* A step of the scheduler that writes no row and takes no other schedule up
LEMMA OccurrenceCarry ==
    ASSUME TypeInv, OneScheduler, OccurrenceInv, NEW w \in Workers,
           UNCHANGED <<now, history, issued, schedules, due, snapshot, audit>>,
           pc[w] \in InCall, pc'[w] \in {"select", "write", "audit"},
           ~failed'[w] => ~failed[w] /\ report'[w] = report[w] /\ pc[w] # "record",
           pc'[w] = "audit" =>
              \A s \in Schedules : s = snapshot[w].id => schedules[s] = None,
           pc'[w] = "write" /\ pending'[w].enabled =>
              /\ Steady(pending'[w])
              /\ Open(snapshot[w].id, pending'[w].occurrence, pending'[w].retry_count + 1)
              /\ ~failed'[w] => Past(snapshot[w].id, pending'[w].occurrence)
    PROVE  OccurrenceInv'
<1>1. \A v \in Workers : v = w
  BY DEF OneScheduler
<1>2. /\ \A s, o, n : Open(s, o, n)' <=> Open(s, o, n)
      /\ \A s, o : Past(s, o)' <=> Past(s, o)
  BY SameHistory, SameExecuted
<1>3. HistoryInOrder'
  BY SameHistory, SameExecuted DEF OccurrenceInv, HistoryInOrder
<1>4. RowsAhead'
  <2>1. \A s \in Schedules : schedules[s] # None /\ Unmoved(s) => Unmoved(s)'
    BY <1>1 DEF Unmoved, InCall
  <2>2. \A row : \A s \in Schedules : schedules[s] # None /\ row = schedules[s] =>
           /\ s \in issued
           /\ row.enabled => /\ Steady(row)
                             /\ Open(s, row.occurrence, row.retry_count + 1)' \/ Unmoved(s)'
    BY <1>2, <2>1 DEF OccurrenceInv, RowsAhead, NextOpen
  <2>3. QED
    BY <2>2 DEF RowsAhead, NextOpen, Open, Unmoved, Steady
<1>5. TaskAhead(w)'
  <2>1. TaskAhead(w)
    BY DEF OccurrenceInv
  <2>2. pc'[w] = "write" /\ pending'[w].enabled =>
           /\ Steady(pending[w])' /\ NextOpen(snapshot[w].id, pending[w])'
           /\ ~failed'[w] => Past(snapshot[w].id, pending[w].occurrence)'
    <3>1. pc'[w] = "write" /\ pending'[w].enabled =>
             Open(snapshot[w].id, pending[w].occurrence, pending[w].retry_count + 1)'
      BY SameExecuted DEF Open
    <3>2. pc'[w] = "write" /\ pending'[w].enabled /\ ~failed'[w] =>
             Past(snapshot[w].id, pending[w].occurrence)'
      BY DEF Past
    <3>3. QED
      BY <3>1, <3>2 DEF NextOpen, Steady
  <2>3. \A d \in due'[w] : /\ d.id \in issued' /\ Ripe(d.row)' /\ NextOpen(d.id, d.row)'
                           /\ d.id # snapshot'[w].id
                           /\ \A e \in due'[w] : e # d => e.id # d.id
    BY <1>2, <2>1 DEF TaskAhead, NextOpen, Ripe
  <2>4. /\ snapshot'[w].id \in issued' /\ Ripe(snapshot[w].row)'
        /\ Open(snapshot[w].id, snapshot[w].row.occurrence, Attempt(w) + 1)'
    <3>1. Open(snapshot[w].id, snapshot[w].row.occurrence, Attempt(w) + 1)
      BY <2>1 DEF TaskAhead
    <3>2. Open(snapshot[w].id, snapshot[w].row.occurrence, Attempt(w) + 1)'
      BY <3>1, SameExecuted DEF Open, Attempt
    <3>3. QED
      BY <2>1, <3>2 DEF TaskAhead, Ripe
  <2>5. ~failed'[w] => Latest(w)'
    BY <2>1 DEF TaskAhead, Latest, InCall
  <2>6. QED
    BY <2>2, <2>3, <2>4, <2>5 DEF TaskAhead, InCall
<1>6. QED
  BY <1>1, <1>3, <1>4, <1>5 DEF OccurrenceInv

LEMMA OccurrenceSelect ==
    ASSUME TypeInv, OneScheduler, OccurrenceInv, NEW w \in Workers, SelectRow(w)
    PROVE  OccurrenceInv'
<1> USE DEF TypeInv
<1> DEFINE id == snapshot[w].id
           slot == snapshot[w].row.occurrence
           args == UpdateArgs(w)
<1>1. /\ UNCHANGED <<now, history, issued, schedules, due, snapshot, audit, failed, report>>
      /\ pc[w] = "select"
      /\ w \in Actors /\ Subject(w) = id /\ id \in Schedules /\ snapshot[w] \in Snapshot
  BY DEF SelectRow, tables, Subject, WellFormed, InCall, Snapshot, Actors
<1>2. IF schedules[id] = None THEN pc'[w] = "audit"
      ELSE pc'[w] = "write" /\ pending'[w] = Merge(schedules[id], args)
  BY <1>1 DEF SelectRow, HasReport, TypeOK
<1>3. /\ now \in Nat /\ slot \in Nat /\ slot <= now /\ None \notin Nat /\ None \notin BOOLEAN
      /\ Open(id, slot, Attempt(w) + 1)
      /\ snapshot[w].row.cron \in Nat \ {0} /\ snapshot[w].row.retry_count \in Nat
      /\ MaxRetries \in Nat \ {0}
  <2>1. snapshot[w].row \in Row /\ now \in Nat
    BY <1>1, ConstantsAssumption DEF TypeOK, Snapshot
  <2>2. slot <= now /\ Open(id, slot, Attempt(w) + 1)
    BY <1>1 DEF OccurrenceInv, TaskAhead, InCall, Ripe
  <2>3. QED
    BY <2>1, <2>2, ConstantsAssumption DEF Row
\* A success moves on past the occurrence, a failure that is retried stays with it.
<1>4. \/ args.enabled # TRUE
      \/ /\ failed[w] /\ args.occurrence = slot /\ args.retry_count = Attempt(w)
         /\ args.next_run_at \in Nat /\ args.next_run_at >= slot /\ Attempt(w) < MaxRetries
      \/ /\ ~failed[w] /\ args.occurrence = args.next_run_at /\ args.retry_count = 0
         /\ args.next_run_at \in Nat /\ args.next_run_at > slot
  <2>1. CASE failed[w] /\ Maxed(snapshot[w].row.retry_count + 1)
    BY <2>1 DEF UpdateArgs, FailureArgs
  <2>2. CASE failed[w] /\ ~Maxed(snapshot[w].row.retry_count + 1)
    <3>1. snapshot[w].row.retry_count + 1 \in 1 .. MaxRetries /\ Attempt(w) < MaxRetries
      BY <1>3, <2>2, ConstantsAssumption DEF Maxed, Attempt
    <3> DEFINE delay == BackoffDelay(snapshot[w].row.retry_count + 1)
               next == args.next_run_at
    <3>2. delay \in Nat \ {0}
      BY <3>1, BackoffAssumption
    <3>3. next = now + delay /\ args.occurrence = slot /\ args.retry_count = Attempt(w)
      BY <2>2 DEF UpdateArgs, FailureArgs, Attempt
    <3> HIDE DEF delay, next
    <3>4. next \in Nat /\ next >= slot
      BY <1>3, <3>2, <3>3
    <3>5. QED
      BY <2>2, <3>1, <3>3, <3>4 DEF next
  <2>3. CASE ~failed[w]
    <3>1. /\ args.next_run_at = NextFire(snapshot[w].row.cron, now)
          /\ args.occurrence = args.next_run_at /\ args.retry_count = 0
      BY <2>3 DEF UpdateArgs, SuccessArgs
    <3> DEFINE next == args.next_run_at
    <3>2. next \in Nat /\ next > now
      BY <1>3, <3>1, NextFireLater
    <3> HIDE DEF next
    <3>3. next > slot
      BY <1>3, <3>2
    <3>4. QED
      BY <2>3, <3>1, <3>2, <3>3 DEF next
  <2>4. QED
    BY <2>1, <2>2, <2>3
<1>5. args.enabled \in BOOLEAN
  BY <1>1 DEF UpdateArgs, FailureArgs, SuccessArgs, Snapshot, Row
<1>6. ASSUME pc'[w] = "write", pending'[w].enabled
      PROVE  /\ Steady(pending'[w])
             /\ Open(id, pending'[w].occurrence, pending'[w].retry_count + 1)
             /\ ~failed[w] => Past(id, pending'[w].occurrence)
  <2>1. pending'[w] = Merge(schedules[id], args)
    BY <1>2, <1>6
  <2>2. args.enabled = TRUE
    <3>1. args.enabled # None
      BY <1>3, <1>5
    <3>2. pending'[w].enabled = Keep(args.enabled, schedules[id].enabled)
      BY <2>1 DEF Merge
    <3>3. pending'[w].enabled = args.enabled
      BY <3>1, <3>2 DEF Keep
    <3>4. QED
      BY <1>5, <1>6, <3>3, Zenon
  <2>3. CASE failed[w]
    <3> DEFINE next == args.next_run_at
               occ == args.occurrence
               retry == args.retry_count
    <3>1. /\ occ = slot /\ next \in Nat /\ next >= slot
          /\ retry = Attempt(w) /\ retry \in Nat /\ retry < MaxRetries
      <4>1. /\ occ = slot /\ next \in Nat /\ next >= slot
            /\ retry = Attempt(w) /\ Attempt(w) < MaxRetries
        BY <1>4, <2>2, <2>3
      <4>2. Attempt(w) \in Nat
        BY <1>3 DEF Attempt
      <4>3. QED
        BY <4>1, <4>2
    <3>2. /\ pending'[w].occurrence = Keep(occ, schedules[id].occurrence)
          /\ pending'[w].next_run_at = Keep(next, schedules[id].next_run_at)
          /\ pending'[w].retry_count = Keep(retry, schedules[id].retry_count)
      BY <2>1 DEF Merge
    <3> HIDE DEF next, occ, retry
    <3>3. /\ pending'[w].occurrence = slot /\ pending'[w].next_run_at = next
          /\ pending'[w].retry_count = retry
      BY <1>3, <3>1, <3>2 DEF Keep
    <3>4. QED
      BY <1>3, <2>3, <3>1, <3>3 DEF Steady
  <2>4. CASE ~failed[w]
    <3> DEFINE next == args.next_run_at
               occ == args.occurrence
               retry == args.retry_count
    <3>1. occ = next /\ next \in Nat /\ next > slot /\ retry = 0
      BY <1>4, <2>2, <2>4
    <3>2. /\ pending'[w].occurrence = Keep(occ, schedules[id].occurrence)
          /\ pending'[w].next_run_at = Keep(next, schedules[id].next_run_at)
          /\ pending'[w].retry_count = Keep(retry, schedules[id].retry_count)
      BY <2>1 DEF Merge
    <3> HIDE DEF next, occ, retry
    <3>3. /\ pending'[w].occurrence = next /\ pending'[w].next_run_at = next
          /\ pending'[w].retry_count = 0
      BY <1>3, <3>1, <3>2 DEF Keep
    <3>4. \A i \in 1 .. Len(history) :
             history[i].by \in Workers => history[i].occurrence \in Nat
      BY DEF OccurrenceInv, HistoryInOrder
    <3>5. Past(id, next)
      BY <1>3, <3>1, <3>4 DEF Past, Open
    <3>6. QED
      BY <1>3, <3>1, <3>3, <3>5, PastIsOpen DEF Steady
  <2>5. QED
    BY <2>3, <2>4
<1>7. pc'[w] \in {"write", "audit"}
  BY <1>2
<1>8. pc'[w] = "audit" => \A s \in Schedules : s = snapshot[w].id => schedules[s] = None
  BY <1>2
<1>9. QED
  BY <1>1, <1>6, <1>7, <1>8, OccurrenceCarry DEF InCall

LEMMA OccurrenceWrite ==
    ASSUME TypeInv, OneScheduler, OccurrenceInv, NEW w \in Workers, WriteRow(w)
    PROVE  OccurrenceInv'
<1> USE DEF TypeInv
<1>1. PICK id \in Schedules : id = snapshot[w].id /\ id = Subject(w)
  BY DEF WriteRow, Subject, WellFormed, InCall, Snapshot, Actors
<1>2. /\ UNCHANGED <<now, history, issued, due, snapshot, audit, failed, report>>
      /\ pc[w] = "write" /\ pc'[w] = "audit"
      /\ schedules'[id] = IF schedules[id] = None THEN None ELSE pending[w]
      /\ \A s \in Schedules : s # id => schedules'[s] = schedules[s]
  BY <1>1 DEF WriteRow, Written, TypeOK, Actors
<1>3. \A v \in Workers : v = w
  BY DEF OneScheduler
<1>4. /\ \A s, o, n : Open(s, o, n)' <=> Open(s, o, n)
      /\ \A s, o : Past(s, o)' <=> Past(s, o)
  BY <1>2, SameHistory, SameExecuted
<1>5. HistoryInOrder'
  BY <1>2, SameHistory, SameExecuted DEF OccurrenceInv, HistoryInOrder
<1>6. /\ TaskAhead(w) /\ id \in issued
      /\ pending[w].enabled =>
            /\ Steady(pending[w]) /\ Open(id, pending[w].occurrence, pending[w].retry_count + 1)
            /\ ~failed[w] => Past(id, pending[w].occurrence)
  BY <1>1, <1>2 DEF OccurrenceInv, TaskAhead, InCall, NextOpen
<1>7. RowsAhead'
  <2>1. ASSUME NEW s \in Schedules, NEW row, row = schedules'[s], row # None, row.enabled
        PROVE  Steady(row) /\ Open(s, row.occurrence, row.retry_count + 1)
    <3>1. CASE s = id
      BY <1>2, <1>6, <2>1, <3>1
    <3>2. CASE s # id
      <4>1. ~Unmoved(s)
        BY <1>1, <1>2, <1>3, <3>2 DEF Unmoved
      <4>2. QED
        BY <1>2, <2>1, <3>2, <4>1 DEF OccurrenceInv, RowsAhead, NextOpen
    <3>3. QED
      BY <3>1, <3>2
  <2>2. \A s \in Schedules : schedules'[s] # None => s \in issued'
    BY <1>2, <1>6 DEF OccurrenceInv, RowsAhead
  <2>3. \A row : \A s \in Schedules : row = schedules'[s] /\ row # None /\ row.enabled
            => Steady(row)' /\ Open(s, row.occurrence, row.retry_count + 1)'
    BY <1>4, <2>1 DEF Steady
  <2>4. QED
    BY <2>2, <2>3 DEF RowsAhead, NextOpen, Open, Steady
<1>8. TaskAhead(w)'
  <2>1. \A d \in due'[w] : /\ d.id \in issued' /\ Ripe(d.row)' /\ NextOpen(d.id, d.row)'
                           /\ d.id # snapshot'[w].id
                           /\ \A e \in due'[w] : e # d => e.id # d.id
    BY <1>2, <1>4, <1>6 DEF TaskAhead, NextOpen, Ripe
  <2>2. /\ snapshot'[w].id \in issued' /\ Ripe(snapshot[w].row)'
        /\ Open(snapshot[w].id, snapshot[w].row.occurrence, Attempt(w) + 1)'
    <3>1. Open(snapshot[w].id, snapshot[w].row.occurrence, Attempt(w) + 1)
      BY <1>2, <1>6 DEF TaskAhead, InCall
    <3>2. Open(snapshot[w].id, snapshot[w].row.occurrence, Attempt(w) + 1)'
      BY <1>2, <3>1, SameExecuted DEF Open, Attempt
    <3>3. QED
      BY <1>2, <1>6, <3>2 DEF TaskAhead, Ripe, InCall
  <2>3. ~failed'[w] => Latest(w)'
    BY <1>2, <1>6 DEF TaskAhead, Latest
  <2>4. ~failed'[w] =>
           \A s \in Schedules :
              s = snapshot'[w].id /\ schedules'[s] # None /\ schedules'[s].enabled
                 => Past(s, schedules[s].occurrence)'
    <3>1. ASSUME ~failed[w], NEW row, row = schedules'[id], row # None, row.enabled
          PROVE  Past(id, row.occurrence)
      BY <1>2, <1>6, <3>1
    <3>2. ASSUME ~failed[w], NEW s \in Schedules, s = id, NEW row, row = schedules'[s],
                 row # None, row.enabled, NEW i \in 1 .. Len(history),
                 history[i].schedule = s, history[i].by \in Workers
          PROVE  history[i].occurrence < row.occurrence
      BY <3>1, <3>2 DEF Past
    <3>3. ASSUME ~failed'[w], NEW s \in Schedules, s = snapshot'[w].id, NEW row,
                 row = schedules'[s], row # None, row.enabled
          PROVE  \A i \in 1 .. Len(history') :
                    history'[i].schedule = s /\ history'[i].by \in Workers
                       => history'[i].occurrence < row.occurrence
      BY <1>1, <1>2, <3>2, <3>3
    <3>4. ASSUME ~failed'[w], NEW s \in Schedules, s = snapshot'[w].id,
                 schedules'[s] # None, schedules'[s].enabled
          PROVE  Past(s, schedules[s].occurrence)'
      BY <3>3, <3>4 DEF Past
    <3>5. QED
      BY <3>4
  <2>5. QED
    BY <1>2, <2>1, <2>2, <2>3, <2>4 DEF TaskAhead, InCall
<1>9. QED
  BY <1>3, <1>5, <1>7, <1>8 DEF OccurrenceInv

\* The scheduler takes up the earliest of the schedules it has left.
LEMMA OccurrenceTake ==
    ASSUME TypeInv, OneScheduler, NEW w \in Workers, HistoryInOrder',
           UNCHANGED <<now, history, issued, schedules>>,
           NEW left \in SUBSET Snapshot, Take(w, left),
           \A row : \A s \in Schedules : row = schedules[s] /\ row # None =>
              /\ s \in issued
              /\ row.enabled => Steady(row) /\ Open(s, row.occurrence, row.retry_count + 1)',
           \A d \in left : /\ d.id \in issued /\ Ripe(d.row)
                           /\ Open(d.id, d.row.occurrence, d.row.retry_count + 1)'
                           /\ \A e \in left : e # d => e.id # d.id
    PROVE  OccurrenceInv'
<1>1. \A v \in Workers : v = w
  BY DEF OneScheduler
<1>3. RowsAhead'
  BY DEF RowsAhead, NextOpen, Open, Steady
<1>4. TaskAhead(w)'
  <2>1. w \in Actors /\ pc'[w] \in {"poll", "record"}
    BY TakeType DEF Actors
  <2>2. CASE pc'[w] = "poll"
    <3>1. due'[w] = {}
      BY <2>1, <2>2 DEF Take, TypeInv, TypeOK
    <3>2. QED
      BY <2>2, <3>1 DEF TaskAhead, InCall
  <2>3. CASE pc'[w] = "record"
    <3>1. PICK first \in left : snapshot'[w] = first /\ due'[w] = left \ {first}
      BY <2>1, <2>3 DEF Take, Earliest, TypeInv, TypeOK
    <3>2. /\ first.row.retry_count \in Nat
          /\ Open(first.id, first.row.occurrence, first.row.retry_count + 1)'
      BY DEF Snapshot, Row
    <3>3. Open(first.id, first.row.occurrence, (first.row.retry_count + 1) + 1)'
      <4>1. \A i \in 1 .. Len(history') : history'[i].attempt \in Nat
        BY DEF HistoryInOrder
      <4>2. QED
        BY <3>2, <4>1 DEF Open
    <3>4. /\ NextOpen(snapshot[w].id, snapshot[w].row)'
          /\ Open(snapshot[w].id, snapshot[w].row.occurrence, Attempt(w) + 1)'
      BY <3>1, <3>2, <3>3 DEF Open, NextOpen, Attempt
    <3>5. \A d \in due'[w] : /\ d.id \in issued' /\ Ripe(d.row)' /\ NextOpen(d.id, d.row)'
                             /\ d.id # snapshot'[w].id
                             /\ \A e \in due'[w] : e # d => e.id # d.id
      BY <3>1 DEF NextOpen, Ripe
    <3>6. snapshot'[w].id \in issued' /\ Ripe(snapshot[w].row)'
      BY <3>1 DEF Ripe
    <3>7. QED
      BY <2>3, <3>4, <3>5, <3>6 DEF TaskAhead, InCall
  <2>4. QED
    BY <2>1, <2>2, <2>3
<1>5. QED
  BY <1>1, <1>3, <1>4 DEF OccurrenceInv

\* The audit event of an attempt: when it succeeded, its report is executed, and
\* nothing is open for that report's schedule but later occurrences.
LEMMA OccurrenceFinish ==
    ASSUME TypeInv, LedgerInv, OneScheduler, OccurrenceInv, NEW w \in Workers, FinishAttempt(w)
    PROVE  OccurrenceInv'
<1> USE DEF TypeInv
<1>1. /\ pc[w] = "audit" /\ Take(w, due[w]) /\ UNCHANGED <<now, history, issued, schedules>>
      /\ audit' = audit \cup {AttemptEvent(w)} /\ due[w] \in SUBSET Snapshot /\ w \in Actors
  BY DEF FinishAttempt, TypeOK, Actors
<1>2. /\ TaskAhead(w) /\ \A v \in Workers : v = w
      /\ \A s : ~Unmoved(s)
  BY <1>1 DEF OccurrenceInv, OneScheduler, Unmoved
<1>3. CASE failed[w]
  <2>1. AttemptEvent(w).action # "execute"
    BY <1>3 DEF AttemptEvent
  <2>2. \A i : Executed(i)' <=> Executed(i)
    BY <1>1, <2>1 DEF Executed
  <2>3. /\ \A s, o, n : Open(s, o, n)' <=> Open(s, o, n)
        /\ HistoryInOrder'
    BY <1>1, <2>2, SameHistory DEF OccurrenceInv, HistoryInOrder
  <2>4. \A row : \A s \in Schedules : row = schedules[s] /\ row # None =>
           /\ s \in issued
           /\ row.enabled => Steady(row) /\ Open(s, row.occurrence, row.retry_count + 1)'
    BY <1>2, <2>3 DEF OccurrenceInv, RowsAhead, NextOpen
  <2>5. \A d \in due[w] : /\ d.id \in issued /\ Ripe(d.row)
                          /\ Open(d.id, d.row.occurrence, d.row.retry_count + 1)'
                          /\ \A e \in due[w] : e # d => e.id # d.id
    BY <1>2, <2>3 DEF TaskAhead, NextOpen
  <2>6. QED
    BY <1>1, <2>3, <2>4, <2>5, OccurrenceTake
<1>4. CASE ~failed[w]
  <2> DEFINE id == snapshot[w].id
             mine == report[w]
  <2>1. /\ AttemptEvent(w).action = "execute" /\ AttemptEvent(w).report = mine
    BY <1>4 DEF AttemptEvent
  <2>2. /\ mine \in 1 .. Len(history) /\ history[mine].schedule = id
        /\ Len(history) \in Nat
    BY <1>1, <1>4 DEF LedgerInv, Holding, Produced, Subject, TypeOK
  <2>3. \A i : Executed(i)' => Executed(i) \/ i = mine
    BY <1>1, <2>1 DEF Executed
  <2>4. /\ \A j \in 1 .. Len(history) :
              j > mine /\ history[j].by \in Workers => history[j].schedule # id
        /\ \A s \in Schedules : s = id /\ schedules[s] # None /\ schedules[s].enabled
              => Past(s, schedules[s].occurrence)
    BY <1>1, <1>2, <1>4 DEF TaskAhead, Latest
  <2> HIDE DEF id, mine
  <2>5. \A s, o, n : s # id /\ Open(s, o, n) => Open(s, o, n)'
    BY <1>1, <2>2, <2>3 DEF Open
  <2>6. \A s, o, n : Past(s, o) => Open(s, o, n)'
    BY <1>1 DEF Past, Open
  <2>7. HistoryInOrder'
    <3>1. ASSUME NEW i \in 1 .. Len(history), NEW j \in 1 .. Len(history), i < j,
                 history[i].schedule = history[j].schedule,
                 {history[i].by, history[j].by} \subseteq Workers
          PROVE  \/ history[i].occurrence < history[j].occurrence
                 \/ /\ history[i].occurrence = history[j].occurrence
                    /\ history[i].attempt < history[j].attempt
                    /\ history[j].attempt <= MaxRetries
                    /\ ~Executed(i)'
      <4>1. i # mine
        BY <2>2, <2>4, <3>1
      <4>2. QED
        BY <2>3, <3>1, <4>1 DEF OccurrenceInv, HistoryInOrder, OncePerOccurrence
    <3>2. OncePerOccurrence'
      BY <1>1, <3>1 DEF OncePerOccurrence
    <3>3. QED
      BY <1>1, <3>2 DEF OccurrenceInv, HistoryInOrder
  <2>8. \A row : \A s \in Schedules : row = schedules[s] /\ row # None =>
           /\ s \in issued
           /\ row.enabled => Steady(row) /\ Open(s, row.occurrence, row.retry_count + 1)'
    <3>1. ASSUME NEW row, NEW s \in Schedules, row = schedules[s], row # None
          PROVE  /\ s \in issued
                 /\ row.enabled => /\ Steady(row)
                                   /\ Open(s, row.occurrence, row.retry_count + 1)
                                   /\ s = id => Past(s, row.occurrence)
      BY <1>2, <2>4, <3>1 DEF OccurrenceInv, RowsAhead, NextOpen
    <3>2. QED
      BY <2>5, <2>6, <3>1
  <2>9. \A d \in due[w] : /\ d.id \in issued /\ Ripe(d.row)
                          /\ Open(d.id, d.row.occurrence, d.row.retry_count + 1)'
                          /\ \A e \in due[w] : e # d => e.id # d.id
    BY <1>2, <2>5 DEF TaskAhead, NextOpen, id
  <2>10. QED
    BY <1>1, <2>7, <2>8, <2>9, OccurrenceTake
<1>5. QED
  BY <1>3, <1>4

LEMMA OccurrenceScheduler ==
    ASSUME TypeInv, OneScheduler, OccurrenceInv, NEW w \in Workers, crashes' = 0,
           Poll(w) \/ SchedulerFault(w) \/ Restart(w)
    PROVE  OccurrenceInv'
<1> USE DEF TypeInv
<1>0. w \in Actors /\ \A v \in Workers : v = w
  BY DEF Actors, OneScheduler
<1>2. CASE Poll(w)
  <2> DEFINE found == {[id |-> s, row |-> schedules[s]] : s \in {s \in Schedules : Listed(s)}}
  <2>1. /\ pc[w] = "poll" /\ Take(w, found)
        /\ UNCHANGED <<now, history, issued, schedules, audit>>
    BY <1>2 DEF Poll, tables
  <2>2. /\ \A s, o, n : Open(s, o, n)' <=> Open(s, o, n)
        /\ HistoryInOrder'
    BY <2>1, SameHistory, SameExecuted DEF OccurrenceInv, HistoryInOrder
  <2>3. \A s : ~Unmoved(s)
    BY <1>0, <2>1 DEF Unmoved
  <2>4. \A row : \A s \in Schedules : row = schedules[s] /\ row # None =>
           /\ s \in issued
           /\ row.enabled => Steady(row) /\ Open(s, row.occurrence, row.retry_count + 1)'
    BY <2>2, <2>3 DEF OccurrenceInv, RowsAhead, NextOpen
  <2>5. found \in SUBSET Snapshot
    BY DEF TypeOK, Listed, Snapshot
  <2>6. \A d \in found : /\ d.id \in issued /\ Ripe(d.row)
                         /\ Open(d.id, d.row.occurrence, d.row.retry_count + 1)'
                         /\ \A e \in found : e # d => e.id # d.id
    <3>1. ASSUME NEW s \in Schedules, Listed(s)
          PROVE  /\ s \in issued /\ Ripe(schedules[s])
                 /\ Steady(schedules[s])
      <4>1. schedules[s] \in Row /\ now \in Nat /\ MaxRetries \in Nat
        BY <3>1, ConstantsAssumption DEF Listed, TypeOK
      <4>2. schedules[s].next_run_at <= now /\ s \in issued /\ Steady(schedules[s])
        BY <2>4, <3>1 DEF Listed
      <4>3. QED
        BY <4>1, <4>2 DEF Ripe, Steady, Row
    <3>2. \A d \in found : d.id \in Schedules /\ Listed(d.id) /\ d.row = schedules[d.id]
                           /\ d = [id |-> d.id, row |-> d.row]
      OBVIOUS
    <3>3. \A d \in found : d.row # None /\ d.row.enabled
      BY <3>2 DEF Listed
    <3> HIDE DEF found
    <3>4. \A d \in found : Open(d.id, d.row.occurrence, d.row.retry_count + 1)'
      BY <2>4, <3>2, <3>3
    <3>5. QED
      BY <3>1, <3>2, <3>4
  <2> HIDE DEF found
  <2>7. QED
    BY <2>1, <2>2, <2>4, <2>5, <2>6, OccurrenceTake
<1>4. CASE SchedulerFault(w)
  <2>1. UNCHANGED <<now, history, issued, schedules, audit>> /\ pc[w] \in InCall \cup {"poll"}
    BY <1>4 DEF SchedulerFault, tables, InCall
  <2>2. CASE pc'[w] = "select"
    <3>1. UNCHANGED <<due, snapshot>> /\ pc[w] \in InCall /\ failed'[w]
      BY <1>0, <1>4, <2>1, <2>2 DEF SchedulerFault, TypeOK
    <3>2. QED
      BY <2>1, <2>2, <3>1, OccurrenceCarry
  <2>3. CASE pc'[w] = "dead"
    <3>1. due'[w] = {}
      BY <1>0, <1>4, <2>3 DEF SchedulerFault, TypeOK
    <3>2. HistoryInOrder'
      BY <2>1, SameHistory, SameExecuted DEF OccurrenceInv, HistoryInOrder
    <3>3. RowsAhead'
      BY <2>1, <2>3 DEF OccurrenceInv, RowsAhead, Unmoved, Steady
    <3>4. TaskAhead(w)'
      BY <2>3, <3>1 DEF TaskAhead, InCall
    <3>5. QED
      BY <1>0, <3>2, <3>3, <3>4 DEF OccurrenceInv
  <2>4. QED
    BY <1>0, <1>4, <2>2, <2>3 DEF SchedulerFault, TypeOK
<1>5. CASE Restart(w)
  BY <1>5, ConstantsAssumption DEF Restart, TypeOK
<1>6. QED
  BY <1>2, <1>4, <1>5

LEMMA OccurrenceRequest ==
    ASSUME TypeInv, OnlyRunsMove, OccurrenceInv, NEW r \in Requests,
           \/ Arrive(r) \/ Respond(r) \/ RequestFault(r)
           \/ StoreArtifact(r) \/ SelectRow(r) \/ WriteRow(r)
    PROVE  OccurrenceInv'
<1> USE DEF TypeInv
<1>0. r \in Actors /\ r \notin Workers
  BY ConstantsAssumption DEF Actors
<1>1. ~SelectRow(r) /\ ~WriteRow(r) /\ ~Put(r) /\ ~RunNow(r)
  <2>1. pc[r] \notin {"select", "write"}
    BY DEF OnlyRunsMove, WellFormed, InCall, Request
  <2>2. QED
    BY <2>1 DEF SelectRow, WriteRow, Put, RunNow, Ask, OnlyRunsMove
<1>2. now' = now /\ now \in Nat /\ history' = history
  BY <1>1 DEF Arrive, Generate, Create, Delete, Respond, RequestFault, StoreArtifact, tables, TypeOK
<1>3. \A w \in Workers : /\ pc'[w] = pc[w] /\ due'[w] = due[w]
                         /\ snapshot'[w] = snapshot[w] /\ pending'[w] = pending[w]
                         /\ failed'[w] = failed[w] /\ report'[w] = report[w]
  BY <1>0, <1>1 DEF Arrive, Generate, Create, Delete, Respond, RequestFault, StoreArtifact,
     TypeOK, Actors
<1>4. /\ issued \subseteq issued'
      /\ \A s \in Schedules : \/ schedules'[s] \in {schedules[s], None}
                              \/ s \in issued' \ issued /\ Steady(schedules'[s])
  <2>1. CASE Create(r)
    <3>1. PICK s \in Schedules \ issued, cron \in Crons, enabled \in BOOLEAN, start \in Starts :
             /\ schedules' = [schedules EXCEPT ![s] = NewRow(cron, enabled, start)]
             /\ issued' = issued \cup {s}
      BY <2>1 DEF Create
    <3>2. Steady(NewRow(cron, enabled, start))
      <4> DEFINE row == NewRow(cron, enabled, start)
      <4>1. row.next_run_at \in Nat /\ row.occurrence = row.next_run_at /\ row.retry_count = 0
        BY <1>2, NewRowType DEF NewRow, Row
      <4> HIDE DEF row
      <4>2. QED
        BY <4>1, ConstantsAssumption DEF Steady, row
    <3>3. QED
      BY <3>1, <3>2 DEF TypeOK
  <2>2. CASE ~Create(r)
    BY <1>1, <2>2 DEF Arrive, Generate, Delete, Respond, RequestFault, StoreArtifact, tables, TypeOK
  <2>3. QED
    BY <2>1, <2>2
<1>5. /\ audit \subseteq audit'
      /\ \A e \in audit' : e \in audit \/ e.action # "execute"
  <2>1. CASE Respond(r)
    <3>1. request[r].op # "execute"
      BY <2>1, ConstantsAssumption DEF Respond, WellFormed, InCall, Request
    <3>2. QED
      BY <2>1, <3>1 DEF Respond
  <2>2. CASE ~Respond(r)
    BY <1>1, <2>2 DEF Arrive, Generate, Create, Delete, RequestFault, StoreArtifact, tables
  <2>3. QED
    BY <2>1, <2>2
<1>6. \A i : Executed(i)' <=> Executed(i)
  BY <1>5, SameExecuted
<1>7. QED
  BY <1>2, <1>3, <1>4, <1>6, OccurrenceQuiet

LEMMA OccurrenceStep ==
    OneScheduler /\ OnlyRunsMove /\ TypeInv /\ LedgerInv /\ OccurrenceInv /\ [Next]_vars
       /\ crashes' = 0 => OccurrenceInv'
<1> SUFFICES ASSUME OneScheduler, OnlyRunsMove, TypeInv, LedgerInv, OccurrenceInv, [Next]_vars,
                    crashes' = 0
             PROVE  OccurrenceInv'
  OBVIOUS
<1>1. ASSUME NEW w \in Workers, StoreArtifact(w)
      PROVE  OccurrenceInv'
  <2>1. /\ UNCHANGED <<now, history, issued, schedules, due, snapshot, audit, failed, report>>
        /\ pc[w] = "store" /\ Subject(w) # None
    BY <1>1, ConstantsAssumption DEF StoreArtifact, Subject, TypeInv, WellFormed, InCall, Snapshot
  <2>2. pc'[w] = "select"
    BY <1>1, <2>1 DEF StoreArtifact, TypeInv, TypeOK, Actors
  <2>3. QED
    BY <2>1, <2>2, OccurrenceCarry DEF InCall
<1>2. CASE \E w \in Workers : Scheduler(w) \/ SchedulerFault(w) \/ Restart(w)
  BY <1>1, <1>2, OccurrenceScheduler, OccurrenceFinish, OccurrenceRecord, OccurrenceSelect,
     OccurrenceWrite DEF Scheduler, SharedCall, Actors
<1>3. CASE \E r \in Requests : Arrive(r) \/ Handler(r) \/ RequestFault(r)
  BY <1>3, OccurrenceRequest, OccurrenceRecord DEF Handler, SharedCall, Actors
<1>4. CASE Tick \/ UNCHANGED vars
  <2>1. \A i : Executed(i)' <=> Executed(i)
    BY <1>4, SameExecuted DEF Tick, vars, tables
  <2>2. QED
    BY <1>4, <2>1, OccurrenceQuiet, ConstantsAssumption
       DEF Tick, vars, tables, locals, budget, TypeInv, TypeOK
<1>5. QED
  BY <1>2, <1>3, <1>4 DEF Next

\* One scheduler reports the occurrences of a schedule in order (run_scheduler):
\* what it lists is open, and it does not list a schedule again before it has
\* moved it on to a later occurrence, or to a later attempt at this one when a
\* call raised, or disabled it.  A run that reached its audit event is never
\* repeated; an attempt that raised after its report was recorded is, and the
\* occurrence then has several reports, MaxRetries at most.
THEOREM RunsInOrder == OneScheduler /\ OnlyRunsMove => (Spec => [](crashes = 0 => OncePerOccurrence))
<1> SUFFICES ASSUME OneScheduler, OnlyRunsMove PROVE Spec => [](crashes = 0 => OncePerOccurrence)
  OBVIOUS
<1>1. Init => OccurrenceInv
  <2> SUFFICES ASSUME Init PROVE OccurrenceInv
    OBVIOUS
  <2>1. HistoryInOrder /\ \A s, o, n : Open(s, o, n)
    BY DEF Init, HistoryInOrder, OncePerOccurrence, Open
  <2>2. RowsAhead
    <3>1. PICK existing \in SUBSET Schedules, cron \in [Schedules -> Crons],
               start \in [Schedules -> Starts] :
             /\ schedules = [s \in Schedules |-> IF s \in existing
                                                THEN NewRow(cron[s], TRUE, start[s]) ELSE None]
             /\ issued = existing
      BY DEF Init
    <3>2. \A s \in Schedules : Steady(NewRow(cron[s], TRUE, start[s]))
      <4>1. now \in Nat /\ MaxRetries \in Nat \ {0}
        BY ConstantsAssumption DEF Init
      <4>2. ASSUME NEW s \in Schedules, NEW row, row = NewRow(cron[s], TRUE, start[s])
            PROVE  Steady(row)
        <5>1. row \in Row
          BY <4>1, <4>2, NewRowType
        <5>2. row.occurrence = row.next_run_at /\ row.retry_count = 0
          BY <4>2 DEF NewRow
        <5>3. QED
          BY <4>1, <5>1, <5>2 DEF Steady, Row
      <4>3. QED
        BY <4>2
    <3>3. QED
      BY <2>1, <3>1, <3>2 DEF RowsAhead, NextOpen
  <2>3. \A w \in Workers : TaskAhead(w)
    BY DEF Init, TaskAhead, InCall, Actors
  <2>4. QED
    BY <2>1, <2>2, <2>3 DEF OccurrenceInv
<1>2. TypeInv /\ LedgerInv /\ (crashes = 0 => OccurrenceInv) /\ [Next]_vars
        => (crashes = 0 => OccurrenceInv)'
  BY OccurrenceStep, CrashesGrow
<1>3. OccurrenceInv => OncePerOccurrence
  BY DEF OccurrenceInv, HistoryInOrder
<1>4. QED
  BY <1>1, <1>2, <1>3, LedgerInit, LedgerStep, TypeCorrect, PTL DEF Spec
=============================================================================
