---------------------------- MODULE DastCoverage ----------------------------
(***************************************************************************)
(* The page coverage of DAST scans (services/asoc_read_service.py).        *)
(*                                                                         *)
(* A list of scans often lacks the number of visited pages.  Whoever reads *)
(* scans has them hydrated: known numbers come from a cache, the missing   *)
(* ones are fetched scan by scan in a background refresh, which the caller *)
(* waits for.  Cache, cursor and refresh are module-level: the services of *)
(* all data sources in a process share them.                               *)
(*                                                                         *)
(* A number of pages is known (positive) or not.  Cached values and waits  *)
(* count down: an entry whose time has run out is as good as none.  The    *)
(* cache lock is held over no await, so what it guards is one action.      *)
(***************************************************************************)
EXTENDS Naturals, FiniteSets

CONSTANTS
    Sources,        \* data sources, each with its client
    Primary,        \* the first one
    Scans,
    Created,        \* when each scan was created, no two at a time
    Owner,          \* the data source a scan belongs to
    Visited,        \* the scans whose data source knows their visited pages
    Callers,        \* coroutines that hydrate scans
    Refreshes,      \* refresh tasks that can run at a time (a bound)
    Limit,          \* _DAST_PAGE_REFRESH_LIMIT
    Recent,         \* 20, the scans that are always refreshed first
    CoverageTtl,    \* _DAST_PAGE_CACHE_TTL_SECONDS
    ErrorTtl,       \* _DAST_PAGE_ERROR_TTL_SECONDS
    RefreshTimeout, \* _DAST_PAGE_REFRESH_TIMEOUT_SECONDS
    Grace,          \* how much longer a caller waits: 5 seconds
    MaxFaults,      \* bound: refreshes that time out or lose fetches
    None

Refresh == [client : Sources, scans : SUBSET Scans, left : Nat]
Wait    == [on : Refreshes, left : Nat]

ASSUME CoverageAssumption ==
    /\ Primary \in Sources
    /\ IsFiniteSet(Scans) /\ Scans # {} /\ Created \in [Scans -> Nat]
    /\ \A s, t \in Scans : Created[s] = Created[t] => s = t
    /\ Owner \in [Scans -> Sources] /\ Visited \subseteq Scans
    /\ None \notin Refreshes /\ None \notin Refresh /\ None \notin Wait
    /\ Limit \in Nat \ {0} /\ Recent \in Nat
    /\ CoverageTtl \in Nat \ {0} /\ ErrorTtl \in 1 .. CoverageTtl
    /\ RefreshTimeout \in Nat \ {0} /\ Grace \in Nat \ {0} /\ MaxFaults \in Nat

VARIABLES
    cache,      \* _DAST_PAGE_CACHE
    cursor,     \* _DAST_PAGE_REFRESH_CURSOR
    task,       \* _DAST_PAGE_REFRESH_TASK: a refresh, running or done, or None
    running,    \* the refreshes that run
    waiting,    \* the callers in phase 3, with the refresh they wait for
    faults

vars == <<cache, cursor, task, running, waiting, faults>>

Unknown == [known |-> FALSE, left |-> 0]

Init ==
    /\ cache = [s \in Scans |-> Unknown]
    /\ cursor = 0
    /\ task = None
    /\ running = [r \in Refreshes |-> None]
    /\ waiting = [c \in Callers |-> None]
    /\ faults = 0

Owned(src) == {s \in Scans : Owner[s] = src}

\* The entry has not expired.
Fresh(s) == cache[s].left > 0

Covered(s) == Fresh(s) /\ cache[s].known

----------------------------------------------------------------------------
(* Choosing the scans of a refresh.  prepared: the scans that need one *)

Smaller(a, b) == IF a < b THEN a ELSE b

Window(prepared) == Smaller(Limit, Cardinality(prepared))

\* How many of the window are the most recent ones.
Priority(prepared) == Smaller(Recent, Window(prepared))

Newer(prepared, s) == {t \in prepared : Created[t] > Created[s]}

\* The index of a scan in the list, which is sorted newest first.
Index(prepared, s) == Cardinality(Newer(prepared, s))

\* How far a scan lies behind the cursor, around the end.
Behind(prepared, s) ==
    LET start == cursor % Cardinality(prepared)
        index == Index(prepared, s)
    IN  IF index >= start THEN index - start ELSE index + Cardinality(prepared) - start

\* The others that the loop meets before it.
Before(prepared, s) ==
    {t \in prepared : /\ Index(prepared, t) >= Priority(prepared)
                      /\ Behind(prepared, t) < Behind(prepared, s)}

\* The most recent scans, then the first others from the cursor on.
Chosen(prepared, s) ==
    \/ Index(prepared, s) < Priority(prepared)
    \/ Cardinality(Before(prepared, s)) < Window(prepared) - Priority(prepared)

Selected_Unwrapped(prepared) ==
    {s \in prepared : Chosen(prepared, s)
                      /\ (Index(prepared, s) >= Recent => Index(prepared, s) >= cursor)}

Selected(prepared) == {s \in prepared : Chosen(prepared, s)}

NextCursor_Unwrapped(prepared) == cursor + Window(prepared)

\* The cursor moves by the whole window, of which the most recent scans are a part.
NextCursor(prepared) ==
    IF prepared = {} THEN cursor
    ELSE ((cursor % Cardinality(prepared)) + Window(prepared)) % Cardinality(prepared)

----------------------------------------------------------------------------
(* Hydration *)

Busy_Never == FALSE

Busy_DoneToo == task # None

\* A refresh runs.  One that timed out leaves a done task behind.
Busy == task # None /\ running[task] # None

Patience_Equal == RefreshTimeout

\* How long a caller waits for a refresh.
Patience == RefreshTimeout + Grace

\* The scans of a call that have a coverage, from the list or from the cache.
Shown(ids, known) == known \cup {s \in ids : Covered(s)}

Prepared(ids, known) == {s \in ids : s \notin Shown(ids, known) /\ ~Fresh(s)}

\* Coverage that is shown is cached again with its full time, also when it
\* came from the cache.
Remember(ids, known) ==
    cache' = [s \in Scans |-> IF s \in Shown(ids, known)
                              THEN [known |-> TRUE, left |-> CoverageTtl]
                              ELSE cache[s]]

Starts(ids, known) == Prepared(ids, known) # {} /\ ~Busy

\* hydrate_dast_page_coverage of the service of src for the scans ids, of which
\* the list gives the coverage of known.  A refresh is started unless one runs;
\* the cursor moves either way.  The caller then waits for the one that runs.
Hydrate(c, src, ids, known) ==
    /\ waiting[c] = None
    /\ Remember(ids, known)
    /\ cursor' = NextCursor(Prepared(ids, known))
    /\ \/ /\ Starts(ids, known)
          /\ \E r \in Refreshes :
                /\ running[r] = None
                /\ running' = [running EXCEPT ![r] =
                     [client |-> src, scans |-> Selected(Prepared(ids, known)),
                      left |-> RefreshTimeout]]
                /\ task' = r
                /\ waiting' = [waiting EXCEPT ![c] = [on |-> r, left |-> Patience]]
       \/ /\ ~Starts(ids, known)
          /\ waiting' = IF Busy
                        THEN [waiting EXCEPT ![c] = [on |-> task, left |-> Patience]]
                        ELSE waiting
          /\ UNCHANGED <<running, task>>
    /\ UNCHANGED faults

\* The callers: list_scans and aggregate_base_data for each source with its own
\* service and a list of its scans, all of them or those the listing gave, and
\* _get_base_data, which hydrates cached scans, of whichever sources, with the
\* service of the first.
HydrateList(c, src, ids) ==
    \E known \in SUBSET (ids \cap Visited) : Hydrate(c, src, ids, known)

HydrateBaseData(c, ids) ==
    \E known \in SUBSET (ids \cap Visited) : Hydrate(c, Primary, ids, known)

\* A caller is cancelled, or gives up, while the refresh runs.  The refresh is
\* shielded, and the caller swallows the exception and answers.
Leave(c) ==
    /\ waiting[c] # None
    /\ waiting' = [waiting EXCEPT ![c] = None]
    /\ UNCHANGED <<cache, cursor, task, running, faults>>

----------------------------------------------------------------------------
(* The refresh *)

\* Refresh r ends: its callers apply the cache once more and answer.
End(r) ==
    /\ running' = [running EXCEPT ![r] = None]
    /\ waiting' = [c \in Callers |->
         IF waiting[c] # None /\ waiting[c].on = r THEN None ELSE waiting[c]]

\* All fetches have ended.  A scan is found when the data source of the client
\* has it and knows its pages, and its fetches did not fail.
Deliver(r) ==
    /\ running[r] # None
    /\ \E failed \in SUBSET running[r].scans :
          /\ failed # {} => faults < MaxFaults
          /\ faults' = IF failed = {} THEN faults ELSE faults + 1
          /\ LET found == {s \in running[r].scans \ failed :
                              s \in Visited /\ Owner[s] = running[r].client}
             IN  cache' = [s \in Scans |->
                    IF s \in found THEN [known |-> TRUE, left |-> CoverageTtl]
                    ELSE IF s \in running[r].scans THEN [known |-> FALSE, left |-> ErrorTtl]
                    ELSE cache[s]]
    /\ task' = None
    /\ End(r)
    /\ UNCHANGED cursor

\* The fetches take too long: all results are dropped.  The task that ends is
\* not done yet, so it is another one that the handler may take away.
TimeOut(r) ==
    /\ running[r] # None
    /\ running[r].left = 0
    /\ task' = IF Busy THEN task ELSE None
    /\ faults' = faults + 1
    /\ End(r)
    /\ UNCHANGED <<cache, cursor>>

Less(n) == IF n = 0 THEN 0 ELSE n - 1

\* Time passes.  A timeout happens when it is due, and only MaxFaults are.
Tick ==
    /\ \A r \in Refreshes : running[r] # None =>
          running[r].left > (IF faults < MaxFaults THEN 0 ELSE 1)
    /\ cache' = [s \in Scans |-> IF cache[s].left <= 1 THEN Unknown
                                 ELSE [cache[s] EXCEPT !.left = @ - 1]]
    /\ running' = [r \in Refreshes |-> IF running[r] = None THEN None
                                       ELSE [running[r] EXCEPT !.left = @ - 1]]
    /\ waiting' = [c \in Callers |-> IF waiting[c] = None THEN None
                                     ELSE [waiting[c] EXCEPT !.left = Less(@)]]
    /\ UNCHANGED <<cursor, task, faults>>

Next ==
    \/ \E c \in Callers, src \in Sources : \E ids \in SUBSET Owned(src) : HydrateList(c, src, ids)
    \/ \E c \in Callers, ids \in SUBSET Scans : HydrateBaseData(c, ids)
    \/ \E c \in Callers : Leave(c)
    \/ \E r \in Refreshes : Deliver(r) \/ TimeOut(r)
    \/ Tick

Spec == Init /\ [][Next]_vars

\* A fetch ends after six seconds at the latest and the event loop goes on.
Fairness == \A r \in Refreshes : WF_vars(Deliver(r) \/ TimeOut(r))

FairSpec == Spec /\ Fairness

----------------------------------------------------------------------------
(* Properties *)

\* Refreshes and waits are well formed and the cursor is a position in some list
\* of scans, whatever list it was last computed for.
TypeOK ==
    /\ cache \in [Scans -> [known : BOOLEAN, left : 0 .. CoverageTtl]]
    /\ cursor \in 0 .. Cardinality(Scans) - 1
    /\ task \in Refreshes \cup {None}
    /\ running \in [Refreshes -> {None} \cup
          [client : Sources, scans : SUBSET Scans, left : 0 .. RefreshTimeout]]
    /\ waiting \in [Callers -> {None} \cup
          [on : Refreshes, left : 0 .. RefreshTimeout + Grace]]
    /\ faults \in 0 .. MaxFaults

\* However many services and callers hydrate at a time, one refresh runs, and it
\* is the one the module remembers: the data sources are not asked twice at once.
OneRefresh == \A r \in Refreshes : running[r] # None => task = r

\* No caller's patience ends while the refresh runs that it waits for, also when
\* it joined a refresh that others had started: whoever is not cancelled answers
\* with the results of the refresh (_DAST_PAGE_REFRESH_TIMEOUT_SECONDS + 5.0).
PatienceSuffices ==
    \A c \in Callers : waiting[c] # None =>
        running[waiting[c].on] # None /\ waiting[c].left > 0

\* Wherever earlier calls with other lists left the cursor, a refresh takes as
\* many of the scans that need one as the limit allows, and the scans it leaves out
\* are older than as many that it takes as are always refreshed first (the loop of
\* _schedule_dast_coverage_refresh).
WindowFilled ==
    \A ids \in SUBSET Scans :
        LET prepared == Prepared(ids, {})
            selected == Selected(prepared)
        IN  /\ Cardinality(selected) = Window(prepared)
            /\ \A s \in prepared \ selected :
                  Cardinality(Newer(selected, s)) >= Priority(prepared)

\* The service of its data source hydrates a list with scan s, which the cache
\* knows nothing of, while no refresh runs.
Asked(s) ==
    /\ \E c \in Callers, ids \in SUBSET Owned(Owner[s]) :
          s \in ids /\ HydrateList(c, Owner[s], ids)
    /\ ~Fresh(s) /\ ~Fresh(s)'
    /\ \A r \in Refreshes : running[r] = None

\* A scan with visited pages that is asked for again and again is covered again
\* and again, also after refreshes that timed out, with callers that come and go,
\* if a list of its data source fits in the window.
AskedIsCovered ==
    \A s \in Visited : Cardinality(Owned(Owner[s])) <= Limit =>
        ([]<><<Asked(s)>>_vars => []<>Covered(s))
=============================================================================
