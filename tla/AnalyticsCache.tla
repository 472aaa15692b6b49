---------------------------- MODULE AnalyticsCache ----------------------------
(***************************************************************************)
(* The analytics cache of api/v1/routes/analytics.py and the prewarm       *)
(* worker (workers/analytics_prewarm.py).                                  *)
(*                                                                         *)
(* A view of the dashboard (a cache key: the user's role and groups and    *)
(* the filters) is answered from a snapshot in the analytics_snapshots     *)
(* table, which all worker processes share.  Snapshots are built from the  *)
(* base data, everything the data sources hold, which each process caches  *)
(* in memory.  A process is one asyncio event loop: what happens between   *)
(* two awaits is one action.  asyncio locks, one per cache key and one for *)
(* the base data, are held across awaits.                                  *)
(*                                                                         *)
(* The contents of the data sources are a version number that grows; 0     *)
(* stands for no data at all: sources that do not answer are skipped, so   *)
(* when none does the base data is empty, not an error.  Time is abstract. *)
(***************************************************************************)
EXTENDS Naturals, FiniteSets, Sequences

CONSTANTS
    Keys,           \* cache keys
    Default,        \* those of views without any filter
    Scoped,         \* those of views filtered by group, application or name
    Processes,      \* worker processes
    Slots,          \* bound: tasks a process runs at a time, besides the worker
    Prewarmer,      \* the task of the prewarm worker
    SnapshotTtl,    \* settings.analytics_cache_ttl_seconds, at least 15
    HollowTtl,      \* 30 seconds
    BaseTtl,        \* three times the snapshot TTL, at least 900 seconds
    Coalesce,       \* _FORCED_REFRESH_COALESCE_SECONDS
    CleanupInterval, Retention,
    PrewarmEnabled, \* settings.analytics_prewarm_enabled
    PrewarmInterval,
    LocksMax,       \* _CACHE_LOCKS_MAX
    Evicted,        \* how many locks an eviction drops
    FirstVersions,  \* what the data sources may hold when the program starts
    MaxViews,       \* bound: requests
    MaxVersion,     \* bound: changes of the data sources
    MaxTime,        \* bound: the last instant
    MaxFaults,      \* bound: exceptions, and fetches that no source answers
    None

Tasks == Processes \X (Slots \cup {Prewarmer})

Process(t) == t[1]

ASSUME CacheAssumption ==
    /\ Default \subseteq Keys /\ Scoped \subseteq Keys /\ Default \cap Scoped = {}
    /\ Prewarmer \notin Slots
    /\ None \notin Keys /\ None \notin Nat /\ None \notin Tasks
    /\ HollowTtl \in Nat \ {0} /\ SnapshotTtl \in Nat \ {0} /\ BaseTtl \in Nat \ {0}
    /\ Coalesce \in Nat /\ CleanupInterval \in Nat /\ Retention \in Nat
    /\ PrewarmEnabled \in BOOLEAN /\ PrewarmInterval \in Nat \ {0}
    /\ LocksMax \in Nat \ {0} /\ Evicted \in 1 .. LocksMax
    /\ FirstVersions \subseteq Nat /\ MaxViews \in Nat
    /\ MaxVersion \in Nat /\ MaxTime \in Nat /\ MaxFaults \in Nat

\* A deployment has so many processes, and a run so many tasks and views.
ASSUME FinitenessAssumption == IsFiniteSet(Processes) /\ IsFiniteSet(Slots) /\ IsFiniteSet(Keys)

VARIABLES
    now,
    upstream,   \* version of the data sources' contents, 0 while none answers
    faults,
    views,      \* requests so far
    snapshots,  \* table analytics_snapshots
    base,       \* _BASE_DATA_CACHE of each process
    baseLock,   \* the task that holds _BASE_DATA_LOCK
    locks,      \* _CACHE_LOCKS: entries in insertion order
    cleaned,    \* _LAST_CACHE_CLEANUP_AT
    wake,       \* when the prewarm worker runs next
    job,        \* what each task is doing
    pc,         \* where it is suspended
    lock,       \* the key lock it waits for or holds
    data        \* fetching: the version the fetch began with; later: what it got

world == <<now, upstream>>
shared == <<base, baseLock>>
local == <<job, pc, lock, data>>
vars == <<world, faults, views, snapshots, shared, locks, cleaned, wake, local>>

Snapshot == [version : Nat, expires : Nat, complete : BOOLEAN]
Base     == [version : Nat, expires : Nat, forced : Nat \cup {None}]
Job      == [kind : {"none", "request", "refresh", "warm", "prewarm"},
             key : Keys \cup {None}, refresh : BOOLEAN, ready : BOOLEAN]

NoJob == [kind |-> "none", key |-> None, refresh |-> FALSE, ready |-> TRUE]

\* A snapshot of an earlier release lacks some sections.
OldSnapshot == [version |-> 1, expires |-> SnapshotTtl, complete |-> FALSE]

Init ==
    /\ now = 0
    /\ upstream \in FirstVersions
    /\ faults = 0
    /\ views = 0
    /\ snapshots \in [Keys -> {None, OldSnapshot}]
    /\ base = [p \in Processes |-> None]
    /\ baseLock = [p \in Processes |-> None]
    /\ locks = [p \in Processes |-> <<>>]
    /\ cleaned = [p \in Processes |-> None]
    /\ wake = [p \in Processes |-> 0]
    /\ job = [t \in Tasks |-> NoJob]
    /\ pc = [t \in Tasks |-> "idle"]
    /\ lock = [t \in Tasks |-> None]
    /\ data = [t \in Tasks |-> 0]

----------------------------------------------------------------------------
(* Freshness *)

\* _is_snapshot_fresh
Fresh(row) == row # None /\ row.expires > now

\* _is_base_data_fresh
BaseFresh(p) == base[p] # None /\ base[p].expires > now

\* A bundle without issues expires soon: always one of no data, and of data the one
\* whose filter, or whose sources, give no issue.
Ttls(version) == IF version = 0 THEN {HollowTtl} ELSE {HollowTtl, SnapshotTtl}

CleanupDue(p) == cleaned[p] = None \/ now - cleaned[p] >= CleanupInterval

\* The table after _cleanup_cache_if_needed, which starts every request.
Kept(p) ==
    [k \in Keys |->
        IF CleanupDue(p) /\ snapshots[k] # None /\ snapshots[k].expires + Retention <= now
        THEN None ELSE snapshots[k]]

\* A request arrives.
Arrive(p) ==
    /\ views < MaxViews
    /\ views' = views + 1
    /\ snapshots' = Kept(p)
    /\ cleaned' = IF CleanupDue(p) THEN [cleaned EXCEPT ![p] = now] ELSE cleaned

----------------------------------------------------------------------------
(* Key locks *)

LockId(table, k) == (CHOOSE e \in {table[i] : i \in DOMAIN table} : e.key = k).id

\* A lock object is identified by a number no other lock object in use has.
NewLockId(p) ==
    CHOOSE n \in 0 .. LocksMax + Cardinality(Slots) :
       /\ \A i \in DOMAIN locks[p] : locks[p][i].id # n
       /\ \A t \in Tasks : Process(t) = p => lock[t] # n

GetLock_Unbounded(p, k) ==
    IF \E i \in DOMAIN locks[p] : locks[p][i].key = k
    THEN locks[p]
    ELSE Append(locks[p], [key |-> k, id |-> NewLockId(p)])

GetLock_Anew(p, k) == <<[key |-> k, id |-> NewLockId(p)]>>

\* _get_lock: the table afterwards.  A full table drops its oldest entries, also
\* when tasks hold those locks or wait for them.
GetLock(p, k) ==
    IF \E i \in DOMAIN locks[p] : locks[p][i].key = k
    THEN locks[p]
    ELSE Append(IF Len(locks[p]) >= LocksMax
                THEN SubSeq(locks[p], Evicted + 1, Len(locks[p]))
                ELSE locks[p],
                [key |-> k, id |-> NewLockId(p)])

\* The steps of a task inside "async with lock".
Building == {"baselock", "hydrate", "fetch", "scoped", "compute"}

Held_Pending(p, id) == \E t \in Tasks : Process(t) = p /\ lock[t] = id

Held(p, id) == \E t \in Tasks : Process(t) = p /\ lock[t] = id /\ pc[t] \in Building

KeyFree_Always(t) == TRUE

KeyFree(t) == ~Held(Process(t), lock[t])

\* lock.locked(), for the lock of a key
Locked(p, k) ==
    /\ \E i \in DOMAIN locks[p] : locks[p][i].key = k
    /\ Held(p, LockId(locks[p], k))

----------------------------------------------------------------------------
(* _get_bundle *)

Begin(t, kind, key, refresh) ==
    [job EXCEPT ![t] = [kind |-> kind, key |-> key, refresh |-> refresh, ready |-> upstream > 0]]

\* asyncio.create_task for the background work a response asks for: to refresh
\* the snapshot, to warm the base data.
Spawn(p, k, refresh, warm) ==
    \E a, b \in {p} \X Slots :
       /\ a # b
       /\ refresh => pc[a] = "idle"
       /\ warm => pc[b] = "idle"
       /\ job' = [t \in Tasks |->
                    CASE refresh /\ t = a -> [kind |-> "refresh", key |-> k,
                                              refresh |-> FALSE, ready |-> upstream > 0]
                      [] warm /\ t = b -> [kind |-> "warm", key |-> None,
                                           refresh |-> FALSE, ready |-> upstream > 0]
                      [] OTHER -> job[t]]
       /\ pc' = [t \in Tasks |-> IF (refresh /\ t = a) \/ (warm /\ t = b) THEN "start" ELSE pc[t]]

\* A response from the table: no await before it.
Answer(p, k, rebuild) ==
    /\ Arrive(p)
    /\ locks' = IF rebuild THEN [locks EXCEPT ![p] = GetLock(p, k)] ELSE locks
    /\ Spawn(p, k, rebuild /\ ~Locked(p, k), ~BaseFresh(p))
    /\ UNCHANGED <<world, faults, shared, wake, lock, data>>

\* A fresh snapshot; one that lacks sections is to be rebuilt.
ServeFresh(p, k) ==
    /\ Fresh(Kept(p)[k])
    /\ Answer(p, k, ~Kept(p)[k].complete)

\* An expired snapshot is served too, and refreshed behind the response.
ServeStale(p, k) ==
    /\ Kept(p)[k] # None
    /\ ~Fresh(Kept(p)[k])
    /\ Answer(p, k, TRUE)

\* A view without filters makes do with the latest snapshot of any view.
ServeFallback(p, k) ==
    /\ k \in Default
    /\ Kept(p)[k] = None
    /\ \E other \in Keys : Kept(p)[other] # None
    /\ Answer(p, k, TRUE)

\* The request has to build: refresh=true, or nothing to serve.
Request(p, k) ==
    \E refresh \in BOOLEAN, t \in {p} \X Slots :
       /\ pc[t] = "idle"
       /\ ~refresh => /\ Kept(p)[k] = None
                      /\ k \in Default => \A other \in Keys : Kept(p)[other] = None
       /\ Arrive(p)
       /\ locks' = [locks EXCEPT ![p] = GetLock(p, k)]
       /\ lock' = [lock EXCEPT ![t] = LockId(GetLock(p, k), k)]
       /\ job' = Begin(t, "request", k, refresh)
       /\ pc' = [pc EXCEPT ![t] = "keylock"]
       /\ UNCHANGED <<world, faults, shared, wake, data>>

----------------------------------------------------------------------------
(* Tasks *)

Idle(t) ==
    /\ job' = [job EXCEPT ![t] = NoJob]
    /\ pc' = [pc EXCEPT ![t] = "idle"]
    /\ lock' = [lock EXCEPT ![t] = None]
    /\ data' = [data EXCEPT ![t] = 0]

\* The task ends, and so do its "async with" blocks; the prewarm worker sleeps.
Finish(t) ==
    /\ Idle(t)
    /\ wake' = IF job[t].kind = "prewarm"
               THEN [wake EXCEPT ![Process(t)] = now + PrewarmInterval] ELSE wake

\* A task goes on to another await.
Suspend(t, where, version) ==
    /\ pc' = [pc EXCEPT ![t] = where]
    /\ data' = [data EXCEPT ![t] = version]
    /\ UNCHANGED <<job, lock, wake>>

\* _refresh_snapshot_background begins: it looks the key's lock up again.
StartRefresh(t) ==
    LET p == Process(t)
    IN  /\ pc[t] = "start"
        /\ job[t].kind = "refresh"
        /\ locks' = [locks EXCEPT ![p] = GetLock(p, job[t].key)]
        /\ lock' = [lock EXCEPT ![t] = LockId(GetLock(p, job[t].key), job[t].key)]
        /\ pc' = [pc EXCEPT ![t] = "keylock"]
        /\ UNCHANGED <<world, faults, views, snapshots, shared, cleaned, wake, job, data>>

\* _warm_base_data_background begins.
StartWarm(t) ==
    /\ pc[t] = "start"
    /\ job[t].kind = "warm"
    /\ IF BaseFresh(Process(t)) THEN Finish(t) ELSE Suspend(t, "baselock", 0)
    /\ UNCHANGED <<world, faults, views, snapshots, shared, locks, cleaned>>

\* The prewarm worker's next round: a forced refresh of the base data.
Prewarm(t) ==
    /\ PrewarmEnabled
    /\ t[2] = Prewarmer
    /\ pc[t] = "idle"
    /\ wake[Process(t)] <= now
    /\ job' = Begin(t, "prewarm", None, TRUE)
    /\ pc' = [pc EXCEPT ![t] = "baselock"]
    /\ UNCHANGED <<world, faults, views, snapshots, shared, locks, cleaned, wake, lock, data>>

\* The key lock is free: somebody may have built the snapshot meanwhile.
FindBuilt(t) ==
    /\ pc[t] = "keylock"
    /\ KeyFree(t)
    /\ ~job[t].refresh
    /\ Fresh(snapshots[job[t].key])
    /\ Finish(t)
    /\ UNCHANGED <<world, faults, views, snapshots, shared, locks, cleaned>>

\* _build_bundle, to its first await: base data that is still fresh, the base
\* data lock, or for a filtered view while the base data is stale a fetch of
\* what the filter selects.
Build(t) ==
    LET p == Process(t)
    IN  /\ pc[t] = "keylock"
        /\ KeyFree(t)
        /\ job[t].refresh \/ ~Fresh(snapshots[job[t].key])
        /\ \/ /\ ~job[t].refresh /\ BaseFresh(p)
              /\ Suspend(t, "compute", base[p].version)
           \/ /\ job[t].refresh \/ (~BaseFresh(p) /\ job[t].key \notin Scoped)
              /\ Suspend(t, "baselock", 0)
           \/ /\ ~job[t].refresh /\ ~BaseFresh(p) /\ job[t].key \in Scoped
              /\ Suspend(t, "scoped", upstream)
        /\ UNCHANGED <<world, faults, views, snapshots, shared, locks, cleaned>>

----------------------------------------------------------------------------
(* _get_base_data *)

BaseFree_Always(p) == TRUE

BaseFree(p) == baseLock[p] = None

Reusable_Unchecked(t) == ~job[t].refresh /\ BaseFresh(Process(t))

\* Under the lock: a refresh may use data that another refresh fetched a moment
\* ago, any other reader data that is fresh.
Reusable(t) ==
    LET p == Process(t)
    IN  IF job[t].refresh
        THEN base[p] # None /\ base[p].forced # None /\ now - base[p].forced <= Coalesce
        ELSE BaseFresh(p)

\* Cached base data is completed with page coverage, under the lock.
ReuseBase(t) ==
    /\ pc[t] = "baselock"
    /\ BaseFree(Process(t))
    /\ Reusable(t)
    /\ baseLock' = [baseLock EXCEPT ![Process(t)] = t]
    /\ Suspend(t, "hydrate", base[Process(t)].version)
    /\ UNCHANGED <<world, faults, views, snapshots, base, locks, cleaned>>

\* aggregate_base_data begins.
FetchBase(t) ==
    /\ pc[t] = "baselock"
    /\ BaseFree(Process(t))
    /\ ~Reusable(t)
    /\ baseLock' = [baseLock EXCEPT ![Process(t)] = t]
    /\ Suspend(t, "fetch", upstream)
    /\ UNCHANGED <<world, faults, views, snapshots, base, locks, cleaned>>

\* The task has its base data: a build goes on, anything else is done.
GotBase(t, version) ==
    IF job[t].kind \in {"request", "refresh"} THEN Suspend(t, "compute", version) ELSE Finish(t)

Hydrated(t) ==
    /\ pc[t] = "hydrate"
    /\ baseLock' = [baseLock EXCEPT ![Process(t)] = None]
    /\ GotBase(t, data[t])
    /\ UNCHANGED <<world, faults, views, snapshots, base, locks, cleaned>>

StoreBase(t, version) ==
    LET p == Process(t)
        forced == IF job[t].refresh THEN now
                  ELSE IF base[p] = None THEN None ELSE base[p].forced
    IN  /\ base' = [base EXCEPT ![p] = [version |-> version, expires |-> now + BaseTtl,
                                        forced |-> forced]]
        /\ baseLock' = [baseLock EXCEPT ![p] = None]
        /\ GotBase(t, version)
        /\ UNCHANGED <<world, views, snapshots, locks, cleaned>>

\* The sources were read at some moment between the call and now.
BaseFetched(t) ==
    /\ pc[t] = "fetch"
    /\ \E version \in data[t] .. upstream : StoreBase(t, version)
    /\ UNCHANGED faults

\* Every source failed: the empty result is cached like any other.
NothingFetched(t) ==
    /\ pc[t] = "fetch"
    /\ faults < MaxFaults
    /\ faults' = faults + 1
    /\ StoreBase(t, 0)

----------------------------------------------------------------------------
(* The end of a build *)

ScopeFetched(t) ==
    /\ pc[t] = "scoped"
    /\ \E version \in data[t] .. upstream : Suspend(t, "compute", version)
    /\ UNCHANGED <<world, faults, views, snapshots, shared, locks, cleaned>>

\* upsert_analytics_snapshot and the response.
Store(t) ==
    /\ pc[t] = "compute"
    /\ \E ttl \in Ttls(data[t]) :
          snapshots' = [snapshots EXCEPT ![job[t].key] =
                           [version |-> data[t], expires |-> now + ttl, complete |-> TRUE]]
    /\ Finish(t)
    /\ UNCHANGED <<world, faults, views, shared, locks, cleaned>>

Unlocked_Forgotten(t) == baseLock

\* Leaving "async with _BASE_DATA_LOCK" by an exception.
Unlocked(t) ==
    IF baseLock[Process(t)] = t THEN [baseLock EXCEPT ![Process(t)] = None] ELSE baseLock

\* An exception: a background task logs it, a request falls back on the snapshot
\* it has or answers 500.
Fail(t) ==
    /\ pc[t] \in {"hydrate", "fetch", "scoped", "compute"}
    /\ faults < MaxFaults
    /\ faults' = faults + 1
    /\ baseLock' = Unlocked(t)
    /\ Finish(t)
    /\ UNCHANGED <<world, views, snapshots, base, locks, cleaned>>

----------------------------------------------------------------------------
Publish ==
    /\ upstream < MaxVersion
    /\ upstream' = upstream + 1
    /\ UNCHANGED <<now, faults, views, snapshots, shared, locks, cleaned, wake, local>>

Tick ==
    /\ now < MaxTime
    /\ now' = now + 1
    /\ UNCHANGED <<upstream, faults, views, snapshots, shared, locks, cleaned, wake, local>>

View(p, k) == ServeFresh(p, k) \/ ServeStale(p, k) \/ ServeFallback(p, k) \/ Request(p, k)

\* Steps that need nobody else: the event loop gets to them.
Run(t) ==
    \/ StartRefresh(t) \/ StartWarm(t) \/ Prewarm(t)
    \/ Hydrated(t) \/ BaseFetched(t) \/ ScopeFetched(t) \/ Store(t)

\* Steps that wait for a lock.
Acquire(t) == FindBuilt(t) \/ Build(t) \/ ReuseBase(t) \/ FetchBase(t)

Next ==
    \/ \E p \in Processes, k \in Keys : View(p, k)
    \/ \E t \in Tasks : Run(t) \/ Acquire(t) \/ NothingFetched(t) \/ Fail(t)
    \/ Publish
    \/ Tick

Spec == Init /\ [][Next]_vars

\* The event loop runs every task that can run, and every call to a data source
\* has a timeout; an asyncio lock is handed to its waiters in their order, so no
\* waiter is passed over for ever.
FairSpec ==
    /\ Spec
    /\ \A t \in Tasks : WF_vars(Run(t)) /\ SF_vars(Acquire(t))

----------------------------------------------------------------------------
(* Properties *)

TypeOK ==
    /\ now \in 0 .. MaxTime /\ upstream \in Nat /\ faults \in 0 .. MaxFaults
    /\ views \in 0 .. MaxViews
    /\ snapshots \in [Keys -> Snapshot \cup {None}]
    /\ base \in [Processes -> Base \cup {None}]
    /\ baseLock \in [Processes -> Tasks \cup {None}]
    /\ \A p \in Processes : /\ Len(locks[p]) <= LocksMax
                            /\ \A i \in DOMAIN locks[p] : locks[p][i].key \in Keys
    /\ cleaned \in [Processes -> Nat \cup {None}]
    /\ wake \in [Processes -> Nat]
    /\ job \in [Tasks -> Job]
    /\ pc \in [Tasks -> {"idle", "start", "keylock"} \cup Building]
    /\ data \in [Tasks -> Nat]

\* While the lock table never overflows, a process builds a view once at a time.
OneBuildPerKey ==
    Cardinality(Keys) <= LocksMax =>
       \A t, u \in Tasks :
          /\ t # u /\ Process(t) = Process(u)
          /\ pc[t] \in Building /\ pc[u] \in Building
          /\ lock[t] # None /\ lock[u] # None
          => job[t].key # job[u].key

\* Base data is never replaced by older base data, however long the fetches take
\* and in whatever order they were asked for; only by nothing, when no source
\* answered.
BaseNeverGoesBack ==
    [][\A p \in Processes :
          base[p] # None => base'[p].version = 0 \/ base'[p].version >= base[p].version]_vars

\* A burst of refreshes costs one fetch: what a refresh fetched is not replaced by
\* another refresh before the coalescing window has passed, however many wait for
\* the lock.
ForcedFetchesSpaced ==
    [][\A p \in Processes :
          /\ base[p] # None /\ base[p].forced # None
          /\ base'[p] # base[p] /\ base'[p].forced = now
          => now > base[p].forced + Coalesce]_vars

\* With one worker process and no lock evicted, a user who looks at a view again
\* never sees older data than before, unless a fetch came back empty or the view is filtered (its
\* builds may bypass the base data).
ViewsNeverGoBack ==
    [][Cardinality(Processes) = 1 /\ Cardinality(Keys) <= LocksMax =>
       \A k \in Keys \ Scoped :
          snapshots[k] # None /\ snapshots'[k] # None
             => snapshots'[k].version >= snapshots[k].version \/ snapshots'[k].version = 0]_vars

\* Every request and every background task ends.
TasksEnd == \A t \in Tasks : pc[t] # "idle" ~> pc[t] = "idle"

\* Work on a view ends with a fresh snapshot of it, or something raised.
BuildsDeliver ==
    \A k \in Keys :
       (\E t \in Tasks : job[t].key = k) ~> (Fresh(snapshots[k]) \/ faults = MaxFaults)

\* "the hollow snapshot expires quickly and a proper build is triggered on the next
\* request rather than caching empty data for the full TTL" (_get_bundle): a build
\* that replaces an expired hollow snapshot, begun when the sources answered, does
\* not end with empty data again.
HollowIsRebuilt ==
    [][\A t \in Tasks, k \in Keys :
          /\ pc[t] = "compute" /\ pc'[t] = "idle" /\ job[t].key = k /\ job[t].ready
          /\ snapshots[k] # None /\ snapshots[k].version = 0 /\ ~Fresh(snapshots[k])
          => snapshots'[k].version # 0]_vars
=============================================================================
