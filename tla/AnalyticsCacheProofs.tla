------------------------ MODULE AnalyticsCacheProofs ------------------------
(***************************************************************************)
(* Theorems about the analytics cache, for any finite number of processes, *)
(* tasks and views, any durations and any number of faults: about the base *)
(* data, then about the locks of the views, then about what views show.    *)
(***************************************************************************)
EXTENDS AnalyticsCache, FiniteSetTheorems, SequenceTheorems, TLAPS

BaseType ==
    /\ now \in Nat /\ upstream \in Nat
    /\ base \in [Processes -> Base \cup {None}]
    /\ baseLock \in [Processes -> Tasks \cup {None}]
    /\ job \in [Tasks -> Job]
    /\ pc \in [Tasks -> {"idle", "start", "keylock"} \cup Building]
    /\ data \in [Tasks -> Nat]

\* A task that uses the base data across an await holds the lock meanwhile.
LockHeld == \A t \in Tasks : pc[t] \in {"hydrate", "fetch"} => baseLock[Process(t)] = t

\* Cached base data is no newer than its sources, and was forced in the past,
\* before it expires.
CacheLags ==
    \A p \in Processes : base[p] # None =>
       /\ base[p].version <= upstream
       /\ base[p].forced # None => base[p].forced <= now /\ base[p].forced < base[p].expires

\* A fetch returns nothing older than what it replaces.
FetchAhead ==
    \A t \in Tasks : pc[t] = "fetch" /\ base[Process(t)] # None =>
       base[Process(t)].version <= data[t]

\* A forced fetch runs outside the coalescing window, any other only when the
\* cached data has expired.
FetchNeeded ==
    \A t \in Tasks : pc[t] = "fetch" /\ base[Process(t)] # None =>
       IF job[t].refresh
       THEN base[Process(t)].forced # None => now > base[Process(t)].forced + Coalesce
       ELSE base[Process(t)].expires <= now

BaseInv == BaseType /\ LockHeld /\ CacheLags /\ FetchAhead /\ FetchNeeded

----------------------------------------------------------------------------
LEMMA ProcessType == \A t \in Tasks : Process(t) \in Processes
  BY DEF Tasks, Process

LEMMA InitInv == Init => BaseInv
  BY CacheAssumption DEF Init, BaseInv, BaseType, LockHeld, CacheLags, FetchAhead, FetchNeeded,
     NoJob, Job

\* A step that leaves the base data alone, and sends no task into hydrating or
\* fetching it, keeps the invariant.
LEMMA Aside ==
    ASSUME BaseInv, UNCHANGED <<now, upstream, base, baseLock>>,
           job' \in [Tasks -> Job],
           pc' \in [Tasks -> {"idle", "start", "keylock"} \cup Building],
           data' \in [Tasks -> Nat],
           \A t \in Tasks : \/ pc'[t] = pc[t] /\ job'[t] = job[t] /\ data'[t] = data[t]
                            \/ pc'[t] \notin {"hydrate", "fetch"}
    PROVE  BaseInv'
<1>1. BaseType' /\ CacheLags'
  BY DEF BaseInv, BaseType, CacheLags
<1>2. LockHeld'
  BY DEF BaseInv, LockHeld
<1>3. FetchAhead'
  BY DEF BaseInv, FetchAhead
<1>4. FetchNeeded'
  BY DEF BaseInv, FetchNeeded
<1>5. QED
  BY <1>1, <1>2, <1>3, <1>4 DEF BaseInv

\* A step of one task that leaves the base data alone, to a place where it does
\* not use it.
LEMMA TaskAside ==
    ASSUME BaseInv, NEW t \in Tasks, UNCHANGED <<now, upstream, base, baseLock>>,
           NEW j \in Job, NEW where \in {"idle", "start", "keylock", "baselock", "scoped", "compute"},
           NEW version \in Nat,
           job' = [job EXCEPT ![t] = j], pc' = [pc EXCEPT ![t] = where],
           data' = [data EXCEPT ![t] = version]
    PROVE  BaseInv'
<1>1. /\ job' \in [Tasks -> Job]
      /\ pc' \in [Tasks -> {"idle", "start", "keylock"} \cup Building]
      /\ data' \in [Tasks -> Nat]
  BY DEF BaseInv, BaseType, Building
<1>2. \A u \in Tasks : \/ pc'[u] = pc[u] /\ job'[u] = job[u] /\ data'[u] = data[u]
                       \/ pc'[u] \notin {"hydrate", "fetch"}
  BY DEF BaseInv, BaseType
<1>3. QED
  BY <1>1, <1>2, Aside

\* A task that holds the lock of the base data lets go of it.
LEMMA Release ==
    ASSUME BaseInv, NEW t \in Tasks, baseLock[Process(t)] = t,
           UNCHANGED <<now, upstream, base>>,
           baseLock' = [baseLock EXCEPT ![Process(t)] = None],
           NEW j \in Job, NEW where \in {"idle", "compute"}, NEW version \in Nat,
           job' = [job EXCEPT ![t] = j], pc' = [pc EXCEPT ![t] = where],
           data' = [data EXCEPT ![t] = version]
    PROVE  BaseInv'
<1>1. BaseType' /\ CacheLags'
  BY ProcessType DEF BaseInv, BaseType, CacheLags, Building
<1>2. \A u \in Tasks : pc'[u] \in {"hydrate", "fetch"} =>
         /\ u # t
         /\ pc'[u] = pc[u] /\ job'[u] = job[u] /\ data'[u] = data[u]
         /\ Process(u) # Process(t)
  BY DEF BaseInv, BaseType, LockHeld
<1>3. LockHeld'
  BY <1>2, ProcessType DEF BaseInv, BaseType, LockHeld
<1>4. FetchAhead'
  BY <1>2 DEF BaseInv, FetchAhead
<1>5. FetchNeeded'
  BY <1>2 DEF BaseInv, FetchNeeded
<1>6. QED
  BY <1>1, <1>3, <1>4, <1>5 DEF BaseInv

\* What a task that holds its base data does next.
LEMMA GotBaseStep ==
    ASSUME BaseType, NEW t \in Tasks, NEW version \in Nat, GotBase(t, version)
    PROVE  \E j \in Job, where \in {"idle", "compute"}, v \in Nat :
              /\ job' = [job EXCEPT ![t] = j]
              /\ pc' = [pc EXCEPT ![t] = where]
              /\ data' = [data EXCEPT ![t] = v]
<1>1. CASE job[t].kind \in {"request", "refresh"}
  <2>1. job' = [job EXCEPT ![t] = job[t]] /\ job[t] \in Job
    BY <1>1 DEF GotBase, Suspend, BaseType
  <2>2. pc' = [pc EXCEPT ![t] = "compute"] /\ data' = [data EXCEPT ![t] = version]
    BY <1>1 DEF GotBase, Suspend
  <2>3. QED
    BY <2>1, <2>2
<1>2. CASE job[t].kind \notin {"request", "refresh"}
  <2>1. NoJob \in Job
    BY DEF NoJob, Job
  <2>2. QED
    BY <1>2, <2>1 DEF GotBase, Finish, Idle
<1>3. QED
  BY <1>1, <1>2

\* Base data is stored by the task that holds the lock.
LEMMA StoreStep ==
    ASSUME BaseInv, NEW t \in Tasks, pc[t] = "fetch",
           NEW version \in 0 .. upstream, StoreBase(t, version)
    PROVE  BaseInv'
<1> DEFINE p == Process(t)
           forced == IF job[t].refresh THEN now
                     ELSE IF base[p] = None THEN None ELSE base[p].forced
           stored == [version |-> version, expires |-> now + BaseTtl, forced |-> forced]
<1>1. p \in Processes /\ BaseType /\ BaseTtl \in Nat \ {0} /\ version \in Nat
  BY ProcessType, CacheAssumption DEF BaseInv, BaseType
<1>2. UNCHANGED <<now, upstream>> /\ baseLock' = [baseLock EXCEPT ![p] = None]
  BY DEF StoreBase, world
<1>3. base' = [base EXCEPT ![p] = stored]
  BY DEF StoreBase
<1>4. PICK j \in Job, where \in {"idle", "compute"}, v \in Nat :
         /\ job' = [job EXCEPT ![t] = j]
         /\ pc' = [pc EXCEPT ![t] = where]
         /\ data' = [data EXCEPT ![t] = v]
  <2>1. GotBase(t, version)
    BY DEF StoreBase
  <2>2. QED
    BY <1>1, <2>1, GotBaseStep
<1>5. forced \in Nat \cup {None} /\ (forced # None => forced <= now)
  BY <1>1 DEF BaseInv, BaseType, CacheLags, Base
<1>6. stored \in Base
  BY <1>1, <1>5 DEF Base, BaseType
<1>7. BaseType'
  BY <1>1, <1>2, <1>3, <1>4, <1>6 DEF BaseType, Building
<1>8. CacheLags'
  BY <1>1, <1>2, <1>3, <1>5 DEF BaseInv, BaseType, CacheLags
<1>9. \A u \in Tasks : pc'[u] \in {"hydrate", "fetch"} =>
         /\ pc'[u] = pc[u] /\ job'[u] = job[u] /\ data'[u] = data[u]
         /\ Process(u) # p
  <2>1. baseLock[p] = t
    BY DEF BaseInv, LockHeld
  <2>2. QED
    BY <1>1, <1>4, <2>1 DEF BaseInv, BaseType, LockHeld
<1>10. LockHeld'
  BY <1>1, <1>2, <1>9, ProcessType DEF BaseInv, BaseType, LockHeld
<1>11. FetchAhead'
  BY <1>1, <1>3, <1>9, ProcessType DEF BaseInv, BaseType, FetchAhead
<1>12. FetchNeeded'
  BY <1>1, <1>2, <1>3, <1>9, ProcessType DEF BaseInv, BaseType, FetchNeeded
<1>13. QED
  BY <1>7, <1>8, <1>10, <1>11, <1>12 DEF BaseInv

\* A task takes the free lock of the base data.
LEMMA AcquireStep ==
    ASSUME BaseInv, NEW t \in Tasks, pc[t] = "baselock", BaseFree(Process(t)),
           UNCHANGED <<now, upstream, base, job>>,
           baseLock' = [baseLock EXCEPT ![Process(t)] = t],
           NEW where \in {"hydrate", "fetch"}, NEW version \in Nat,
           pc' = [pc EXCEPT ![t] = where], data' = [data EXCEPT ![t] = version],
           where = "fetch" => version = upstream /\ ~Reusable(t)
    PROVE  BaseInv'
<1> DEFINE p == Process(t)
<1>1. p \in Processes /\ BaseType
  BY ProcessType DEF BaseInv
<1>2. BaseType' /\ CacheLags'
  BY <1>1 DEF BaseInv, BaseType, CacheLags, Building
<1>3. \A u \in Tasks : u # t =>
         /\ pc'[u] = pc[u] /\ data'[u] = data[u]
         /\ pc[u] \in {"hydrate", "fetch"} => Process(u) # p
  BY <1>1, CacheAssumption DEF BaseInv, BaseType, LockHeld, BaseFree
<1>4. LockHeld'
  BY <1>1, <1>3, ProcessType DEF BaseInv, BaseType, LockHeld
<1>5. FetchAhead'
  <2>1. pc'[t] = where /\ data'[t] = version
    BY <1>1 DEF BaseType
  <2>2. base[p] # None => base[p].version <= upstream
    BY <1>1 DEF BaseInv, CacheLags
  <2>3. QED
    BY <1>3, <2>1, <2>2 DEF BaseInv, FetchAhead
<1>6. FetchNeeded'
  <2>1. pc'[t] = where
    BY <1>1 DEF BaseType
  <2>2. ASSUME base[p] # None, where = "fetch"
        PROVE  IF job[t].refresh
               THEN base[p].forced # None => now > base[p].forced + Coalesce
               ELSE base[p].expires <= now
    <3>1. base[p] \in Base /\ now \in Nat /\ Coalesce \in Nat
      BY <1>1, <2>2, CacheAssumption DEF BaseType
    <3>2. base[p].forced # None => base[p].forced <= now
      BY <1>1, <2>2 DEF BaseInv, CacheLags
    <3>3. QED
      BY <2>2, <3>1, <3>2 DEF Reusable, BaseFresh, Base
  <2>3. QED
    BY <1>3, <2>1, <2>2 DEF BaseInv, FetchNeeded
<1>7. QED
  BY <1>2, <1>4, <1>5, <1>6 DEF BaseInv

----------------------------------------------------------------------------
(* The actions *)

\* Background tasks are started in idle slots.
LEMMA SpawnStep ==
    ASSUME BaseInv, NEW p \in Processes, NEW k \in Keys, NEW refresh \in BOOLEAN,
           NEW warm \in BOOLEAN, Spawn(p, k, refresh, warm),
           UNCHANGED <<now, upstream, base, baseLock, data>>
    PROVE  BaseInv'
<1>1. PICK a, b \in {p} \X Slots :
         /\ refresh => pc[a] = "idle"
         /\ warm => pc[b] = "idle"
         /\ job' = [t \in Tasks |->
                      CASE refresh /\ t = a -> [kind |-> "refresh", key |-> k,
                                                refresh |-> FALSE, ready |-> upstream > 0]
                        [] warm /\ t = b -> [kind |-> "warm", key |-> None,
                                             refresh |-> FALSE, ready |-> upstream > 0]
                        [] OTHER -> job[t]]
         /\ pc' = [t \in Tasks |-> IF (refresh /\ t = a) \/ (warm /\ t = b)
                                   THEN "start" ELSE pc[t]]
  BY DEF Spawn
<1>2. /\ [kind |-> "refresh", key |-> k, refresh |-> FALSE, ready |-> upstream > 0] \in Job
      /\ [kind |-> "warm", key |-> None, refresh |-> FALSE, ready |-> upstream > 0] \in Job
  <2>1. (upstream > 0) \in BOOLEAN
    OBVIOUS
  <2>2. QED
    BY <2>1 DEF Job
<1>3. \A t \in Tasks : job'[t] \in Job
  BY <1>1, <1>2 DEF BaseInv, BaseType
<1>4. job' \in [Tasks -> Job]
  BY <1>1, <1>3
<1>5. pc' \in [Tasks -> {"idle", "start", "keylock"} \cup Building] /\ data' \in [Tasks -> Nat]
  BY <1>1 DEF BaseInv, BaseType
<1>6. \A t \in Tasks : \/ pc'[t] = pc[t] /\ job'[t] = job[t] /\ data'[t] = data[t]
                       \/ pc'[t] \notin {"hydrate", "fetch"}
  BY <1>1
<1>7. QED
  BY <1>4, <1>5, <1>6, Aside

LEMMA ViewStep ==
    ASSUME BaseInv, NEW p \in Processes, NEW k \in Keys, View(p, k)
    PROVE  BaseInv' /\ base' = base
<1>1. ASSUME NEW rebuild \in BOOLEAN, Answer(p, k, rebuild)
      PROVE  BaseInv' /\ base' = base
  <2>1. UNCHANGED <<now, upstream, base, baseLock, data>>
    BY <1>1 DEF Answer, world, shared
  <2>2. (rebuild /\ ~Locked(p, k)) \in BOOLEAN /\ (~BaseFresh(p)) \in BOOLEAN
    OBVIOUS
  <2>3. Spawn(p, k, rebuild /\ ~Locked(p, k), ~BaseFresh(p))
    BY <1>1 DEF Answer
  <2>4. QED
    BY <2>1, <2>2, <2>3, SpawnStep
<1>2. CASE ServeFresh(p, k)
  <2>1. Answer(p, k, ~Kept(p)[k].complete)
    BY <1>2 DEF ServeFresh
  <2>2. Answer(p, k, TRUE) \/ Answer(p, k, FALSE)
    BY <2>1 DEF Answer, Spawn
  <2>3. QED
    BY <1>1, <2>2
<1>3. CASE ServeStale(p, k)
  BY <1>1, <1>3 DEF ServeStale
<1>4. CASE ServeFallback(p, k)
  BY <1>1, <1>4 DEF ServeFallback
<1>5. CASE Request(p, k)
  <2>1. PICK refresh \in BOOLEAN, t \in {p} \X Slots :
           /\ pc' = [pc EXCEPT ![t] = "keylock"]
           /\ job' = Begin(t, "request", k, refresh)
           /\ UNCHANGED <<now, upstream, base, baseLock, data>>
    BY <1>5 DEF Request, world, shared
  <2>2. t \in Tasks
    BY DEF Tasks
  <2>3. [kind |-> "request", key |-> k, refresh |-> refresh, ready |-> upstream > 0] \in Job
    BY DEF Job
  <2>4. data' = [data EXCEPT ![t] = data[t]] /\ data[t] \in Nat
    BY <2>1, <2>2 DEF BaseInv, BaseType
  <2>5. PICK j \in Job : job' = [job EXCEPT ![t] = j]
    BY <2>1, <2>3, Zenon DEF Begin
  <2>6. UNCHANGED <<now, upstream, base, baseLock>> /\ pc' = [pc EXCEPT ![t] = "keylock"]
    BY <2>1
  <2>7. BaseInv'
    BY <2>2, <2>4, <2>5, <2>6, TaskAside
  <2>8. QED
    BY <2>6, <2>7
<1>6. QED
  BY <1>2, <1>3, <1>4, <1>5 DEF View

\* A task goes on to another await, away from the base data.
LEMMA SuspendStep ==
    ASSUME BaseInv, NEW t \in Tasks, UNCHANGED <<now, upstream, base, baseLock>>,
           NEW where \in {"keylock", "baselock", "scoped", "compute"}, NEW version \in Nat,
           Suspend(t, where, version)
    PROVE  BaseInv'
<1>1. job' = [job EXCEPT ![t] = job[t]] /\ job[t] \in Job
  BY DEF Suspend, BaseInv, BaseType
<1>2. pc' = [pc EXCEPT ![t] = where] /\ data' = [data EXCEPT ![t] = version]
  BY DEF Suspend
<1>3. QED
  BY <1>1, <1>2, TaskAside

\* A task ends that does not hold the lock of the base data.
LEMMA FinishStep ==
    ASSUME BaseInv, NEW t \in Tasks, UNCHANGED <<now, upstream, base, baseLock>>, Finish(t)
    PROVE  BaseInv'
<1>1. NoJob \in Job /\ 0 \in Nat
  BY DEF NoJob, Job
<1>2. QED
  BY <1>1, TaskAside DEF Finish, Idle

LEMMA RunStep ==
    ASSUME BaseInv, NEW t \in Tasks, Run(t)
    PROVE  BaseInv'
<1> DEFINE p == Process(t)
<1>1. p \in Processes /\ BaseType /\ data[t] \in Nat
  BY ProcessType DEF BaseInv, BaseType
<1>2. CASE StartRefresh(t)
  <2>1. job' = [job EXCEPT ![t] = job[t]] /\ job[t] \in Job
    BY <1>1, <1>2 DEF StartRefresh, BaseType
  <2>2. data' = [data EXCEPT ![t] = data[t]]
    BY <1>1, <1>2 DEF StartRefresh, BaseType
  <2>3. UNCHANGED <<now, upstream, base, baseLock>> /\ pc' = [pc EXCEPT ![t] = "keylock"]
    BY <1>2 DEF StartRefresh, world, shared
  <2>4. QED
    BY <1>1, <2>1, <2>2, <2>3, TaskAside
<1>3. CASE StartWarm(t)
  <2>1. UNCHANGED <<now, upstream, base, baseLock>>
    BY <1>3 DEF StartWarm, world, shared
  <2>2. Finish(t) \/ Suspend(t, "baselock", 0)
    BY <1>3 DEF StartWarm
  <2>3. QED
    BY <2>1, <2>2, FinishStep, SuspendStep
<1>4. CASE Prewarm(t)
  <2>1. [kind |-> "prewarm", key |-> None, refresh |-> TRUE, ready |-> upstream > 0] \in Job
    BY DEF Job
  <2>2. data' = [data EXCEPT ![t] = data[t]]
    BY <1>1, <1>4 DEF Prewarm, BaseType
  <2>3. UNCHANGED <<now, upstream, base, baseLock>> /\ pc' = [pc EXCEPT ![t] = "baselock"]
    BY <1>4 DEF Prewarm, world, shared
  <2>4. PICK j \in Job : job' = [job EXCEPT ![t] = j]
    BY <1>4, <2>1, Zenon DEF Prewarm, Begin
  <2>5. QED
    BY <1>1, <2>2, <2>3, <2>4, TaskAside
<1>5. CASE Hydrated(t)
  <2>1. GotBase(t, data[t])
    BY <1>5 DEF Hydrated
  <2>2. PICK j \in Job, where \in {"idle", "compute"}, v \in Nat :
           /\ job' = [job EXCEPT ![t] = j]
           /\ pc' = [pc EXCEPT ![t] = where]
           /\ data' = [data EXCEPT ![t] = v]
    BY <1>1, <2>1, GotBaseStep
  <2>3. /\ UNCHANGED <<now, upstream, base>> /\ baseLock[p] = t
        /\ baseLock' = [baseLock EXCEPT ![p] = None]
    BY <1>5 DEF Hydrated, world, BaseInv, LockHeld
  <2>4. QED
    BY <2>2, <2>3, Release
<1>6. CASE BaseFetched(t)
  <2>1. PICK version \in data[t] .. upstream : StoreBase(t, version)
    BY <1>6 DEF BaseFetched
  <2>2. version \in 0 .. upstream
    BY <1>1 DEF BaseType
  <2>3. QED
    BY <1>6, <2>1, <2>2, StoreStep DEF BaseFetched
<1>7. CASE ScopeFetched(t)
  <2>1. PICK version \in data[t] .. upstream : Suspend(t, "compute", version)
    BY <1>7 DEF ScopeFetched
  <2>2. version \in Nat
    BY <1>1 DEF BaseType
  <2>3. UNCHANGED <<now, upstream, base, baseLock>>
    BY <1>7 DEF ScopeFetched, world, shared
  <2>4. QED
    BY <2>1, <2>2, <2>3, SuspendStep
<1>8. CASE Store(t)
  <2>1. UNCHANGED <<now, upstream, base, baseLock>> /\ Finish(t)
    BY <1>8 DEF Store, world, shared
  <2>2. QED
    BY <2>1, FinishStep
<1>9. QED
  BY <1>2, <1>3, <1>4, <1>5, <1>6, <1>7, <1>8 DEF Run

LEMMA AcquiresStep ==
    ASSUME BaseInv, NEW t \in Tasks, Acquire(t)
    PROVE  BaseInv' /\ base' = base
<1> DEFINE p == Process(t)
<1>1. p \in Processes /\ BaseType
  BY ProcessType DEF BaseInv
<1>2. CASE FindBuilt(t)
  <2>1. UNCHANGED <<now, upstream, base, baseLock>> /\ Finish(t)
    BY <1>2 DEF FindBuilt, world, shared
  <2>2. QED
    BY <2>1, FinishStep
<1>3. CASE Build(t)
  <2>1. UNCHANGED <<now, upstream, base, baseLock>>
    BY <1>3 DEF Build, world, shared
  <2>2. CASE BaseFresh(p) /\ Suspend(t, "compute", base[p].version)
    <3>1. base[p].version \in Nat
      BY <1>1, <2>2 DEF BaseFresh, BaseType, Base
    <3>2. QED
      BY <2>1, <2>2, <3>1, SuspendStep
  <2>3. CASE Suspend(t, "baselock", 0)
    BY <2>1, <2>3, SuspendStep
  <2>4. CASE Suspend(t, "scoped", upstream)
    BY <1>1, <2>1, <2>4, SuspendStep DEF BaseType
  <2>5. QED
    BY <1>3, <2>1, <2>2, <2>3, <2>4 DEF Build
<1>4. CASE ReuseBase(t)
  <2>1. /\ UNCHANGED <<now, upstream, base, job>> /\ pc[t] = "baselock" /\ BaseFree(p)
        /\ baseLock' = [baseLock EXCEPT ![p] = t]
        /\ pc' = [pc EXCEPT ![t] = "hydrate"]
        /\ data' = [data EXCEPT ![t] = base[p].version]
    BY <1>4 DEF ReuseBase, Suspend, world
  <2>2. base[p].version \in Nat
    BY <1>1, <1>4 DEF ReuseBase, Reusable, BaseFresh, BaseType, Base
  <2>3. QED
    BY <2>1, <2>2, AcquireStep
<1>5. CASE FetchBase(t)
  <2>1. /\ UNCHANGED <<now, upstream, base, job>> /\ pc[t] = "baselock" /\ BaseFree(p)
        /\ ~Reusable(t)
        /\ baseLock' = [baseLock EXCEPT ![p] = t]
        /\ pc' = [pc EXCEPT ![t] = "fetch"]
        /\ data' = [data EXCEPT ![t] = upstream]
    BY <1>5 DEF FetchBase, Suspend, world
  <2>2. QED
    BY <1>1, <2>1, AcquireStep DEF BaseType
<1>6. QED
  BY <1>2, <1>3, <1>4, <1>5 DEF Acquire

LEMMA FailStep ==
    ASSUME BaseInv, NEW t \in Tasks, Fail(t)
    PROVE  BaseInv' /\ base' = base
<1> DEFINE p == Process(t)
<1>1. p \in Processes /\ BaseType /\ UNCHANGED <<now, upstream, base>> /\ Finish(t)
  BY ProcessType DEF BaseInv, Fail, world
<1>2. CASE baseLock[p] = t
  <2>1. baseLock' = [baseLock EXCEPT ![p] = None]
    BY <1>2 DEF Fail, Unlocked
  <2>2. NoJob \in Job /\ 0 \in Nat
    BY DEF NoJob, Job
  <2>3. QED
    BY <1>1, <1>2, <2>1, <2>2, Release DEF Finish, Idle
<1>3. CASE baseLock[p] # t
  <2>1. baseLock' = baseLock
    BY <1>3 DEF Fail, Unlocked
  <2>2. QED
    BY <1>1, <2>1, FinishStep
<1>4. QED
  BY <1>2, <1>3

\* Time only makes the next forced fetch more due.
LEMMA TickStep == BaseInv /\ Tick => BaseInv' /\ base' = base
<1> SUFFICES ASSUME BaseInv, Tick PROVE BaseInv' /\ base' = base
  OBVIOUS
<1>1. now' = now + 1 /\ now \in Nat /\ Coalesce \in Nat
  BY CacheAssumption DEF Tick, BaseInv, BaseType
<1>2. UNCHANGED <<upstream, base, baseLock, job, pc, data>>
  BY DEF Tick, shared, local
<1>3. BaseType' /\ LockHeld' /\ FetchAhead'
  BY <1>1, <1>2 DEF BaseInv, BaseType, LockHeld, FetchAhead
<1>4. CacheLags'
  BY <1>1, <1>2 DEF BaseInv, BaseType, CacheLags, Base
<1>5. FetchNeeded'
  BY <1>1, <1>2, ProcessType DEF BaseInv, BaseType, FetchNeeded, Base
<1>6. QED
  BY <1>2, <1>3, <1>4, <1>5 DEF BaseInv

LEMMA PublishStep == BaseInv /\ Publish => BaseInv' /\ base' = base
<1> SUFFICES ASSUME BaseInv, Publish PROVE BaseInv' /\ base' = base
  OBVIOUS
<1>1. upstream' = upstream + 1 /\ UNCHANGED <<now, base, baseLock, job, pc, data>>
  BY DEF Publish, shared, local
<1>2. BaseType' /\ LockHeld' /\ FetchAhead' /\ FetchNeeded'
  BY <1>1 DEF BaseInv, BaseType, LockHeld, FetchAhead, FetchNeeded
<1>3. CacheLags'
  BY <1>1 DEF BaseInv, BaseType, CacheLags, Base
<1>4. QED
  BY <1>1, <1>2, <1>3 DEF BaseInv

\* The steps that replace base data: what a fetch brought is stored.
Stores(t) == pc[t] = "fetch" /\ \E version \in {0} \cup (data[t] .. upstream) : StoreBase(t, version)

LEMMA NextStep ==
    ASSUME BaseInv, [Next]_vars
    PROVE  BaseInv' /\ (base' = base \/ \E t \in Tasks : Stores(t))
<1>1. CASE UNCHANGED vars
  <2>1. UNCHANGED <<now, upstream, base, baseLock, job, pc, data>>
    BY <1>1 DEF vars, world, shared, local
  <2>2. QED
    BY <2>1, Aside DEF BaseInv, BaseType
<1>2. ASSUME NEW t \in Tasks, Run(t)
      PROVE  BaseInv' /\ (base' = base \/ Stores(t))
  <2>1. BaseInv'
    BY <1>2, RunStep
  <2>2. CASE BaseFetched(t)
    BY <2>1, <2>2 DEF BaseFetched, Stores
  <2>3. CASE ~BaseFetched(t)
    BY <1>2, <2>1, <2>3 DEF Run, StartRefresh, StartWarm, Prewarm, Hydrated, ScopeFetched, Store,
       shared
  <2>4. QED
    BY <2>2, <2>3
<1>3. ASSUME NEW t \in Tasks, NothingFetched(t)
      PROVE  BaseInv' /\ Stores(t)
  <2>1. 0 \in 0 .. upstream
    BY DEF BaseInv, BaseType
  <2>2. QED
    BY <1>3, <2>1, StoreStep DEF NothingFetched, Stores
<1>4. QED
  BY <1>1, <1>2, <1>3, ViewStep, AcquiresStep, FailStep, TickStep, PublishStep DEF Next

\* No two tasks of a process work on its base data at a time, cached base data is
\* no newer than the sources, and a fetch under way is due and will not return
\* older data than it replaces.
THEOREM BaseSafety == Spec => []BaseInv
<1>1. BaseInv /\ [Next]_vars => BaseInv'
  BY NextStep
<1>2. QED
  BY InitInv, <1>1, PTL DEF Spec

\* Base data is never replaced by older base data (_get_base_data): by the
\* invariant a fetch began with a version at least that of the cached data, and
\* only the task that holds the lock replaces it.
THEOREM BaseMonotonic == Spec => BaseNeverGoesBack
<1>1. ASSUME BaseInv, [Next]_vars, NEW p \in Processes, base[p] # None
      PROVE  base'[p].version = 0 \/ base'[p].version >= base[p].version
  <2>1. base[p] \in Base
    BY <1>1 DEF BaseInv, BaseType
  <2>2. CASE base' = base
    BY <2>1, <2>2 DEF Base
  <2>3. ASSUME NEW t \in Tasks, Stores(t)
        PROVE  base'[p].version = 0 \/ base'[p].version >= base[p].version
    <3>1. PICK version \in {0} \cup (data[t] .. upstream) : StoreBase(t, version)
      BY <2>3 DEF Stores
    <3>2. CASE Process(t) = p
      <4>1. base[p].version <= data[t] /\ data[t] \in Nat /\ upstream \in Nat
        BY <1>1, <2>3, <3>2 DEF Stores, BaseInv, BaseType, FetchAhead
      <4>2. base'[p].version = version
        BY <1>1, <3>1, <3>2 DEF StoreBase, BaseInv, BaseType
      <4>3. QED
        BY <2>1, <4>1, <4>2 DEF Base
    <3>3. CASE Process(t) # p
      BY <1>1, <2>1, <3>1, <3>3 DEF StoreBase, BaseInv, BaseType, Base
    <3>4. QED
      BY <3>2, <3>3
  <2>4. QED
    BY <1>1, <2>2, <2>3, NextStep
<1>2. BaseInv /\ [Next]_vars =>
        [\A p \in Processes :
           base[p] # None => base'[p].version = 0 \/ base'[p].version >= base[p].version]_vars
  BY <1>1
<1>3. QED
  BY BaseSafety, <1>2, PTL DEF Spec, BaseNeverGoesBack

\* A refresh does not replace what another refresh fetched within the coalescing
\* window (_get_base_data): by the invariant a forced fetch runs outside the
\* window, and any other fetch finds the cached data expired.
THEOREM ForcedSpacing == Spec => ForcedFetchesSpaced
<1>1. ASSUME BaseInv, [Next]_vars, NEW p \in Processes, base[p] # None, base[p].forced # None,
             base'[p] # base[p], base'[p].forced = now
      PROVE  now > base[p].forced + Coalesce
  <2>1. PICK t \in Tasks : Stores(t)
    BY <1>1, NextStep
  <2>2. PICK version \in {0} \cup (data[t] .. upstream) : StoreBase(t, version)
    BY <2>1 DEF Stores
  <2>3. Process(t) = p
    BY <1>1, <2>2 DEF StoreBase, BaseInv, BaseType
  <2>4. CASE job[t].refresh
    BY <1>1, <2>1, <2>3, <2>4 DEF Stores, BaseInv, FetchNeeded
  <2>5. CASE ~job[t].refresh
    <3>1. base'[p].forced = base[p].forced
      BY <1>1, <2>2, <2>3, <2>5 DEF StoreBase, BaseInv, BaseType
    <3>2. base[p].expires <= now
      BY <1>1, <2>1, <2>3, <2>5 DEF Stores, BaseInv, FetchNeeded
    <3>3. base[p].forced < base[p].expires /\ base[p] \in Base /\ now \in Nat
      BY <1>1 DEF BaseInv, BaseType, CacheLags
    <3>4. base[p].forced \in Nat /\ base[p].expires \in Nat
      BY <1>1, <3>3 DEF Base
    <3>5. FALSE
      BY <1>1, <3>1, <3>2, <3>3, <3>4
    <3>6. QED
      BY <3>5
  <2>6. QED
    BY <2>4, <2>5
<1>2. BaseInv /\ [Next]_vars =>
        [\A p \in Processes :
          /\ base[p] # None /\ base[p].forced # None
          /\ base'[p] # base[p] /\ base'[p].forced = now
          => now > base[p].forced + Coalesce]_vars
  BY <1>1
<1>3. QED
  BY BaseSafety, <1>2, PTL DEF Spec, ForcedFetchesSpaced

----------------------------------------------------------------------------
(* The locks of the views *)

LockEntry == [key : Keys, id : Nat]

Builds == {"request", "refresh"}

\* A lock table does not outgrow its bound, and has one lock of its own for each
\* of its keys.
LockTables ==
    /\ locks \in [Processes -> Seq(LockEntry)]
    /\ \A p \in Processes :
          /\ Len(locks[p]) <= LocksMax
          /\ \A i, j \in 1 .. Len(locks[p]) :
                i # j => locks[p][i].key # locks[p][j].key /\ locks[p][i].id # locks[p][j].id

\* Only the builds of views, which the prewarm worker does not run, use key locks.
LockUse ==
    /\ lock \in [Tasks -> Nat \cup {None}]
    /\ \A t \in Tasks :
          /\ job[t].kind \in Builds => job[t].key \in Keys /\ t[2] \in Slots
          /\ job[t].kind \in Builds => pc[t] = "start" \/ lock[t] # None
          /\ lock[t] # None => job[t].kind \in Builds
          /\ pc[t] \in {"idle", "start"} => lock[t] = None
          /\ pc[t] \in {"keylock", "scoped", "compute"} => job[t].kind \in Builds

\* A lock has one holder, whether it is still in the table or not.
OneHolder ==
    \A t, u \in Tasks :
       /\ t # u /\ Process(t) = Process(u)
       /\ lock[t] # None /\ lock[t] = lock[u]
       => pc[t] \notin Building \/ pc[u] \notin Building

\* The lock a task uses is the one the table has for its key.
InTable(t) ==
    \E i \in 1 .. Len(locks[Process(t)]) :
       /\ locks[Process(t)][i].key = job[t].key
       /\ locks[Process(t)][i].id = lock[t]

\* While no lock is evicted, every lock in use is in the table.
LocksKept ==
    Cardinality(Keys) <= LocksMax => \A t \in Tasks : lock[t] # None => InTable(t)

LockInv == LockTables /\ LockUse /\ OneHolder /\ LocksKept

----------------------------------------------------------------------------
(* Looking a lock up *)

LEMMA TableEntry ==
    ASSUME LockTables, NEW p \in Processes
    PROVE  /\ Len(locks[p]) \in Nat /\ Len(locks[p]) <= LocksMax
           /\ DOMAIN locks[p] = 1 .. Len(locks[p])
           /\ \A i \in 1 .. Len(locks[p]) : locks[p][i] \in LockEntry
           /\ \A i \in 1 .. Len(locks[p]) : locks[p][i].key \in Keys /\ locks[p][i].id \in Nat
<1>1. locks[p] \in Seq(LockEntry) /\ Len(locks[p]) <= LocksMax
  BY DEF LockTables
<1>2. /\ Len(locks[p]) \in Nat /\ DOMAIN locks[p] = 1 .. Len(locks[p])
      /\ \A i \in 1 .. Len(locks[p]) : locks[p][i] \in LockEntry
  BY <1>1, LenProperties, ElementOfSeq
<1>3. QED
  BY <1>1, <1>2 DEF LockEntry

\* There are fewer locks in a table and in use than numbers for them.
LEMMA FreshLockId ==
    ASSUME LockTables, LockUse, NEW p \in Processes
    PROVE  /\ NewLockId(p) \in Nat
           /\ \A i \in 1 .. Len(locks[p]) : locks[p][i].id # NewLockId(p)
<1> DEFINE n == Len(locks[p])
           most == LocksMax + Cardinality(Slots)
           tabled == {locks[p][i].id : i \in 1 .. n}
           used == {lock[<<p, s>>] : s \in Slots}
<1>1. /\ LocksMax \in Nat /\ None \notin Nat /\ IsFiniteSet(Slots)
      /\ Cardinality(Slots) \in Nat /\ n \in Nat /\ n <= LocksMax
      /\ DOMAIN locks[p] = 1 .. n
  BY CacheAssumption, FinitenessAssumption, FS_CardinalityType, TableEntry
<1>2. IsFiniteSet(tabled) /\ Cardinality(tabled) <= n
  <2> DEFINE f == [i \in 1 .. n |-> locks[p][i].id]
  <2>1. f \in Surjection(1 .. n, tabled)
    BY DEF Surjection
  <2>2. IsFiniteSet(1 .. n) /\ Cardinality(1 .. n) = n
    <3>1. 1 \in Int /\ n \in Int
      BY <1>1
    <3>2. IsFiniteSet(1 .. n) /\ Cardinality(1 .. n) = IF 1 > n THEN 0 ELSE n - 1 + 1
      BY <3>1, FS_Interval
    <3>3. QED
      BY <1>1, <3>2
  <2>3. QED
    BY <2>1, <2>2, FS_Surjection
<1>3. IsFiniteSet(used) /\ Cardinality(used) <= Cardinality(Slots)
  <2> DEFINE f == [s \in Slots |-> lock[<<p, s>>]]
  <2>1. f \in Surjection(Slots, used)
    BY DEF Surjection
  <2>2. QED
    BY <1>1, <2>1, FS_Surjection
<1>4. IsFiniteSet(tabled \cup used) /\ Cardinality(tabled \cup used) <= most
  <2>1. /\ IsFiniteSet(tabled \cup used)
        /\ Cardinality(tabled \cup used) =
              Cardinality(tabled) + Cardinality(used) - Cardinality(tabled \cap used)
    BY <1>2, <1>3, FS_Union
  <2>2. /\ Cardinality(tabled) \in Nat /\ Cardinality(used) \in Nat
        /\ Cardinality(tabled \cap used) \in Nat
    BY <1>2, <1>3, FS_Intersection, FS_CardinalityType
  <2>3. QED
    BY <1>1, <1>2, <1>3, <2>1, <2>2
<1>5. PICK m \in 0 .. most : m \notin tabled \cup used
  <2>1. SUFFICES ASSUME 0 .. most \subseteq tabled \cup used PROVE FALSE
    OBVIOUS
  <2>2. Cardinality(0 .. most) = most + 1
    BY <1>1, FS_Interval
  <2>3. Cardinality(0 .. most) <= Cardinality(tabled \cup used)
    BY <1>4, <2>1, FS_Subset
  <2>4. Cardinality(tabled \cup used) \in Nat
    BY <1>4, FS_CardinalityType
  <2>5. QED
    BY <1>1, <1>4, <2>2, <2>3, <2>4
<1>6. \A i \in DOMAIN locks[p] : locks[p][i].id # m
  BY <1>1, <1>5
<1>7. \A t \in Tasks : Process(t) = p => lock[t] # m
  <2>1. ASSUME NEW t \in Tasks, Process(t) = p
        PROVE  lock[t] # m
    <3>1. t = <<p, t[2]>> /\ t[2] \in Slots \cup {Prewarmer}
      BY <2>1 DEF Tasks, Process
    <3>2. CASE t[2] \in Slots
      BY <1>5, <3>1, <3>2
    <3>3. CASE t[2] \notin Slots
      <4>1. lock[t] = None
        BY <3>3 DEF LockUse
      <4>2. QED
        BY <1>1, <1>5, <4>1
    <3>4. QED
      BY <3>2, <3>3
  <2>2. QED
    BY <2>1
<1>8. /\ NewLockId(p) \in 0 .. most
      /\ \A i \in DOMAIN locks[p] : locks[p][i].id # NewLockId(p)
  BY <1>5, <1>6, <1>7, Zenon DEF NewLockId
<1>9. QED
  BY <1>1, <1>8

\* A table that has no lock for some key has fewer than one for each key.
LEMMA RoomForKey ==
    ASSUME LockTables, NEW p \in Processes, NEW k \in Keys,
           \A i \in 1 .. Len(locks[p]) : locks[p][i].key # k
    PROVE  Len(locks[p]) < Cardinality(Keys)
<1> DEFINE n == Len(locks[p])
           others == Keys \ {k}
           f == [i \in 1 .. n |-> locks[p][i].key]
<1>1. n \in Nat /\ \A i \in 1 .. n : locks[p][i].key \in others
  BY TableEntry
<1>2. IsFiniteSet(others) /\ Cardinality(others) = Cardinality(Keys) - 1
  BY FinitenessAssumption, FS_RemoveElement
<1>3. f \in Injection(1 .. n, others)
  BY <1>1 DEF LockTables, Injection, IsInjective
<1>4. Cardinality(1 .. n) <= Cardinality(others)
  BY <1>2, <1>3, FS_Injection
<1>5. Cardinality(1 .. n) = n
  BY <1>1, FS_Interval
<1>6. Cardinality(Keys) \in Nat
  BY FinitenessAssumption, FS_CardinalityType
<1>7. QED
  BY <1>1, <1>2, <1>4, <1>5, <1>6

\* A full table loses its oldest entries.
Trimmed(p) ==
    IF Len(locks[p]) >= LocksMax THEN SubSeq(locks[p], Evicted + 1, Len(locks[p])) ELSE locks[p]

\* What is left of a table without its first d entries, with room for one more.
Rest(kept, table, d) ==
    /\ kept \in Seq(LockEntry) /\ Len(kept) \in Nat /\ Len(kept) < LocksMax
    /\ \A i \in 1 .. Len(kept) : i + d \in 1 .. Len(table) /\ kept[i] = table[i + d]

LEMMA Eviction ==
    ASSUME LockTables, NEW p \in Processes
    PROVE  \E d \in Nat : Rest(Trimmed(p), locks[p], d)
<1> DEFINE n == Len(locks[p])
           rest == SubSeq(locks[p], Evicted + 1, n)
<1>1. /\ locks[p] \in Seq(LockEntry) /\ n \in Nat /\ n <= LocksMax
      /\ \A i \in 1 .. n : locks[p][i] \in LockEntry
      /\ LocksMax \in Nat \ {0} /\ Evicted \in 1 .. LocksMax
  BY TableEntry, CacheAssumption DEF LockTables
<1>2. CASE n < LocksMax
  <2>1. \A i \in 1 .. n : i + 0 = i
    BY <1>1
  <2>2. Trimmed(p) = locks[p]
    BY <1>1, <1>2 DEF Trimmed
  <2>3. Rest(locks[p], locks[p], 0)
    BY <1>1, <1>2, <2>1 DEF Rest
  <2>4. QED
    BY <2>2, <2>3
<1>3. CASE n >= LocksMax
  <2>1. /\ Evicted + 1 \in Int /\ n \in Int
        /\ \A i \in Evicted + 1 .. n : locks[p][i] \in LockEntry
    BY <1>1
  <2>2. /\ rest \in Seq(LockEntry)
        /\ Len(rest) = IF Evicted + 1 <= n THEN n - (Evicted + 1) + 1 ELSE 0
        /\ \A i \in 1 .. n - (Evicted + 1) + 1 : rest[i] = locks[p][Evicted + 1 + i - 1]
    BY <2>1, SubSeqProperties
  <2>3. Trimmed(p) = rest
    BY <1>3 DEF Trimmed
  <2> HIDE DEF rest
  <2>4. Len(rest) \in Nat /\ Len(rest) < LocksMax /\ Len(rest) + Evicted = n
    BY <1>1, <1>3, <2>2
  <2>5. ASSUME NEW i \in 1 .. Len(rest)
        PROVE  i + Evicted \in 1 .. n /\ rest[i] = locks[p][i + Evicted]
    <3>1. i + Evicted \in 1 .. n /\ i \in 1 .. n - (Evicted + 1) + 1
      BY <1>1, <2>4
    <3>2. Evicted + 1 + i - 1 = i + Evicted
      BY <1>1, <2>4
    <3>3. QED
      BY <2>2, <3>1, <3>2
  <2>6. Rest(rest, locks[p], Evicted)
    BY <2>2, <2>4, <2>5 DEF Rest
  <2>7. QED
    BY <1>1, <2>3, <2>6
<1>4. QED
  BY <1>1, <1>2, <1>3

\* What _get_lock returns, and the table it leaves.
LEMMA GetLockFound ==
    ASSUME LockTables, LockUse, NEW p \in Processes, NEW k \in Keys
    PROVE  LET table == GetLock(p, k)
           IN  /\ table \in Seq(LockEntry)
               /\ Len(table) <= LocksMax
               /\ \A i, j \in 1 .. Len(table) :
                     i # j => table[i].key # table[j].key /\ table[i].id # table[j].id
               /\ LockId(table, k) \in Nat
               /\ \E i \in 1 .. Len(table) : table[i].key = k /\ table[i].id = LockId(table, k)
               /\ Cardinality(Keys) <= LocksMax =>
                     \A i \in 1 .. Len(locks[p]) : i \in 1 .. Len(table) /\ table[i] = locks[p][i]
<1> DEFINE old == locks[p]
           table == GetLock(p, k)
           new == [key |-> k, id |-> NewLockId(p)]
           kept == Trimmed(p)
<1>1. /\ old \in Seq(LockEntry) /\ Len(old) \in Nat /\ Len(old) <= LocksMax
      /\ DOMAIN old = 1 .. Len(old) /\ \A i \in 1 .. Len(old) : old[i] \in LockEntry
      /\ \A i, j \in 1 .. Len(old) : i # j => old[i].key # old[j].key /\ old[i].id # old[j].id
  BY TableEntry DEF LockTables
<1>2. NewLockId(p) \in Nat /\ \A i \in 1 .. Len(old) : old[i].id # NewLockId(p)
  BY FreshLockId
<1>3. LocksMax \in Nat \ {0} /\ Evicted \in 1 .. LocksMax
  BY CacheAssumption
<1>4. /\ table \in Seq(LockEntry)
      /\ Len(table) <= LocksMax
      /\ \A i, j \in 1 .. Len(table) :
            i # j => table[i].key # table[j].key /\ table[i].id # table[j].id
      /\ \E i \in 1 .. Len(table) : table[i].key = k
      /\ Cardinality(Keys) <= LocksMax =>
            \A i \in 1 .. Len(old) : i \in 1 .. Len(table) /\ table[i] = old[i]
  <2>1. CASE \E i \in 1 .. Len(old) : old[i].key = k
    <3>1. table = old
      BY <1>1, <2>1 DEF GetLock
    <3>2. QED
      BY <1>1, <2>1, <3>1
  <2>2. CASE \A i \in 1 .. Len(old) : old[i].key # k
    <3>1. table = Append(kept, new)
      BY <1>1, <2>2 DEF GetLock, Trimmed
    <3>2. new \in LockEntry
      BY <1>2 DEF LockEntry
    <3>3. PICK d \in Nat :
             /\ kept \in Seq(LockEntry) /\ Len(kept) \in Nat /\ Len(kept) < LocksMax
             /\ \A i \in 1 .. Len(kept) : i + d \in 1 .. Len(old) /\ kept[i] = old[i + d]
      BY Eviction DEF Rest
    <3> HIDE DEF kept, new
    <3>5. /\ Append(kept, new) \in Seq(LockEntry)
          /\ Len(Append(kept, new)) = Len(kept) + 1
          /\ \A i \in 1 .. Len(kept) : Append(kept, new)[i] = kept[i]
          /\ Append(kept, new)[Len(kept) + 1] = new
      BY <3>2, <3>3, AppendProperties
    <3>6. new.key = k /\ new.id = NewLockId(p)
      BY DEF new
    <3>7. \A i \in 1 .. Len(kept) : kept[i].key # new.key /\ kept[i].id # new.id
      BY <1>2, <2>2, <3>3, <3>6
    <3>8. \A i, j \in 1 .. Len(kept) :
             i # j => kept[i].key # kept[j].key /\ kept[i].id # kept[j].id
      <4>1. ASSUME NEW i \in 1 .. Len(kept), NEW j \in 1 .. Len(kept), i # j
            PROVE  kept[i].key # kept[j].key /\ kept[i].id # kept[j].id
        <5>1. i + d \in 1 .. Len(old) /\ j + d \in 1 .. Len(old) /\ i + d # j + d
          BY <3>3, <4>1
        <5>2. kept[i] = old[i + d] /\ kept[j] = old[j + d]
          BY <3>3
        <5>3. QED
          BY <1>1, <5>1, <5>2
      <4>2. QED
        BY <4>1
    <3> HIDE DEF table
    <3>9. /\ Len(table) = Len(kept) + 1 /\ table[Len(table)] = new
          /\ \A i \in 1 .. Len(table) : i # Len(table) => i \in 1 .. Len(kept) /\ table[i] = kept[i]
      BY <3>1, <3>3, <3>5
    <3>10. \A i, j \in 1 .. Len(table) :
             i # j => table[i].key # table[j].key /\ table[i].id # table[j].id
      <4>1. ASSUME NEW i \in 1 .. Len(table), NEW j \in 1 .. Len(table), i # j
            PROVE  table[i].key # table[j].key /\ table[i].id # table[j].id
        <5>1. CASE i = Len(table)
          BY <3>7, <3>9, <4>1, <5>1
        <5>2. CASE j = Len(table)
          BY <3>7, <3>9, <4>1, <5>2
        <5>3. CASE i # Len(table) /\ j # Len(table)
          BY <3>8, <3>9, <4>1, <5>3
        <5>4. QED
          BY <5>1, <5>2, <5>3
      <4>2. QED
        BY <4>1
    <3>11. \E i \in 1 .. Len(table) : table[i].key = k
      BY <3>3, <3>6, <3>9
    <3>12. Cardinality(Keys) <= LocksMax =>
            \A i \in 1 .. Len(old) : i \in 1 .. Len(table) /\ table[i] = old[i]
      <4>1. SUFFICES ASSUME Cardinality(Keys) <= LocksMax
                     PROVE  \A i \in 1 .. Len(old) : i \in 1 .. Len(table) /\ table[i] = old[i]
        OBVIOUS
      <4>2. Len(old) < Cardinality(Keys) /\ Cardinality(Keys) \in Nat
        BY <2>2, RoomForKey, FinitenessAssumption, FS_CardinalityType
      <4>3. kept = old
        BY <1>1, <1>3, <4>1, <4>2 DEF kept, Trimmed
      <4>4. QED
        BY <1>1, <3>1, <3>5, <4>3
    <3>13. table \in Seq(LockEntry) /\ Len(table) <= LocksMax
      BY <1>3, <3>1, <3>3, <3>5
    <3>14. QED
      BY <3>10, <3>11, <3>12, <3>13 DEF table
  <2>3. QED
    BY <2>1, <2>2
<1> HIDE DEF table
<1>5. \E i \in 1 .. Len(table) : table[i].key = k /\ table[i].id = LockId(table, k)
  <2> DEFINE entries == {table[i] : i \in DOMAIN table}
             e == CHOOSE x \in entries : x.key = k
  <2>1. DOMAIN table = 1 .. Len(table)
    BY <1>4, LenProperties
  <2>2. \E x \in entries : x.key = k
    BY <1>4, <2>1
  <2>3. e \in entries /\ e.key = k
    BY <2>2, Zenon
  <2>4. LockId(table, k) = e.id
    BY DEF LockId
  <2>5. QED
    BY <2>1, <2>3, <2>4
<1>6. LockId(table, k) \in Nat
  <2>1. \A i \in 1 .. Len(table) : table[i] \in LockEntry
    BY <1>4, ElementOfSeq
  <2>2. QED
    BY <1>5, <2>1 DEF LockEntry
<1>7. QED
  BY <1>4, <1>5, <1>6 DEF table

----------------------------------------------------------------------------
(* The key locks *)

\* What a task may do with its lock: keep it or let go of it, and enter only
\* when nobody holds it.
LEMMA LockTaskStep ==
    ASSUME BaseType, LockInv, NEW t \in Tasks, locks' = locks,
           NEW j \in Job, NEW where \in {"idle", "start", "keylock"} \cup Building,
           NEW id \in {lock[t], None},
           job' = [job EXCEPT ![t] = j], pc' = [pc EXCEPT ![t] = where],
           lock' = [lock EXCEPT ![t] = id],
           j.kind \in Builds => j.key \in Keys /\ t[2] \in Slots,
           j.kind \in Builds => where = "start" \/ id # None,
           id # None => j.kind \in Builds /\ j.key = job[t].key,
           where \in {"idle", "start"} => id = None,
           where \in {"keylock", "scoped", "compute"} => j.kind \in Builds,
           where \in Building /\ id # None => pc[t] \in Building \/ KeyFree(t)
    PROVE  LockInv'
<1>1. /\ lock \in [Tasks -> Nat \cup {None}] /\ None \notin Nat
      /\ job'[t] = j /\ pc'[t] = where /\ lock'[t] = id
      /\ \A u \in Tasks : u # t => job'[u] = job[u] /\ pc'[u] = pc[u] /\ lock'[u] = lock[u]
  BY CacheAssumption DEF LockInv, LockUse, BaseType
<1>2. LockTables'
  BY DEF LockInv, LockTables
<1>3. LockUse'
  BY <1>1 DEF LockInv, LockUse
<1>4. OneHolder'
  <2>1. ASSUME NEW u \in Tasks, NEW v \in Tasks, u # v, Process(u) = Process(v),
               lock'[u] # None, lock'[u] = lock'[v], pc'[u] \in Building, pc'[v] \in Building
        PROVE  FALSE
    <3>1. \A w \in Tasks : lock'[w] # None => lock'[w] = lock[w]
      BY <1>1
    <3>2. lock[u] # None /\ lock[u] = lock[v]
      BY <2>1, <3>1
    <3>3. pc[u] \notin Building \/ pc[v] \notin Building
      BY <2>1, <3>2 DEF LockInv, OneHolder
    <3>4. CASE u = t
      BY <1>1, <2>1, <3>2, <3>3, <3>4 DEF KeyFree, Held
    <3>5. CASE v = t
      BY <1>1, <2>1, <3>2, <3>3, <3>5 DEF KeyFree, Held
    <3>6. CASE u # t /\ v # t
      BY <1>1, <2>1, <3>3, <3>6
    <3>7. QED
      BY <3>4, <3>5, <3>6
  <2>2. QED
    BY <2>1 DEF OneHolder
<1>5. LocksKept'
  <2>1. SUFFICES ASSUME Cardinality(Keys) <= LocksMax, NEW u \in Tasks, lock'[u] # None
                 PROVE  InTable(u)'
    BY DEF LocksKept
  <2>2. lock[u] # None /\ job'[u].key = job[u].key /\ lock'[u] = lock[u]
    BY <1>1, <2>1
  <2>3. InTable(u)
    BY <2>1, <2>2 DEF LockInv, LocksKept
  <2>4. QED
    BY <2>2, <2>3 DEF InTable
<1>6. QED
  BY <1>2, <1>3, <1>4, <1>5 DEF LockInv

\* A look-up leaves good tables, and while nothing is evicted every lock in its place.
LEMMA LookUpTables ==
    ASSUME LockInv, NEW p \in Processes, NEW k \in Keys,
           locks' = [locks EXCEPT ![p] = GetLock(p, k)]
    PROVE  /\ LockTables'
           /\ Cardinality(Keys) <= LocksMax =>
                 \A t \in Tasks : InTable(t) =>
                    \E i \in 1 .. Len(locks'[Process(t)]) :
                       /\ locks'[Process(t)][i].key = job[t].key
                       /\ locks'[Process(t)][i].id = lock[t]
<1> DEFINE table == GetLock(p, k)
<1>1. /\ table \in Seq(LockEntry)
      /\ Len(table) <= LocksMax
      /\ \A i, j \in 1 .. Len(table) :
            i # j => table[i].key # table[j].key /\ table[i].id # table[j].id
      /\ Cardinality(Keys) <= LocksMax =>
            \A i \in 1 .. Len(locks[p]) : i \in 1 .. Len(table) /\ table[i] = locks[p][i]
  BY GetLockFound DEF LockInv
<1> HIDE DEF table
<1>2. /\ locks' \in [Processes -> Seq(LockEntry)] /\ locks'[p] = table
      /\ \A q \in Processes : q # p => locks'[q] = locks[q]
  BY <1>1 DEF LockInv, LockTables, table
<1>3. LockTables'
  <2>1. ASSUME NEW q \in Processes
        PROVE  /\ Len(locks'[q]) <= LocksMax
               /\ \A i, j \in 1 .. Len(locks'[q]) :
                     i # j => /\ locks'[q][i].key # locks'[q][j].key
                              /\ locks'[q][i].id # locks'[q][j].id
    BY <1>1, <1>2 DEF LockInv, LockTables
  <2>2. QED
    BY <1>2, <2>1 DEF LockTables
<1>4. ASSUME Cardinality(Keys) <= LocksMax, NEW t \in Tasks, InTable(t)
      PROVE  \E i \in 1 .. Len(locks'[Process(t)]) :
                /\ locks'[Process(t)][i].key = job[t].key
                /\ locks'[Process(t)][i].id = lock[t]
  BY <1>1, <1>2, <1>4, ProcessType DEF InTable
<1>5. QED
  BY <1>3, <1>4

\* A task waits for the lock that it looked up.
LEMMA LookUpStep ==
    ASSUME BaseType, LockInv, NEW t \in Tasks, NEW k \in Keys, t[2] \in Slots,
           locks' = [locks EXCEPT ![Process(t)] = GetLock(Process(t), k)],
           lock' = [lock EXCEPT ![t] = LockId(GetLock(Process(t), k), k)],
           NEW j \in Job, j.kind \in Builds, j.key = k,
           job' = [job EXCEPT ![t] = j], pc' = [pc EXCEPT ![t] = "keylock"]
    PROVE  LockInv'
<1> DEFINE p == Process(t)
           id == LockId(GetLock(p, k), k)
<1>1. /\ p \in Processes /\ id \in Nat /\ None \notin Nat
      /\ \E i \in 1 .. Len(locks'[p]) : locks'[p][i].key = k /\ locks'[p][i].id = id
  BY ProcessType, CacheAssumption, GetLockFound DEF LockInv, LockTables
<1> HIDE DEF id
<1>2. /\ lock' \in [Tasks -> Nat \cup {None}]
      /\ job'[t] = j /\ pc'[t] = "keylock" /\ lock'[t] = id
      /\ \A u \in Tasks : u # t => job'[u] = job[u] /\ pc'[u] = pc[u] /\ lock'[u] = lock[u]
  BY <1>1 DEF LockInv, LockUse, BaseType, id
<1>3. LockTables'
  BY <1>1, LookUpTables
<1>4. LockUse'
  BY <1>1, <1>2 DEF LockInv, LockUse
<1>5. OneHolder'
  BY <1>2 DEF LockInv, OneHolder, Building
<1>6. LocksKept'
  <2>1. SUFFICES ASSUME Cardinality(Keys) <= LocksMax, NEW u \in Tasks, lock'[u] # None
                 PROVE  InTable(u)'
    BY DEF LocksKept
  <2>2. CASE u = t
    BY <1>1, <1>2, <2>2 DEF InTable
  <2>3. CASE u # t
    <3>1. InTable(u)
      BY <1>2, <2>1, <2>3 DEF LockInv, LocksKept
    <3>2. \E i \in 1 .. Len(locks'[Process(u)]) :
             /\ locks'[Process(u)][i].key = job[u].key
             /\ locks'[Process(u)][i].id = lock[u]
      BY <1>1, <2>1, <3>1, LookUpTables
    <3>3. QED
      BY <1>2, <2>3, <3>2 DEF InTable
  <2>4. QED
    BY <2>2, <2>3
<1>7. QED
  BY <1>3, <1>4, <1>5, <1>6 DEF LockInv

\* Background tasks are started without a lock.
LEMMA SpawnLocks ==
    ASSUME BaseType, LockInv, NEW p \in Processes, NEW k \in Keys, NEW refresh \in BOOLEAN,
           NEW warm \in BOOLEAN, Spawn(p, k, refresh, warm), lock' = lock,
           locks' = locks \/ locks' = [locks EXCEPT ![p] = GetLock(p, k)]
    PROVE  LockInv'
<1> DEFINE first == [kind |-> "refresh", key |-> k, refresh |-> FALSE, ready |-> upstream > 0]
           second == [kind |-> "warm", key |-> None, refresh |-> FALSE, ready |-> upstream > 0]
<1>0. first.kind = "refresh" /\ first.key = k /\ second.kind = "warm"
  OBVIOUS
<1>1. PICK a, b \in {p} \X Slots :
         /\ a # b
         /\ refresh => pc[a] = "idle"
         /\ warm => pc[b] = "idle"
         /\ job' = [t \in Tasks |-> CASE refresh /\ t = a -> first
                                      [] warm /\ t = b -> second
                                      [] OTHER -> job[t]]
         /\ pc' = [t \in Tasks |-> IF (refresh /\ t = a) \/ (warm /\ t = b)
                                   THEN "start" ELSE pc[t]]
  BY DEF Spawn
<1> HIDE DEF first, second
<1>2. ASSUME NEW t \in Tasks
      PROVE  \/ job'[t] = job[t] /\ pc'[t] = pc[t]
             \/ /\ lock[t] = None /\ pc'[t] = "start"
                /\ job'[t].kind = "refresh" => job'[t].key = k /\ t[2] \in Slots
                /\ job'[t].kind # "request"
  <2>1. CASE refresh /\ t = a
    <3>1. job'[t] = first /\ pc'[t] = "start" /\ pc[t] = "idle"
      BY <1>1, <2>1
    <3>2. t[2] \in Slots /\ lock[t] = None
      BY <1>1, <2>1, <3>1 DEF LockInv, LockUse
    <3>3. QED
      BY <1>0, <3>1, <3>2
  <2>2. CASE ~(refresh /\ t = a) /\ warm /\ t = b
    <3>1. job'[t] = second /\ pc'[t] = "start" /\ pc[t] = "idle"
      BY <1>1, <2>2
    <3>2. lock[t] = None
      BY <3>1 DEF LockInv, LockUse
    <3>3. QED
      BY <1>0, <3>1, <3>2
  <2>3. CASE ~(refresh /\ t = a) /\ ~(warm /\ t = b)
    BY <1>1, <2>3
  <2>4. QED
    BY <2>1, <2>2, <2>3
<1>3. LockTables'
  BY LookUpTables DEF LockInv, LockTables
<1>4. LockUse'
  BY <1>2 DEF LockInv, LockUse, Builds
<1>5. OneHolder'
  BY <1>2 DEF LockInv, OneHolder
<1>6. LocksKept'
  <2>1. SUFFICES ASSUME Cardinality(Keys) <= LocksMax, NEW t \in Tasks, lock'[t] # None
                 PROVE  InTable(t)'
    BY DEF LocksKept
  <2>2. job'[t] = job[t] /\ InTable(t)
    BY <1>2, <2>1 DEF LockInv, LocksKept
  <2>3. \E i \in 1 .. Len(locks'[Process(t)]) :
           /\ locks'[Process(t)][i].key = job[t].key
           /\ locks'[Process(t)][i].id = lock[t]
    <3>1. CASE locks' = locks
      BY <2>2, <3>1 DEF InTable
    <3>2. CASE locks' = [locks EXCEPT ![p] = GetLock(p, k)]
      BY <2>1, <2>2, <3>2, LookUpTables
    <3>3. QED
      BY <3>1, <3>2
  <2>4. QED
    BY <2>2, <2>3 DEF InTable
<1>7. QED
  BY <1>3, <1>4, <1>5, <1>6 DEF LockInv

LEMMA LockQuiet ==
    ASSUME LockInv, UNCHANGED <<locks, lock, job, pc>>
    PROVE  LockInv'
<1>1. LockTables' /\ LockUse' /\ OneHolder'
  BY DEF LockInv, LockTables, LockUse, OneHolder
<1>2. LocksKept'
  BY DEF LockInv, LocksKept, InTable
<1>3. QED
  BY <1>1, <1>2 DEF LockInv

\* A task ends without its lock.
LEMMA LockFinish ==
    ASSUME BaseType, LockInv, NEW t \in Tasks, locks' = locks, Finish(t)
    PROVE  LockInv'
<1>1. /\ job' = [job EXCEPT ![t] = NoJob] /\ pc' = [pc EXCEPT ![t] = "idle"]
      /\ lock' = [lock EXCEPT ![t] = None]
  BY DEF Finish, Idle
<1>2. NoJob \in Job /\ NoJob.kind \notin Builds /\ "idle" \notin Building
  BY DEF NoJob, Job, Builds, Building
<1>3. QED
  BY <1>1, <1>2, LockTaskStep

\* A task goes on with the lock it has.
LEMMA LockSuspend ==
    ASSUME BaseType, LockInv, NEW t \in Tasks, locks' = locks,
           NEW where \in Building, NEW version, Suspend(t, where, version),
           pc[t] \in Building \/ KeyFree(t) \/ lock[t] = None,
           job[t].kind \in Builds \/ where \notin {"scoped", "compute"},
           pc[t] # "start" \/ job[t].kind \notin Builds
    PROVE  LockInv'
<1>1. /\ job' = [job EXCEPT ![t] = job[t]] /\ pc' = [pc EXCEPT ![t] = where]
      /\ lock' = [lock EXCEPT ![t] = lock[t]]
  BY DEF Suspend, BaseType, LockInv, LockUse
<1>2. job[t] \in Job /\ where \notin {"idle", "start", "keylock"}
  BY DEF BaseType, Building
<1>3. /\ job[t].kind \in Builds => job[t].key \in Keys /\ t[2] \in Slots /\ lock[t] # None
      /\ lock[t] # None => job[t].kind \in Builds
  BY DEF LockInv, LockUse
<1>4. QED
  BY <1>1, <1>2, <1>3, LockTaskStep

LEMMA GotBaseLocks ==
    ASSUME BaseType, LockInv, NEW t \in Tasks, locks' = locks, pc[t] \in {"hydrate", "fetch"},
           NEW version, GotBase(t, version)
    PROVE  LockInv'
<1>1. CASE job[t].kind \in Builds
  <2>1. Suspend(t, "compute", version)
    BY <1>1 DEF GotBase, Builds
  <2>2. pc[t] \in Building /\ pc[t] # "start" /\ "compute" \in Building
    BY DEF Building
  <2>3. QED
    BY <1>1, <2>1, <2>2, LockSuspend
<1>2. CASE job[t].kind \notin Builds
  BY <1>2, LockFinish DEF GotBase, Builds
<1>3. QED
  BY <1>1, <1>2

LEMMA LockView ==
    ASSUME BaseType, LockInv, NEW p \in Processes, NEW k \in Keys, View(p, k)
    PROVE  LockInv'
<1>1. ASSUME NEW rebuild \in BOOLEAN, Answer(p, k, rebuild)
      PROVE  LockInv'
  <2>1. lock' = lock /\ (locks' = locks \/ locks' = [locks EXCEPT ![p] = GetLock(p, k)])
    BY <1>1 DEF Answer
  <2>2. (rebuild /\ ~Locked(p, k)) \in BOOLEAN /\ (~BaseFresh(p)) \in BOOLEAN
    OBVIOUS
  <2>3. Spawn(p, k, rebuild /\ ~Locked(p, k), ~BaseFresh(p))
    BY <1>1 DEF Answer
  <2>4. QED
    BY <2>1, <2>2, <2>3, SpawnLocks
<1>2. CASE ServeFresh(p, k)
  <2>1. Answer(p, k, ~Kept(p)[k].complete)
    BY <1>2 DEF ServeFresh
  <2>2. Answer(p, k, TRUE) \/ Answer(p, k, FALSE)
    BY <2>1 DEF Answer, Spawn
  <2>3. QED
    BY <1>1, <2>2
<1>3. CASE ServeStale(p, k)
  BY <1>1, <1>3 DEF ServeStale
<1>4. CASE ServeFallback(p, k)
  BY <1>1, <1>4 DEF ServeFallback
<1>5. CASE Request(p, k)
  <2>1. PICK refresh \in BOOLEAN, t \in {p} \X Slots :
           /\ pc' = [pc EXCEPT ![t] = "keylock"]
           /\ job' = Begin(t, "request", k, refresh)
           /\ locks' = [locks EXCEPT ![p] = GetLock(p, k)]
           /\ lock' = [lock EXCEPT ![t] = LockId(GetLock(p, k), k)]
    BY <1>5 DEF Request
  <2>2. t \in Tasks /\ Process(t) = p /\ t[2] \in Slots
    BY DEF Tasks, Process
  <2> DEFINE j == [kind |-> "request", key |-> k, refresh |-> refresh, ready |-> upstream > 0]
  <2>3. j \in Job /\ j.kind \in Builds /\ j.key = k
    BY DEF Job, Builds
  <2>4. job' = [job EXCEPT ![t] = j]
    BY <2>1, Zenon DEF Begin
  <2> HIDE DEF j
  <2>5. QED
    BY <2>1, <2>2, <2>3, <2>4, LookUpStep
<1>6. QED
  BY <1>2, <1>3, <1>4, <1>5 DEF View

LEMMA LockRun ==
    ASSUME BaseType, LockInv, NEW t \in Tasks, Run(t) \/ NothingFetched(t) \/ Fail(t)
    PROVE  LockInv'
<1>1. CASE StartRefresh(t)
  <2>1. /\ job[t] \in Job /\ job[t].kind \in Builds /\ job[t].key \in Keys /\ t[2] \in Slots
        /\ job' = [job EXCEPT ![t] = job[t]]
    BY <1>1 DEF StartRefresh, BaseType, LockInv, LockUse, Builds
  <2>2. QED
    BY <1>1, <2>1, LookUpStep DEF StartRefresh
<1>2. CASE StartWarm(t)
  <2>1. locks' = locks /\ job[t].kind \notin Builds /\ lock[t] = None
    BY <1>2 DEF StartWarm, Builds, LockInv, LockUse
  <2>2. Finish(t) \/ Suspend(t, "baselock", 0)
    BY <1>2 DEF StartWarm
  <2>3. "baselock" \in Building
    BY DEF Building
  <2>4. QED
    BY <2>1, <2>2, <2>3, LockFinish, LockSuspend
<1>3. CASE Prewarm(t)
  <2> DEFINE j == [kind |-> "prewarm", key |-> None, refresh |-> TRUE, ready |-> upstream > 0]
  <2>1. j \in Job /\ j.kind \notin Builds
    BY DEF Job, Builds
  <2>2. job' = [job EXCEPT ![t] = j]
    BY <1>3, Zenon DEF Prewarm, Begin
  <2> HIDE DEF j
  <2>3. lock[t] = None /\ lock' = [lock EXCEPT ![t] = None]
    BY <1>3 DEF Prewarm, LockInv, LockUse
  <2>4. locks' = locks /\ pc' = [pc EXCEPT ![t] = "baselock"]
    BY <1>3 DEF Prewarm
  <2>5. "baselock" \in Building
    BY DEF Building
  <2>6. QED
    BY <2>1, <2>2, <2>3, <2>4, <2>5, LockTaskStep
<1>4. CASE Hydrated(t)
  BY <1>4, GotBaseLocks DEF Hydrated
<1>5. CASE BaseFetched(t) \/ NothingFetched(t)
  <2>1. PICK version : StoreBase(t, version)
    BY <1>5 DEF BaseFetched, NothingFetched
  <2>2. pc[t] = "fetch"
    BY <1>5 DEF BaseFetched, NothingFetched
  <2>3. QED
    BY <2>1, <2>2, GotBaseLocks DEF StoreBase
<1>6. CASE ScopeFetched(t)
  <2>1. PICK version : Suspend(t, "compute", version)
    BY <1>6 DEF ScopeFetched
  <2>2. /\ locks' = locks /\ pc[t] \in Building /\ pc[t] # "start" /\ "compute" \in Building
        /\ job[t].kind \in Builds
    BY <1>6 DEF ScopeFetched, Building, LockInv, LockUse
  <2>3. QED
    BY <2>1, <2>2, LockSuspend
<1>7. CASE Store(t)
  BY <1>7, LockFinish DEF Store
<1>8. CASE Fail(t)
  BY <1>8, LockFinish DEF Fail
<1>9. QED
  BY <1>1, <1>2, <1>3, <1>4, <1>5, <1>6, <1>7, <1>8 DEF Run

LEMMA LockAcquire ==
    ASSUME BaseType, LockInv, NEW t \in Tasks, Acquire(t)
    PROVE  LockInv'
<1>1. CASE FindBuilt(t)
  BY <1>1, LockFinish DEF FindBuilt
<1>2. CASE Build(t)
  <2>1. PICK where \in {"compute", "baselock", "scoped"} : \E version : Suspend(t, where, version)
    BY <1>2 DEF Build
  <2>2. /\ locks' = locks /\ KeyFree(t) /\ pc[t] # "start" /\ job[t].kind \in Builds
        /\ where \in Building
    BY <1>2 DEF Build, Building, LockInv, LockUse
  <2>3. QED
    BY <2>1, <2>2, LockSuspend
<1>3. CASE ReuseBase(t) \/ FetchBase(t)
  <2>1. PICK where \in {"hydrate", "fetch"} : \E version : Suspend(t, where, version)
    BY <1>3 DEF ReuseBase, FetchBase
  <2>2. /\ locks' = locks /\ pc[t] \in Building /\ pc[t] # "start" /\ where \in Building
        /\ where \notin {"scoped", "compute"}
    BY <1>3 DEF ReuseBase, FetchBase, Building
  <2>3. QED
    BY <2>1, <2>2, LockSuspend
<1>4. QED
  BY <1>1, <1>2, <1>3 DEF Acquire

LEMMA LockStep == BaseInv /\ LockInv /\ [Next]_vars => LockInv'
<1> SUFFICES ASSUME BaseType, LockInv, [Next]_vars PROVE LockInv'
  BY DEF BaseInv
<1>1. CASE Publish \/ Tick \/ UNCHANGED vars
  BY <1>1, LockQuiet DEF Publish, Tick, vars, local
<1>2. QED
  BY <1>1, LockView, LockRun, LockAcquire DEF Next

LEMMA LockInit == Init => LockInv
<1> SUFFICES ASSUME Init PROVE LockInv
  OBVIOUS
<1>1. LockTables
  <2>1. locks = [p \in Processes |-> << >>] /\ LocksMax \in Nat
    BY CacheAssumption DEF Init
  <2>2. << >> \in Seq(LockEntry) /\ Len(<< >>) = 0
    BY EmptySeq
  <2>3. QED
    BY <2>1, <2>2 DEF LockTables
<1>2. LockUse /\ OneHolder /\ LocksKept
  BY DEF Init, LockUse, OneHolder, LocksKept, NoJob, Builds
<1>3. QED
  BY <1>1, <1>2 DEF LockInv

\* A lock table stays within its bound and holds one lock for each of its keys, a
\* lock has one holder at a time, and no lock in use is missing from its table
\* unless there are more views than the table has room for (_get_lock).
THEOREM LockSafety == Spec => []LockInv
<1>1. BaseInv /\ LockInv /\ [Next]_vars => LockInv'
  BY LockStep
<1>2. QED
  BY LockInit, <1>1, BaseSafety, PTL DEF Spec

\* A process builds a view once at a time while no lock is evicted (_get_bundle):
\* the builds of a view that hold their locks hold the one of its table entry, and
\* that has one holder.
THEOREM BuildsAreExclusive == Spec => []OneBuildPerKey
<1>1. LockInv => OneBuildPerKey
  <2> SUFFICES ASSUME LockInv, Cardinality(Keys) <= LocksMax,
                      NEW t \in Tasks, NEW u \in Tasks, t # u, Process(t) = Process(u),
                      pc[t] \in Building, pc[u] \in Building,
                      lock[t] # None, lock[u] # None, job[t].key = job[u].key
               PROVE  FALSE
    BY DEF OneBuildPerKey
  <2>1. InTable(t) /\ InTable(u)
    BY DEF LockInv, LocksKept
  <2>2. lock[t] = lock[u]
    BY <2>1, ProcessType DEF InTable, LockInv, LockTables
  <2>3. QED
    BY <2>2 DEF LockInv, OneHolder
<1>2. QED
  BY LockSafety, <1>1, PTL

----------------------------------------------------------------------------
(* The types of all variables *)

Counters == now <= MaxTime /\ faults \in 0 .. MaxFaults /\ views \in 0 .. MaxViews

TableType ==
    /\ snapshots \in [Keys -> Snapshot \cup {None}]
    /\ cleaned \in [Processes -> Nat \cup {None}]
    /\ wake \in [Processes -> Nat]

LEMMA ArriveStep ==
    ASSUME BaseType, Counters, TableType, NEW p \in Processes, Arrive(p)
    PROVE  /\ views' \in 0 .. MaxViews
           /\ snapshots' \in [Keys -> Snapshot \cup {None}]
           /\ cleaned' \in [Processes -> Nat \cup {None}]
           /\ \A k \in Keys : snapshots'[k] \in {snapshots[k], None}
<1>1. views' \in 0 .. MaxViews
  BY CacheAssumption DEF Arrive, Counters
<1>2. /\ \A k \in Keys : snapshots'[k] \in {snapshots[k], None}
      /\ snapshots' \in [Keys -> Snapshot \cup {None}]
  BY DEF Arrive, Kept, TableType
<1>3. cleaned' \in [Processes -> Nat \cup {None}]
  BY DEF Arrive, TableType, BaseType
<1>4. QED
  BY <1>1, <1>2, <1>3

LEMMA WakeStep ==
    ASSUME BaseType, TableType, NEW t \in Tasks,
           wake' = wake \/ Finish(t)
    PROVE  wake' \in [Processes -> Nat]
<1>1. now + PrewarmInterval \in Nat
  BY CacheAssumption DEF BaseType
<1>2. QED
  BY <1>1 DEF Finish, TableType

\* The steps of a task count its faults, set its alarm and store its result.
LEMMA TaskTypes ==
    ASSUME BaseInv, Counters, TableType, NEW t \in Tasks,
           Run(t) \/ Acquire(t) \/ NothingFetched(t) \/ Fail(t)
    PROVE  Counters' /\ TableType'
<1>1. UNCHANGED <<now, views, cleaned>>
  BY DEF Run, Acquire, StartRefresh, StartWarm, Prewarm, Hydrated, BaseFetched, ScopeFetched,
     Store, FindBuilt, Build, ReuseBase, FetchBase, NothingFetched, Fail, StoreBase, world
<1>2. faults' \in 0 .. MaxFaults
  <2>1. CASE NothingFetched(t) \/ Fail(t)
    BY <2>1, CacheAssumption DEF NothingFetched, Fail, Counters
  <2>2. CASE Run(t) \/ Acquire(t)
    BY <2>2 DEF Run, Acquire, StartRefresh, StartWarm, Prewarm, Hydrated, BaseFetched,
       ScopeFetched, Store, FindBuilt, Build, ReuseBase, FetchBase, Counters
  <2>3. QED
    BY <2>1, <2>2
<1>3. wake' \in [Processes -> Nat]
  <2>1. wake' = wake \/ Finish(t)
    BY DEF Run, Acquire, StartRefresh, StartWarm, Prewarm, Hydrated, BaseFetched, ScopeFetched,
       Store, FindBuilt, Build, ReuseBase, FetchBase, NothingFetched, Fail, StoreBase, GotBase,
       Suspend
  <2>2. QED
    BY <2>1, WakeStep DEF BaseInv
<1>4. snapshots' \in [Keys -> Snapshot \cup {None}]
  <2>1. CASE Store(t)
    <3>1. PICK ttl \in Ttls(data[t]) :
            snapshots' = [snapshots EXCEPT ![job[t].key] =
                             [version |-> data[t], expires |-> now + ttl, complete |-> TRUE]]
      BY <2>1 DEF Store
    <3>2. ttl \in Nat
      BY CacheAssumption DEF Ttls
    <3>3. [version |-> data[t], expires |-> now + ttl, complete |-> TRUE] \in Snapshot
      BY <3>2 DEF BaseInv, BaseType, Snapshot
    <3>4. QED
      BY <3>1, <3>3 DEF TableType
  <2>2. CASE ~Store(t)
    <3>1. snapshots' = snapshots
      BY <2>2 DEF Run, Acquire, StartRefresh, StartWarm, Prewarm, Hydrated, BaseFetched,
         ScopeFetched, FindBuilt, Build, ReuseBase, FetchBase, NothingFetched, Fail, StoreBase
    <3>2. QED
      BY <3>1 DEF TableType
  <2>3. QED
    BY <2>1, <2>2
<1>5. QED
  BY <1>1, <1>2, <1>3, <1>4 DEF Counters, TableType

LEMMA ViewTypes ==
    ASSUME BaseInv, Counters, TableType, NEW p \in Processes, NEW k \in Keys, View(p, k)
    PROVE  Counters' /\ TableType'
<1>1. Arrive(p) /\ UNCHANGED <<now, faults, wake>>
  BY DEF View, ServeFresh, ServeStale, ServeFallback, Answer, Request, world
<1>2. QED
  BY <1>1, ArriveStep DEF BaseInv, Counters, TableType

LEMMA TypesStep == BaseInv /\ Counters /\ TableType /\ [Next]_vars => Counters' /\ TableType'
<1> SUFFICES ASSUME BaseInv, Counters, TableType, [Next]_vars PROVE Counters' /\ TableType'
  OBVIOUS
<1>1. CASE Publish \/ UNCHANGED vars
  BY <1>1 DEF Publish, Counters, TableType, vars, world
<1>2. CASE Tick
  BY <1>2, CacheAssumption DEF Tick, Counters, TableType, BaseInv, BaseType
<1>3. QED
  BY <1>1, <1>2, TaskTypes, ViewTypes DEF Next

LEMMA TypesInit == Init => Counters /\ TableType
<1> SUFFICES ASSUME Init PROVE Counters /\ TableType
  OBVIOUS
<1>1. OldSnapshot \in Snapshot
  BY CacheAssumption DEF OldSnapshot, Snapshot
<1>2. snapshots \in [Keys -> Snapshot \cup {None}]
  BY <1>1 DEF Init
<1>3. QED
  BY <1>2, CacheAssumption DEF Init, Counters, TableType

\* Every variable keeps its type: times and counts stay within their bounds, a
\* snapshot is whole, no lock table outgrows its bound, whatever the tasks of a
\* process do between two awaits of one another.
THEOREM TypeCorrect == Spec => []TypeOK
<1>1. BaseInv /\ LockInv /\ Counters /\ TableType => TypeOK
  <2> SUFFICES ASSUME BaseInv, LockInv, Counters, TableType PROVE TypeOK
    OBVIOUS
  <2>1. \A p \in Processes : /\ Len(locks[p]) <= LocksMax
                             /\ \A i \in DOMAIN locks[p] : locks[p][i].key \in Keys
    BY TableEntry DEF LockInv
  <2>2. now \in 0 .. MaxTime
    BY CacheAssumption DEF BaseInv, BaseType, Counters
  <2>3. QED
    BY <2>1, <2>2 DEF BaseInv, BaseType, Counters, TableType, TypeOK
<1>2. QED
  BY <1>1, TypesInit, TypesStep, BaseSafety, LockSafety, PTL DEF Spec

----------------------------------------------------------------------------
(* What views show *)

\* A task about to store a view without scope
Computes(t) == pc[t] = "compute" /\ job[t].key \notin Scoped

\* No snapshot of a view without scope is newer than that; one of an earlier
\* release is version 1 also where the data sources do not answer yet.
NoneAfter(version) ==
    \A k \in Keys \ Scoped :
       snapshots[k] # None => snapshots[k].version <= version \/ snapshots[k].version <= 1

\* The same of the tasks about to store one.
NoneComputesAfter(version) == \A u \in Tasks : Computes(u) => data[u] <= version

\* Data is no newer than the sources hold, and only views with a scope bypass the
\* base data.
NoneAhead ==
    /\ NoneAfter(upstream) /\ NoneComputesAfter(upstream)
    /\ \A t \in Tasks : pc[t] = "fetch" => data[t] <= upstream
    /\ \A t \in Tasks : pc[t] = "scoped" => job[t].key \in Scoped

\* No view is newer than the base data of its process, unless that is empty, nor
\* than what will replace it.
BaseAhead ==
    /\ \A p \in Processes : base[p] # None /\ base[p].version # 0 =>
          NoneComputesAfter(base[p].version)
          /\ \A k \in Keys \ Scoped : snapshots[k] # None => snapshots[k].version <= base[p].version
    /\ \A t \in Tasks : pc[t] = "fetch" => NoneAfter(data[t]) /\ NoneComputesAfter(data[t])
    /\ \A t \in Tasks : pc[t] = "hydrate" =>
          base[Process(t)] # None /\ data[t] = base[Process(t)].version

\* What a task is about to store is no older than what it replaces, unless empty.
BuildAhead ==
    \A t \in Tasks : Computes(t) /\ data[t] # 0 /\ snapshots[job[t].key] # None
       => snapshots[job[t].key].version <= data[t]

OrderInv == NoneAhead /\ BaseAhead /\ BuildAhead

\* One process and no eviction
Alone == Cardinality(Processes) = 1 /\ Cardinality(Keys) <= LocksMax

LEMMA SoleProcess ==
    ASSUME Alone
    PROVE  \A p, q \in Processes : p = q
<1>1. \E p : Processes = {p}
  BY FinitenessAssumption, FS_Singleton DEF Alone
<1>2. QED
  BY <1>1

\* Snapshots may go, and tasks move where they neither fetch nor compute.
LEMMA OrderQuiet ==
    ASSUME OrderInv, UNCHANGED <<upstream, base>>,
           \A k \in Keys : snapshots'[k] \in {snapshots[k], None},
           \A t \in Tasks : \/ pc'[t] = pc[t] /\ job'[t].key = job[t].key /\ data'[t] = data[t]
                            \/ pc'[t] \notin {"hydrate", "fetch", "scoped", "compute"},
           \A t \in Tasks : Computes(t) => job[t].key \in Keys
    PROVE  OrderInv'
<1>1. /\ \A t \in Tasks : Computes(t)' => Computes(t) /\ job'[t].key = job[t].key /\ data'[t] = data[t]
      /\ \A t \in Tasks : pc'[t] \in {"hydrate", "fetch", "scoped"} =>
            pc[t] = pc'[t] /\ job'[t].key = job[t].key /\ data'[t] = data[t]
  BY DEF Computes
<1>2. NoneAhead'
  BY <1>1 DEF OrderInv, NoneAhead, NoneAfter, NoneComputesAfter
<1>3. BaseAhead'
  BY <1>1 DEF OrderInv, BaseAhead, NoneAfter, NoneComputesAfter
<1>4. BuildAhead'
  BY <1>1 DEF OrderInv, BuildAhead
<1>5. QED
  BY <1>2, <1>3, <1>4 DEF OrderInv

\* A task gets the cached base data to compute its view from.
LEMMA OrderCompute ==
    ASSUME BaseInv, TableType, OrderInv, Alone, NEW t \in Tasks, UNCHANGED <<upstream, base, snapshots, job>>,
           base[Process(t)] # None, job[t].key \in Keys,
           pc' = [pc EXCEPT ![t] = "compute"],
           data' = [data EXCEPT ![t] = base[Process(t)].version]
    PROVE  OrderInv'
<1> DEFINE p == Process(t)
           v == base[p].version
<1>1. /\ p \in Processes /\ v \in Nat /\ upstream \in Nat /\ v <= upstream
      /\ pc'[t] = "compute" /\ data'[t] = v
      /\ \A u \in Tasks : data[u] \in Nat
      /\ \A u \in Tasks : u # t => pc'[u] = pc[u] /\ data'[u] = data[u]
  BY ProcessType DEF BaseInv, BaseType, Base, CacheLags
<1>2. \A q \in Processes : q = p
  BY <1>1, SoleProcess
<1> HIDE DEF v
<1>3. NoneAhead'
  BY <1>1 DEF OrderInv, NoneAhead, NoneAfter, NoneComputesAfter, Computes
<1>4. BaseAhead'
  <2>1. ASSUME NEW u \in Tasks, pc'[u] = "fetch"
        PROVE  NoneAfter(data[u])' /\ NoneComputesAfter(data[u])' /\ data'[u] = data[u]
    <3>1. u # t /\ pc[u] = "fetch" /\ data'[u] = data[u]
      BY <1>1, <2>1
    <3>2. v <= data[u]
      BY <1>1, <1>2, <3>1, ProcessType DEF BaseInv, FetchAhead, v
    <3>3. QED
      BY <1>1, <3>1, <3>2 DEF OrderInv, BaseAhead, NoneAfter, NoneComputesAfter, Computes
  <2>2. ASSUME NEW q \in Processes, base'[q] # None, base'[q].version # 0
        PROVE  /\ NoneComputesAfter(base[q].version)'
               /\ \A k \in Keys \ Scoped : snapshots'[k] # None => snapshots'[k].version <= base'[q].version
    BY <1>1, <1>2, <2>2 DEF OrderInv, BaseAhead, NoneComputesAfter, Computes, v
  <2>3. ASSUME NEW u \in Tasks, pc'[u] = "hydrate"
        PROVE  base'[Process(u)] # None /\ data'[u] = base'[Process(u)].version
    BY <1>1, <2>3 DEF OrderInv, BaseAhead
  <2>4. QED
    BY <2>1, <2>2, <2>3 DEF BaseAhead, NoneAfter, NoneComputesAfter
<1>5. BuildAhead'
  <2>1. ASSUME NEW u \in Tasks, Computes(u)', data'[u] # 0, snapshots'[job'[u].key] # None
        PROVE  snapshots'[job'[u].key].version <= data'[u]
    <3>1. CASE u = t
      <4>1. job[t].key \in Keys \ Scoped /\ v # 0
        BY <1>1, <2>1, <3>1 DEF Computes
      <4>2. QED
        BY <1>1, <2>1, <3>1, <4>1 DEF OrderInv, BaseAhead, v
    <3>2. CASE u # t
      BY <1>1, <2>1, <3>2 DEF OrderInv, BuildAhead, Computes
    <3>3. QED
      BY <3>1, <3>2
  <2>2. QED
    BY <2>1 DEF BuildAhead
<1>6. QED
  BY <1>3, <1>4, <1>5 DEF OrderInv

\* The base data is replaced by what was fetched, and the task goes on or ends.
LEMMA OrderReplace ==
    ASSUME BaseInv, TableType, OrderInv, Alone, NEW t \in Tasks, UNCHANGED <<upstream, snapshots>>,
           pc[t] = "fetch", NEW version \in 0 .. upstream, version = 0 \/ data[t] <= version,
           base'[Process(t)].version = version,
           \/ /\ pc' = [pc EXCEPT ![t] = "compute"] /\ data' = [data EXCEPT ![t] = version]
              /\ job' = job /\ job[t].key \in Keys
           \/ /\ pc' = [pc EXCEPT ![t] = "idle"] /\ data' = [data EXCEPT ![t] = 0]
              /\ job' = [job EXCEPT ![t] = NoJob]
    PROVE  OrderInv'
<1>1. /\ Process(t) \in Processes /\ version \in Nat /\ upstream \in Nat /\ version <= upstream
      /\ \A u \in Tasks : data[u] \in Nat
      /\ \A u \in Tasks : u # t => pc'[u] = pc[u] /\ data'[u] = data[u] /\ job'[u] = job[u]
      /\ pc'[t] \in {"compute", "idle"}
      /\ pc'[t] = "compute" => data'[t] = version /\ job'[t] = job[t] /\ job[t].key \in Keys
  BY ProcessType DEF BaseInv, BaseType
<1>2. \A q \in Processes : q = Process(t)
  BY <1>1, SoleProcess
<1>3. \A u \in Tasks : pc'[u] \notin {"hydrate", "fetch"}
  <2>1. ASSUME NEW u \in Tasks, u # t
        PROVE  pc[u] \notin {"hydrate", "fetch"}
    <3>1. Process(u) = Process(t)
      BY <1>2, ProcessType
    <3>2. QED
      BY <2>1, <3>1 DEF BaseInv, LockHeld
  <2>2. QED
    BY <1>1, <2>1
<1>4. /\ NoneAfter(data[t]) /\ NoneComputesAfter(data[t])
  BY DEF OrderInv, BaseAhead
<1>5. \A k \in Keys : snapshots[k] # None => snapshots[k].version \in Nat
  BY DEF TableType, Snapshot
<1>6. version # 0 =>
         /\ \A k \in Keys \ Scoped : snapshots[k] # None => snapshots[k].version <= version
         /\ \A u \in Tasks : Computes(u)' => data'[u] <= version
  <2>1. SUFFICES ASSUME version # 0
                 PROVE  /\ \A k \in Keys \ Scoped :
                              snapshots[k] # None => snapshots[k].version <= version
                        /\ \A u \in Tasks : Computes(u)' => data'[u] <= version
    OBVIOUS
  <2>2. data[t] <= version /\ data[t] \in Nat /\ version >= 1
    BY <1>1, <2>1
  <2>3. \A k \in Keys \ Scoped : snapshots[k] # None => snapshots[k].version <= version
    BY <1>1, <1>4, <1>5, <2>2 DEF NoneAfter
  <2>4. ASSUME NEW u \in Tasks, Computes(u)'
        PROVE  data'[u] <= version
    <3>1. CASE u = t
      BY <1>1, <2>4, <3>1 DEF Computes
    <3>2. CASE u # t
      <4>1. data[u] <= data[t] /\ data'[u] = data[u]
        BY <1>1, <1>4, <2>4, <3>2 DEF NoneComputesAfter, Computes
      <4>2. QED
        BY <1>1, <2>2, <4>1
    <3>3. QED
      BY <3>1, <3>2
  <2>5. QED
    BY <2>3, <2>4
<1>7. NoneAhead'
  <2>1. NoneAfter(upstream)'
    BY DEF OrderInv, NoneAhead, NoneAfter
  <2>2. NoneComputesAfter(upstream)'
    BY <1>1 DEF OrderInv, NoneAhead, NoneComputesAfter, Computes
  <2>3. \A u \in Tasks : pc'[u] = "scoped" => job'[u].key \in Scoped
    BY <1>1 DEF OrderInv, NoneAhead
  <2>4. QED
    BY <1>3, <2>1, <2>2, <2>3 DEF NoneAhead
<1>8. BaseAhead'
  BY <1>2, <1>3, <1>6 DEF BaseAhead, NoneComputesAfter
<1>9. BuildAhead'
  <2>1. ASSUME NEW u \in Tasks, Computes(u)', data'[u] # 0, snapshots'[job'[u].key] # None
        PROVE  snapshots'[job'[u].key].version <= data'[u]
    <3>1. CASE u = t
      BY <1>1, <1>6, <2>1, <3>1 DEF Computes
    <3>2. CASE u # t
      BY <1>1, <2>1, <3>2 DEF OrderInv, BuildAhead, Computes
    <3>3. QED
      BY <3>1, <3>2
  <2>2. QED
    BY <2>1 DEF BuildAhead
<1>10. QED
  BY <1>7, <1>8, <1>9 DEF OrderInv

\* What a task stores is of the version it computed with.
LEMMA StoredRow ==
    ASSUME NEW t \in Tasks, Store(t)
    PROVE  \E row : /\ row.version = data[t]
                    /\ snapshots' = [snapshots EXCEPT ![job[t].key] = row]
<1>1. PICK ttl \in Ttls(data[t]) :
        snapshots' = [snapshots EXCEPT ![job[t].key] =
                         [version |-> data[t], expires |-> now + ttl, complete |-> TRUE]]
  BY DEF Store
<1>2. [version |-> data[t], expires |-> now + ttl, complete |-> TRUE].version = data[t]
  OBVIOUS
<1>3. QED
  BY <1>1, <1>2

\* A view is stored: no other task is about to store the same one.
LEMMA OrderStore ==
    ASSUME BaseInv, LockInv, TableType, OrderInv, Alone, NEW t \in Tasks, Store(t)
    PROVE  OrderInv'
<1> DEFINE k0 == job[t].key
<1>1. PICK row : /\ row.version = data[t]
                 /\ snapshots' = [snapshots EXCEPT ![k0] = row]
  BY StoredRow
<1>2. /\ k0 \in Keys /\ lock[t] # None
      /\ snapshots' = [snapshots EXCEPT ![k0] = row]
      /\ pc[t] = "compute" /\ pc' = [pc EXCEPT ![t] = "idle"]
      /\ job' = [job EXCEPT ![t] = NoJob] /\ data' = [data EXCEPT ![t] = 0]
      /\ UNCHANGED <<upstream, base>>
  BY <1>1 DEF Store, Finish, Idle, world, shared, LockInv, LockUse
<1>3. /\ snapshots'[k0] = row
      /\ \A k \in Keys : k # k0 => snapshots'[k] = snapshots[k]
      /\ pc'[t] = "idle"
      /\ \A u \in Tasks : u # t => pc'[u] = pc[u] /\ data'[u] = data[u] /\ job'[u] = job[u]
      /\ \A u \in Tasks : data[u] \in Nat
      /\ upstream \in Nat
  BY <1>2 DEF BaseInv, BaseType, TableType
<1>4. \A u \in Tasks : u # t /\ Computes(u) => job[u].key \in Keys /\ job[u].key # k0
  <2>1. ASSUME NEW u \in Tasks, u # t, Computes(u)
        PROVE  job[u].key \in Keys /\ job[u].key # k0
    <3>1. lock[u] # None /\ job[u].key \in Keys /\ pc[u] = "compute"
      BY <2>1 DEF Computes, LockInv, LockUse
    <3>2. InTable(t) /\ InTable(u) /\ Process(t) = Process(u)
      BY <1>2, <3>1, SoleProcess, ProcessType DEF Alone, LockInv, LocksKept
    <3>3. lock[t] # lock[u]
      BY <1>2, <2>1, <3>1, <3>2 DEF LockInv, OneHolder, Building
    <3>4. QED
      BY <3>1, <3>2, <3>3, ProcessType DEF InTable, LockInv, LockTables
  <2>2. QED
    BY <2>1
<1>5. k0 \notin Scoped => Computes(t)
  BY <1>2 DEF Computes
<1>6. NoneAhead'
  <2>1. NoneAfter(upstream)'
    BY <1>2, <1>1, <1>3, <1>5 DEF OrderInv, NoneAhead, NoneAfter, NoneComputesAfter
  <2>2. QED
    BY <1>2, <1>3, <2>1 DEF OrderInv, NoneAhead, NoneComputesAfter, Computes
<1>7. BaseAhead'
  <2>1. ASSUME NEW u \in Tasks, pc'[u] = "fetch"
        PROVE  (NoneAfter(data[u]) /\ NoneComputesAfter(data[u]))' /\ data'[u] = data[u]
    <3>1. u # t /\ pc[u] = "fetch" /\ data'[u] = data[u]
      BY <1>3, <2>1
    <3>2. NoneAfter(data[u]) /\ NoneComputesAfter(data[u])
      BY <3>1 DEF OrderInv, BaseAhead
    <3>3. NoneAfter(data[u])'
      BY <1>1, <1>3, <1>5, <3>1, <3>2 DEF NoneAfter, NoneComputesAfter
    <3>4. NoneComputesAfter(data[u])'
      BY <1>3, <3>1, <3>2 DEF NoneComputesAfter, Computes
    <3>5. QED
      BY <3>1, <3>3, <3>4
  <2>2. ASSUME NEW q \in Processes, base'[q] # None, base'[q].version # 0
        PROVE  /\ NoneComputesAfter(base[q].version)'
               /\ \A k \in Keys \ Scoped : snapshots'[k] # None => snapshots'[k].version <= base'[q].version
    <3>1. /\ NoneComputesAfter(base[q].version)
          /\ \A k \in Keys \ Scoped : snapshots[k] # None => snapshots[k].version <= base[q].version
      BY <1>2, <2>2 DEF OrderInv, BaseAhead
    <3>2. NoneComputesAfter(base[q].version)'
      BY <1>2, <1>3, <3>1 DEF NoneComputesAfter, Computes
    <3>3. QED
      BY <1>2, <1>1, <1>3, <1>5, <3>1, <3>2 DEF NoneComputesAfter
  <2>3. ASSUME NEW u \in Tasks, pc'[u] = "hydrate"
        PROVE  base'[Process(u)] # None /\ data'[u] = base'[Process(u)].version
    BY <1>2, <1>3, <2>3 DEF OrderInv, BaseAhead
  <2>4. QED
    BY <2>1, <2>2, <2>3 DEF BaseAhead, NoneAfter, NoneComputesAfter
<1>8. BuildAhead'
  <2>1. ASSUME NEW u \in Tasks, Computes(u)', data'[u] # 0, snapshots'[job'[u].key] # None
        PROVE  snapshots'[job'[u].key].version <= data'[u]
    <3>1. u # t /\ Computes(u) /\ job'[u] = job[u] /\ data'[u] = data[u]
      BY <1>3, <2>1 DEF Computes
    <3>2. snapshots'[job[u].key] = snapshots[job[u].key]
      BY <1>3, <1>4, <3>1
    <3>3. QED
      BY <2>1, <3>1, <3>2 DEF OrderInv, BuildAhead
  <2>2. QED
    BY <2>1 DEF BuildAhead
<1>9. QED
  BY <1>6, <1>7, <1>8 DEF OrderInv

\* A task goes to use the base data, or round it for a view with a scope.
LEMMA OrderUse ==
    ASSUME BaseInv, OrderInv, NEW t \in Tasks, UNCHANGED <<upstream, base, snapshots, job>>,
           NEW where \in {"hydrate", "fetch", "scoped", "compute"}, NEW version,
           pc' = [pc EXCEPT ![t] = where], data' = [data EXCEPT ![t] = version],
           where = "hydrate" => base[Process(t)] # None /\ version = base[Process(t)].version,
           where = "fetch" => version = upstream,
           where \in {"scoped", "compute"} => job[t].key \in Scoped
    PROVE  OrderInv'
<1>1. /\ pc'[t] = where /\ data'[t] = version /\ upstream \in Nat
      /\ \A u \in Tasks : u # t => pc'[u] = pc[u] /\ data'[u] = data[u]
  BY DEF BaseInv, BaseType
<1>2. \A u \in Tasks : Computes(u)' => Computes(u) /\ u # t /\ data'[u] = data[u]
  BY <1>1 DEF Computes
<1>3. NoneAhead'
  BY <1>1, <1>2 DEF OrderInv, NoneAhead, NoneAfter, NoneComputesAfter
<1>4. BaseAhead'
  <2>1. ASSUME NEW u \in Tasks, pc'[u] = "fetch"
        PROVE  (NoneAfter(data[u]) /\ NoneComputesAfter(data[u]))'
    <3>1. NoneAfter(data'[u]) /\ NoneComputesAfter(data'[u])
      BY <1>1, <2>1 DEF OrderInv, NoneAhead, BaseAhead
    <3>2. QED
      BY <1>2, <3>1 DEF NoneAfter, NoneComputesAfter
  <2>2. ASSUME NEW q \in Processes, base'[q] # None, base'[q].version # 0
        PROVE  /\ NoneComputesAfter(base[q].version)'
               /\ \A k \in Keys \ Scoped : snapshots'[k] # None => snapshots'[k].version <= base'[q].version
    BY <1>2, <2>2 DEF OrderInv, BaseAhead, NoneComputesAfter
  <2>3. ASSUME NEW u \in Tasks, pc'[u] = "hydrate"
        PROVE  base'[Process(u)] # None /\ data'[u] = base'[Process(u)].version
    BY <1>1, <2>3 DEF OrderInv, BaseAhead
  <2>4. QED
    BY <2>1, <2>2, <2>3 DEF BaseAhead
<1>5. BuildAhead'
  BY <1>2 DEF OrderInv, BuildAhead
<1>6. QED
  BY <1>3, <1>4, <1>5 DEF OrderInv

\* The steps that only end tasks, start them or let them wait
LEMMA OrderWait ==
    ASSUME BaseInv, LockInv, OrderInv, NEW t \in Tasks, UNCHANGED <<upstream, base, snapshots>>,
           NEW j \in Job, NEW where \in {"idle", "start", "keylock", "baselock"},
           job' = [job EXCEPT ![t] = j], pc' = [pc EXCEPT ![t] = where],
           NEW version, data' = [data EXCEPT ![t] = version]
    PROVE  OrderInv'
<1>1. \A u \in Tasks : \/ pc'[u] = pc[u] /\ job'[u].key = job[u].key /\ data'[u] = data[u]
                       \/ pc'[u] \notin {"hydrate", "fetch", "scoped", "compute"}
  BY DEF BaseInv, BaseType
<1>2. \A u \in Tasks : Computes(u) => job[u].key \in Keys
  BY DEF Computes, LockInv, LockUse
<1>3. \A k \in Keys : snapshots'[k] \in {snapshots[k], None}
  OBVIOUS
<1>4. QED
  BY <1>1, <1>2, <1>3, OrderQuiet

LEMMA OrderFinish ==
    ASSUME BaseInv, LockInv, OrderInv, NEW t \in Tasks, UNCHANGED <<upstream, base, snapshots>>,
           Finish(t)
    PROVE  OrderInv'
<1>1. NoJob \in Job
  BY DEF NoJob, Job
<1>2. /\ job' = [job EXCEPT ![t] = NoJob] /\ pc' = [pc EXCEPT ![t] = "idle"]
      /\ data' = [data EXCEPT ![t] = 0]
  BY DEF Finish, Idle
<1>3. QED
  BY <1>1, <1>2, OrderWait

LEMMA OrderView ==
    ASSUME BaseInv, LockInv, Counters, TableType, OrderInv, NEW p \in Processes, NEW k \in Keys,
           View(p, k)
    PROVE  OrderInv'
<1>1. Arrive(p) /\ UNCHANGED <<upstream, base, data>>
  BY DEF View, ServeFresh, ServeStale, ServeFallback, Answer, Request, world, shared
<1>2. \A x \in Keys : snapshots'[x] \in {snapshots[x], None}
  BY <1>1, ArriveStep DEF BaseInv
<1>3. \A u \in Tasks : \/ pc'[u] = pc[u] /\ job'[u].key = job[u].key
                       \/ pc'[u] \notin {"hydrate", "fetch", "scoped", "compute"}
  <2>1. CASE Request(p, k)
    <3>1. PICK refresh \in BOOLEAN, t \in {p} \X Slots :
             pc' = [pc EXCEPT ![t] = "keylock"] /\ job' = Begin(t, "request", k, refresh)
      BY <2>1 DEF Request
    <3>2. \A u \in Tasks : u # t => job'[u] = job[u]
      BY <3>1 DEF Begin, BaseInv, BaseType
    <3>3. QED
      BY <3>1, <3>2 DEF BaseInv, BaseType
  <2>2. CASE ~Request(p, k)
    <3>1. PICK refresh, warm : Spawn(p, k, refresh, warm)
      BY <2>2 DEF View, ServeFresh, ServeStale, ServeFallback, Answer
    <3>2. QED
      BY <3>1 DEF Spawn
  <2>3. QED
    BY <2>1, <2>2
<1>4. \A u \in Tasks : Computes(u) => job[u].key \in Keys
  BY DEF Computes, LockInv, LockUse
<1>5. QED
  BY <1>1, <1>2, <1>3, <1>4, OrderQuiet

\* A task that has its base data computes its view from it, or is done.
LEMMA OrderHydrated ==
    ASSUME BaseInv, LockInv, TableType, OrderInv, Alone, NEW t \in Tasks, Hydrated(t)
    PROVE  OrderInv'
<1>1. /\ UNCHANGED <<upstream, base, snapshots>> /\ GotBase(t, data[t])
      /\ base[Process(t)] # None /\ data[t] = base[Process(t)].version
  <2>1. pc[t] = "hydrate" /\ UNCHANGED <<base, snapshots>> /\ GotBase(t, data[t]) /\ UNCHANGED world
    BY DEF Hydrated
  <2>2. QED
    BY <2>1 DEF world, OrderInv, BaseAhead
<1>2. CASE job[t].kind \in Builds
  <2>1. /\ pc' = [pc EXCEPT ![t] = "compute"] /\ data' = [data EXCEPT ![t] = base[Process(t)].version]
        /\ job' = job
    BY <1>1, <1>2 DEF GotBase, Suspend, Builds
  <2>2. job[t].key \in Keys
    BY <1>2 DEF LockInv, LockUse
  <2>3. QED
    BY <1>1, <2>1, <2>2, OrderCompute
<1>3. CASE job[t].kind \notin Builds
  BY <1>1, <1>3, OrderFinish DEF GotBase, Builds
<1>4. QED
  BY <1>2, <1>3

LEMMA OrderFetched ==
    ASSUME BaseInv, LockInv, TableType, OrderInv, Alone, NEW t \in Tasks,
           BaseFetched(t) \/ NothingFetched(t)
    PROVE  OrderInv'
<1>1. PICK version \in 0 .. upstream :
         (version = 0 \/ data[t] <= version) /\ StoreBase(t, version) /\ pc[t] = "fetch"
  BY DEF BaseFetched, NothingFetched, BaseInv, BaseType
<1>2. /\ UNCHANGED <<upstream, snapshots>> /\ base'[Process(t)].version = version
      /\ GotBase(t, version)
  <2>1. /\ UNCHANGED <<world, snapshots>> /\ GotBase(t, version)
        /\ \E e, f : base' = [base EXCEPT ![Process(t)] =
                                 [version |-> version, expires |-> e, forced |-> f]]
    BY <1>1 DEF StoreBase
  <2>2. QED
    BY <2>1, ProcessType DEF world, BaseInv, BaseType
<1>3. \/ /\ pc' = [pc EXCEPT ![t] = "compute"] /\ data' = [data EXCEPT ![t] = version]
         /\ job' = job /\ job[t].key \in Keys
      \/ /\ pc' = [pc EXCEPT ![t] = "idle"] /\ data' = [data EXCEPT ![t] = 0]
         /\ job' = [job EXCEPT ![t] = NoJob]
  <2>1. job[t].kind \in Builds => job[t].key \in Keys
    BY DEF LockInv, LockUse
  <2>2. QED
    BY <1>2, <2>1 DEF GotBase, Suspend, Finish, Idle, Builds
<1>4. QED
  BY <1>1, <1>2, <1>3, OrderReplace

LEMMA OrderBuild ==
    ASSUME BaseInv, LockInv, TableType, OrderInv, Alone, NEW t \in Tasks, Build(t)
    PROVE  OrderInv'
<1>1. UNCHANGED <<upstream, base, snapshots, job>> /\ pc[t] = "keylock"
  BY DEF Build, world, shared, Suspend
<1>2. job[t].key \in Keys /\ job[t] \in Job /\ job' = [job EXCEPT ![t] = job[t]]
  BY <1>1 DEF LockInv, LockUse, BaseInv, BaseType
<1>3. CASE BaseFresh(Process(t)) /\ Suspend(t, "compute", base[Process(t)].version)
  BY <1>1, <1>2, <1>3, OrderCompute DEF BaseFresh, Suspend
<1>4. CASE Suspend(t, "baselock", 0)
  BY <1>1, <1>2, <1>4, OrderWait DEF Suspend
<1>5. CASE job[t].key \in Scoped /\ Suspend(t, "scoped", upstream)
  BY <1>1, <1>5, OrderUse DEF Suspend
<1>6. QED
  BY <1>3, <1>4, <1>5 DEF Build

LEMMA OrderAcquire ==
    ASSUME BaseInv, LockInv, TableType, OrderInv, Alone, NEW t \in Tasks, Acquire(t)
    PROVE  OrderInv'
<1>1. CASE FindBuilt(t)
  BY <1>1, OrderFinish DEF FindBuilt, world, shared
<1>2. CASE Build(t)
  BY <1>2, OrderBuild
<1>3. CASE ReuseBase(t)
  BY <1>3, OrderUse DEF ReuseBase, Reusable, BaseFresh, Suspend, world
<1>4. CASE FetchBase(t)
  BY <1>4, OrderUse DEF FetchBase, Suspend, world
<1>5. QED
  BY <1>1, <1>2, <1>3, <1>4 DEF Acquire

LEMMA OrderRun ==
    ASSUME BaseInv, LockInv, TableType, OrderInv, Alone, NEW t \in Tasks,
           Run(t) \/ NothingFetched(t) \/ Fail(t)
    PROVE  OrderInv'
<1>1. CASE StartRefresh(t)
  <2>1. /\ UNCHANGED <<upstream, base, snapshots>> /\ pc' = [pc EXCEPT ![t] = "keylock"]
        /\ job' = job /\ data' = data
    BY <1>1 DEF StartRefresh, world, shared
  <2>2. job[t] \in Job /\ job' = [job EXCEPT ![t] = job[t]] /\ data' = [data EXCEPT ![t] = data[t]]
    BY <2>1 DEF BaseInv, BaseType
  <2>3. QED
    BY <2>1, <2>2, OrderWait
<1>2. CASE StartWarm(t)
  <2>1. UNCHANGED <<upstream, base, snapshots>> /\ (Finish(t) \/ Suspend(t, "baselock", 0))
    BY <1>2 DEF StartWarm, world, shared
  <2>2. job[t] \in Job /\ job = [job EXCEPT ![t] = job[t]]
    BY DEF BaseInv, BaseType
  <2>3. QED
    BY <2>1, <2>2, OrderFinish, OrderWait DEF Suspend
<1>3. CASE Prewarm(t)
  <2> DEFINE j == [kind |-> "prewarm", key |-> None, refresh |-> TRUE, ready |-> upstream > 0]
  <2>1. j \in Job
    BY DEF Job
  <2>2. job' = [job EXCEPT ![t] = j]
    BY <1>3, Zenon DEF Prewarm, Begin
  <2> HIDE DEF j
  <2>3. UNCHANGED <<upstream, base, snapshots>> /\ pc' = [pc EXCEPT ![t] = "baselock"] /\ data' = data
    BY <1>3 DEF Prewarm, world, shared
  <2>4. data' = [data EXCEPT ![t] = data[t]]
    BY <2>3 DEF BaseInv, BaseType
  <2>5. QED
    BY <2>1, <2>2, <2>3, <2>4, OrderWait
<1>4. CASE Hydrated(t)
  BY <1>4, OrderHydrated
<1>5. CASE BaseFetched(t) \/ NothingFetched(t)
  BY <1>5, OrderFetched
<1>6. CASE ScopeFetched(t)
  <2>1. PICK version : Suspend(t, "compute", version)
    BY <1>6 DEF ScopeFetched
  <2>2. UNCHANGED <<upstream, base, snapshots>> /\ job[t].key \in Scoped
    BY <1>6 DEF ScopeFetched, world, shared, OrderInv, NoneAhead
  <2>3. QED
    BY <2>1, <2>2, OrderUse DEF Suspend
<1>7. CASE Store(t)
  BY <1>7, OrderStore
<1>8. CASE Fail(t)
  BY <1>8, OrderFinish DEF Fail, world
<1>9. QED
  BY <1>1, <1>2, <1>3, <1>4, <1>5, <1>6, <1>7, <1>8 DEF Run

LEMMA OrderStep ==
    ASSUME BaseInv, LockInv, Counters, TableType, OrderInv, Alone, [Next]_vars
    PROVE  OrderInv'
<1>1. CASE \E p \in Processes, k \in Keys : View(p, k)
  BY <1>1, OrderView
<1>2. CASE \E t \in Tasks : Run(t) \/ Acquire(t) \/ NothingFetched(t) \/ Fail(t)
  BY <1>2, OrderRun, OrderAcquire
<1>3. CASE Tick \/ UNCHANGED vars
  BY <1>3, OrderQuiet DEF Tick, vars, world, shared, local, Computes, LockInv, LockUse
<1>4. CASE Publish
  <2>1. /\ UNCHANGED <<base, snapshots, job, pc, data>> /\ upstream' = upstream + 1
        /\ upstream \in Nat /\ \A t \in Tasks : data[t] \in Nat
    BY <1>4 DEF Publish, shared, local, BaseInv, BaseType
  <2>2. \A k \in Keys : snapshots[k] # None => snapshots[k].version \in Nat
    BY DEF TableType, Snapshot
  <2>3. NoneAhead'
    BY <2>1, <2>2 DEF OrderInv, NoneAhead, NoneAfter, NoneComputesAfter, Computes
  <2>4. BaseAhead' /\ BuildAhead'
    BY <2>1 DEF OrderInv, BaseAhead, BuildAhead, NoneAfter, NoneComputesAfter, Computes
  <2>5. QED
    BY <2>3, <2>4 DEF OrderInv
<1>5. QED
  BY <1>1, <1>2, <1>3, <1>4 DEF Next

LEMMA OrderInit == Init => OrderInv
<1> SUFFICES ASSUME Init PROVE OrderInv
  OBVIOUS
<1>1. NoneAhead
  BY DEF Init, NoneAhead, NoneAfter, NoneComputesAfter, Computes, OldSnapshot
<1>2. BaseAhead /\ BuildAhead
  BY DEF Init, BaseAhead, BuildAhead, Computes
<1>3. QED
  BY <1>1, <1>2 DEF OrderInv

\* What one step does to a view that stays
LEMMA ViewKept ==
    ASSUME BaseInv, LockInv, Counters, TableType, OrderInv, [Next]_vars,
           NEW k \in Keys \ Scoped, snapshots[k] # None, snapshots'[k] # None
    PROVE  snapshots'[k].version >= snapshots[k].version \/ snapshots'[k].version = 0
<1>1. snapshots[k].version \in Nat
  BY DEF TableType, Snapshot
<1>2. CASE \E p \in Processes, x \in Keys : View(p, x)
  <2>1. PICK p \in Processes : Arrive(p)
    BY <1>2 DEF View, ServeFresh, ServeStale, ServeFallback, Answer, Request
  <2>2. snapshots'[k] = snapshots[k]
    BY <2>1, ArriveStep DEF BaseInv
  <2>3. QED
    BY <1>1, <2>2
<1>3. CASE \E t \in Tasks : Store(t)
  <2>1. PICK t \in Tasks : Store(t)
    BY <1>3
  <2>2. PICK row : /\ row.version = data[t]
                   /\ snapshots' = [snapshots EXCEPT ![job[t].key] = row]
    BY <2>1, StoredRow
  <2>3. snapshots' = [snapshots EXCEPT ![job[t].key] = row] /\ pc[t] = "compute"
    BY <2>1, <2>2 DEF Store
  <2>4. CASE k = job[t].key
    <3>1. snapshots'[k] = row /\ Computes(t)
      BY <2>3, <2>4 DEF TableType, Computes
    <3>2. data[t] = 0 \/ snapshots[k].version <= data[t]
      BY <2>4, <3>1 DEF OrderInv, BuildAhead
    <3>3. data[t] \in Nat
      BY <2>1 DEF BaseInv, BaseType
    <3>4. QED
      BY <1>1, <2>2, <3>1, <3>2, <3>3
  <2>5. CASE k # job[t].key
    BY <1>1, <2>3, <2>5 DEF TableType
  <2>6. QED
    BY <2>4, <2>5
<1>4. CASE UNCHANGED snapshots
  BY <1>1, <1>4
<1>5. QED
  <2>1. ASSUME NEW t \in Tasks, Run(t) \/ Acquire(t) \/ NothingFetched(t) \/ Fail(t), ~Store(t)
        PROVE  UNCHANGED snapshots
    BY <2>1 DEF Run, Acquire, StartRefresh, StartWarm, Prewarm, Hydrated, BaseFetched,
       ScopeFetched, FindBuilt, Build, ReuseBase, FetchBase, NothingFetched, Fail, StoreBase
  <2>2. Publish \/ Tick \/ UNCHANGED vars => UNCHANGED snapshots
    BY DEF Publish, Tick, vars
  <2>3. QED
    BY <1>2, <1>3, <1>4, <2>1, <2>2 DEF Next

\* With one worker process and room for the lock of every view, a view without a
\* scope never shows older data than before, unless nothing was fetched: whatever
\* the order in which its builds, and the fetches they share, began and ended.
THEOREM ViewsMonotonic == Spec => ViewsNeverGoBack
<1> DEFINE Inv == BaseInv /\ LockInv /\ Counters /\ TableType
           Ordered == Alone => OrderInv
<1>1. Spec => []Inv
  BY BaseSafety, LockSafety, TypesInit, TypesStep, PTL DEF Spec
<1>2. Init => Ordered
  BY OrderInit
<1>3. Inv /\ Ordered /\ [Next]_vars => Ordered'
  BY OrderStep DEF Alone
<1>4. Inv /\ Ordered /\ [Next]_vars =>
        [Cardinality(Processes) = 1 /\ Cardinality(Keys) <= LocksMax =>
            \A k \in Keys \ Scoped :
               snapshots[k] # None /\ snapshots'[k] # None
                  => snapshots'[k].version >= snapshots[k].version \/ snapshots'[k].version = 0]_vars
  BY ViewKept DEF Alone
<1>5. QED
  BY <1>1, <1>2, <1>3, <1>4, PTL DEF Spec, ViewsNeverGoBack
=============================================================================
