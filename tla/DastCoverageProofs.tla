------------------------- MODULE DastCoverageProofs -------------------------
(***************************************************************************)
(* One refresh runs at a time, whoever waits for it outlasts it, and it    *)
(* fills its window wherever the cursor stands, for any number of data     *)
(* sources, scans, callers and any durations.                              *)
(***************************************************************************)
EXTENDS DastCoverage, Counting

\* A caller joins a refresh with the full timeout and the grace before it, so
\* however late it joins it has at least the grace more time left than the refresh.
Outlasts ==
    \A c \in Callers : waiting[c] # None =>
        /\ running[waiting[c].on] # None
        /\ waiting[c].left >= running[waiting[c].on].left + Grace

CoverageInv ==
    /\ task \in Refreshes \cup {None}
    /\ running \in [Refreshes -> Refresh \cup {None}]
    /\ waiting \in [Callers -> Wait \cup {None}]
    /\ \A r \in Refreshes : running[r] # None => running[r].left <= RefreshTimeout
    /\ OneRefresh
    /\ Outlasts

\* What an action does to refreshes and waits when it starts refresh r for c.
LEMMA StartKeepsInv ==
    ASSUME CoverageInv, NEW c \in Callers, NEW r \in Refreshes, NEW src \in Sources,
           NEW scans \in SUBSET Scans, ~Busy, waiting[c] = None,
           running' = [running EXCEPT ![r] =
              [client |-> src, scans |-> scans, left |-> RefreshTimeout]],
           task' = r,
           waiting' = [waiting EXCEPT ![c] = [on |-> r, left |-> Patience]]
    PROVE  CoverageInv'
<1> DEFINE new == [client |-> src, scans |-> scans, left |-> RefreshTimeout]
           wait == [on |-> r, left |-> Patience]
<1> RefreshTimeout \in Nat /\ Grace \in Nat
  BY CoverageAssumption
<1>1. new \in Refresh /\ new # None /\ new.left = RefreshTimeout
  BY CoverageAssumption DEF Refresh
<1>2. wait \in Wait /\ wait # None /\ wait.on = r /\ wait.left = RefreshTimeout + Grace
  BY CoverageAssumption DEF Wait, Patience
<1>3. \A q \in Refreshes : running[q] = None
  BY CoverageAssumption DEF CoverageInv, OneRefresh, Busy
<1>4. \A d \in Callers : waiting[d] = None
  <2> SUFFICES ASSUME NEW d \in Callers, waiting[d] # None PROVE FALSE
    OBVIOUS
  <2>1. waiting[d].on \in Refreshes
    BY DEF CoverageInv, Wait
  <2> QED
    BY <2>1, <1>3 DEF CoverageInv, Outlasts
<1> HIDE DEF new, wait
<1>5. running' = [running EXCEPT ![r] = new] /\ waiting' = [waiting EXCEPT ![c] = wait]
  BY DEF new, wait
<1>6. running' \in [Refreshes -> Refresh \cup {None}]
  BY <1>1, <1>5 DEF CoverageInv
<1>7. waiting' \in [Callers -> Wait \cup {None}]
  BY <1>2, <1>5 DEF CoverageInv
<1>8. \A q \in Refreshes : running'[q] = IF q = r THEN new ELSE None
  BY <1>3, <1>5 DEF CoverageInv
<1>9. \A d \in Callers : waiting'[d] = IF d = c THEN wait ELSE None
  BY <1>4, <1>5 DEF CoverageInv
<1>10. OneRefresh'
  BY <1>8 DEF OneRefresh
<1>11. Outlasts'
  BY <1>1, <1>2, <1>8, <1>9 DEF Outlasts
<1> QED
  BY <1>1, <1>6, <1>7, <1>8, <1>10, <1>11 DEF CoverageInv

\* A caller joins the refresh that runs.
LEMMA JoinKeepsInv ==
    ASSUME CoverageInv, NEW c \in Callers, Busy,
           waiting' = [waiting EXCEPT ![c] = [on |-> task, left |-> Patience]],
           UNCHANGED <<running, task>>
    PROVE  CoverageInv'
<1> DEFINE wait == [on |-> task, left |-> Patience]
<1> RefreshTimeout \in Nat /\ Grace \in Nat
  BY CoverageAssumption
<1>1. task \in Refreshes /\ running[task] # None
  BY DEF CoverageInv, Busy
<1>2. wait \in Wait /\ wait.on = task /\ wait.left = RefreshTimeout + Grace
  BY <1>1, CoverageAssumption DEF Wait, Patience
<1>3. running[task].left \in Nat /\ running[task].left <= RefreshTimeout
  BY <1>1 DEF CoverageInv, Refresh
<1> HIDE DEF wait
<1>4. waiting' = [waiting EXCEPT ![c] = wait]
  BY DEF wait
<1>5. waiting' \in [Callers -> Wait \cup {None}]
  BY <1>2, <1>4 DEF CoverageInv
<1>6. \A d \in Callers : waiting'[d] = IF d = c THEN wait ELSE waiting[d]
  BY <1>4 DEF CoverageInv
<1>7. Outlasts'
  BY <1>1, <1>2, <1>3, <1>6 DEF Outlasts, CoverageInv
<1> QED
  BY <1>5, <1>7 DEF CoverageInv, OneRefresh

LEMMA HydrateKeepsInv ==
    ASSUME CoverageInv, NEW c \in Callers, NEW src \in Sources,
           NEW ids \in SUBSET Scans, NEW known, Hydrate(c, src, ids, known)
    PROVE  CoverageInv'
<1>1. CASE Starts(ids, known)
  <2>1. PICK r \in Refreshes :
          /\ running[r] = None
          /\ running' = [running EXCEPT ![r] =
                [client |-> src, scans |-> Selected(Prepared(ids, known)),
                 left |-> RefreshTimeout]]
          /\ task' = r
          /\ waiting' = [waiting EXCEPT ![c] = [on |-> r, left |-> Patience]]
    BY <1>1 DEF Hydrate
  <2>2. Selected(Prepared(ids, known)) \in SUBSET Scans
    BY DEF Selected, Prepared
  <2>3. ~Busy /\ waiting[c] = None
    BY <1>1 DEF Starts, Hydrate
  <2> QED
    BY <2>1, <2>2, <2>3, StartKeepsInv
<1>2. CASE ~Starts(ids, known) /\ Busy
  <2>1. waiting' = [waiting EXCEPT ![c] = [on |-> task, left |-> Patience]]
        /\ UNCHANGED <<running, task>>
    BY <1>2 DEF Hydrate
  <2> QED
    BY <1>2, <2>1, JoinKeepsInv
<1>3. CASE ~Starts(ids, known) /\ ~Busy
  <2>1. UNCHANGED <<running, task, waiting>>
    BY <1>3 DEF Hydrate
  <2> QED
    BY <2>1 DEF CoverageInv, OneRefresh, Outlasts
<1> QED
  BY <1>1, <1>2, <1>3

\* A refresh ends and releases its callers.
LEMMA EndKeepsInv ==
    ASSUME CoverageInv, NEW r \in Refreshes, running[r] # None, End(r),
           task' \in {task, None}
    PROVE  CoverageInv'
<1>1. \A q \in Refreshes : running'[q] = IF q = r THEN None ELSE running[q]
  BY DEF End, CoverageInv
<1>2. running' \in [Refreshes -> Refresh \cup {None}]
  BY DEF End, CoverageInv
<1>3. \A c \in Callers : waiting'[c] = IF waiting[c] # None /\ waiting[c].on = r
                                       THEN None ELSE waiting[c]
  BY DEF End
<1>4. waiting' \in [Callers -> Wait \cup {None}]
  BY DEF End, CoverageInv
<1>5. \A q \in Refreshes : running[q] # None => q = r
  BY DEF CoverageInv, OneRefresh
<1>6. OneRefresh'
  BY <1>1, <1>5 DEF OneRefresh
<1>7. Outlasts'
  <2> SUFFICES ASSUME NEW c \in Callers, waiting'[c] # None PROVE FALSE
    BY DEF Outlasts
  <2>1. waiting[c] # None /\ waiting[c].on # r
    BY <1>3
  <2>2. waiting[c].on \in Refreshes
    BY <2>1 DEF CoverageInv, Wait
  <2> QED
    BY <2>1, <2>2, <1>5 DEF CoverageInv, Outlasts
<1> QED
  BY <1>1, <1>2, <1>4, <1>6, <1>7 DEF CoverageInv

LEMMA TickKeepsInv ==
    ASSUME CoverageInv, Tick
    PROVE  CoverageInv'
<1> RefreshTimeout \in Nat /\ Grace \in Nat /\ MaxFaults \in Nat
  BY CoverageAssumption
<1>1. \A r \in Refreshes : running[r] # None =>
        /\ running[r] \in Refresh /\ running[r].left > 0
        /\ running'[r] = [running[r] EXCEPT !.left = @ - 1]
        /\ running'[r] \in Refresh /\ running'[r] # None
        /\ running'[r].left = running[r].left - 1
  <2> SUFFICES ASSUME NEW r \in Refreshes, running[r] # None
               PROVE  /\ running[r] \in Refresh /\ running[r].left > 0
                      /\ running'[r] = [running[r] EXCEPT !.left = @ - 1]
                      /\ running'[r] \in Refresh /\ running'[r] # None
                      /\ running'[r].left = running[r].left - 1
    OBVIOUS
  <2>1. running[r] \in Refresh /\ running[r].left \in Nat
    BY DEF CoverageInv, Refresh
  <2>2. running[r].left > 0
    <3>1. running[r].left > (IF faults < MaxFaults THEN 0 ELSE 1)
      BY DEF Tick
    <3> QED
      BY <2>1, <3>1
  <2>3. running'[r] = [running[r] EXCEPT !.left = @ - 1]
    BY DEF Tick
  <2>4. running'[r] \in Refresh /\ running'[r].left = running[r].left - 1
    BY <2>1, <2>2, <2>3 DEF Refresh
  <2> QED
    BY <2>1, <2>2, <2>3, <2>4, CoverageAssumption
<1>2. \A r \in Refreshes : running[r] = None => running'[r] = None
  BY DEF Tick
<1>3. running' \in [Refreshes -> Refresh \cup {None}]
  <2>1. \A r \in Refreshes : running'[r] \in Refresh \cup {None}
    BY <1>1, <1>2
  <2>2. running' = [r \in Refreshes |-> running'[r]]
    BY DEF Tick
  <2> QED
    BY <2>1, <2>2
<1>4. \A c \in Callers : waiting[c] # None =>
        /\ waiting[c] \in Wait
        /\ waiting'[c] \in Wait /\ waiting'[c].on = waiting[c].on
        /\ waiting'[c].left = Less(waiting[c].left)
  <2> SUFFICES ASSUME NEW c \in Callers, waiting[c] # None
               PROVE  /\ waiting[c] \in Wait
                      /\ waiting'[c] \in Wait /\ waiting'[c].on = waiting[c].on
                      /\ waiting'[c].left = Less(waiting[c].left)
    OBVIOUS
  <2>1. waiting[c] \in Wait /\ waiting[c].left \in Nat
    BY DEF CoverageInv, Wait
  <2>2. waiting'[c] = [waiting[c] EXCEPT !.left = Less(@)]
    BY DEF Tick
  <2>3. Less(waiting[c].left) \in Nat
    BY <2>1 DEF Less
  <2> QED
    BY <2>1, <2>2, <2>3 DEF Wait
<1>5. \A c \in Callers : waiting[c] = None => waiting'[c] = None
  BY DEF Tick
<1>6. waiting' \in [Callers -> Wait \cup {None}]
  <2>1. \A c \in Callers : waiting'[c] \in Wait \cup {None}
    BY <1>4, <1>5
  <2>2. waiting' = [c \in Callers |-> waiting'[c]]
    BY DEF Tick
  <2> QED
    BY <2>1, <2>2
<1>7. Outlasts'
  <2> SUFFICES ASSUME NEW c \in Callers, waiting'[c] # None
               PROVE  /\ running'[waiting'[c].on] # None
                      /\ waiting'[c].left >= running'[waiting'[c].on].left + Grace
    BY DEF Outlasts
  <2> DEFINE r == waiting[c].on
  <2>1. waiting[c] # None
    BY <1>5
  <2>2. /\ r \in Refreshes /\ waiting[c].left \in Nat /\ running[r] # None
        /\ waiting[c].left >= running[r].left + Grace
    BY <2>1, <1>4 DEF CoverageInv, Outlasts, Wait
  <2>3. /\ waiting'[c].on = r /\ waiting'[c].left = Less(waiting[c].left)
    BY <2>1, <1>4
  <2>4. running'[r] # None /\ running'[r].left = running[r].left - 1
        /\ running[r].left \in Nat /\ running[r].left > 0
    BY <2>2, <1>1 DEF Refresh
  <2> HIDE DEF r
  <2> QED
    BY <2>2, <2>3, <2>4 DEF Less
<1>8. OneRefresh'
  BY <1>2 DEF OneRefresh, CoverageInv, Tick
<1>9. \A r \in Refreshes : running'[r] # None => running'[r].left <= RefreshTimeout
  <2> SUFFICES ASSUME NEW r \in Refreshes, running'[r] # None
               PROVE  running'[r].left <= RefreshTimeout
    OBVIOUS
  <2>1. running[r] # None
    BY <1>2
  <2>2. running[r].left \in Nat /\ running[r].left <= RefreshTimeout
    BY <2>1 DEF CoverageInv, Refresh
  <2>3. running'[r].left = running[r].left - 1
    BY <2>1, <1>1
  <2> QED
    BY <2>2, <2>3
<1>10. task' \in Refreshes \cup {None}
  BY DEF Tick, CoverageInv
<1> QED
  BY <1>3, <1>6, <1>7, <1>8, <1>9, <1>10 DEF CoverageInv

LEMMA InitGivesInv == Init => CoverageInv
  BY DEF Init, CoverageInv, OneRefresh, Outlasts

LEMMA NextKeepsInv == CoverageInv /\ [Next]_vars => CoverageInv'
<1> SUFFICES ASSUME CoverageInv, [Next]_vars PROVE CoverageInv'
  OBVIOUS
<1>1. CASE UNCHANGED vars
  BY <1>1 DEF vars, CoverageInv, OneRefresh, Outlasts
<1>2. ASSUME NEW c \in Callers, NEW src \in Sources, NEW ids \in SUBSET Owned(src),
             HydrateList(c, src, ids)
      PROVE  CoverageInv'
  BY <1>2, HydrateKeepsInv DEF HydrateList, Owned
<1>3. ASSUME NEW c \in Callers, NEW ids \in SUBSET Scans, HydrateBaseData(c, ids)
      PROVE  CoverageInv'
  BY <1>3, HydrateKeepsInv, CoverageAssumption DEF HydrateBaseData
<1>4. ASSUME NEW c \in Callers, Leave(c)
      PROVE  CoverageInv'
  BY <1>4 DEF Leave, CoverageInv, OneRefresh, Outlasts
<1>5. ASSUME NEW r \in Refreshes, Deliver(r)
      PROVE  CoverageInv'
  BY <1>5, EndKeepsInv DEF Deliver
<1>6. ASSUME NEW r \in Refreshes, TimeOut(r)
      PROVE  CoverageInv'
  BY <1>6, EndKeepsInv DEF TimeOut
<1>7. CASE Tick
  BY <1>7, TickKeepsInv
<1> QED
  BY <1>1, <1>2, <1>3, <1>4, <1>5, <1>6, <1>7 DEF Next

LEMMA CoverageInvariant == Spec => []CoverageInv
  BY InitGivesInv, NextKeepsInv, PTL DEF Spec

\* At most one refresh runs, and the module remembers it
\* (_schedule_dast_coverage_refresh, _refresh_dast_coverage_cache).
THEOREM OneRefreshAlways == Spec => []OneRefresh
<1>1. CoverageInv => OneRefresh
  BY DEF CoverageInv
<1> QED
  BY <1>1, CoverageInvariant, PTL

\* No caller gives up on a refresh that still runs (hydrate_dast_page_coverage).
THEOREM PatienceAlwaysSuffices == Spec => []PatienceSuffices
<1>1. CoverageInv => PatienceSuffices
  <2> SUFFICES ASSUME CoverageInv, NEW c \in Callers, waiting[c] # None
               PROVE  running[waiting[c].on] # None /\ waiting[c].left > 0
    BY DEF PatienceSuffices
  <2>1. waiting[c].on \in Refreshes /\ waiting[c].left \in Nat
    BY DEF CoverageInv, Wait
  <2>2. running[waiting[c].on] # None
        /\ waiting[c].left >= running[waiting[c].on].left + Grace
    BY DEF CoverageInv, Outlasts
  <2>3. running[waiting[c].on].left \in Nat
    BY <2>1, <2>2 DEF CoverageInv, Refresh
  <2>4. Grace \in Nat /\ Grace > 0
    BY CoverageAssumption
  <2> QED
    BY <2>1, <2>2, <2>3, <2>4
<1> QED
  BY <1>1, CoverageInvariant, PTL

----------------------------------------------------------------------------
(* The window *)

\* The index of a scan is its rank in the order of creation, newest first.
LEMMA IndexIsRank ==
    ASSUME NEW prepared \in SUBSET Scans
    PROVE  /\ \A s \in prepared : Index(prepared, s) \in 0 .. Cardinality(prepared) - 1
           /\ \A s, t \in prepared :
                 Index(prepared, s) < Index(prepared, t) <=> Created[s] > Created[t]
           /\ \A k \in 0 .. Cardinality(prepared) :
                 Cardinality({s \in prepared : Index(prepared, s) < k}) = k
<1> DEFINE f == [s \in prepared |-> 0 - Created[s]]
<1>1. IsFiniteSet(prepared)
  BY CoverageAssumption, FS_Subset
<1>2. \A s \in prepared : Created[s] \in Nat /\ f[s] = 0 - Created[s]
  BY CoverageAssumption
<1>3. f \in [prepared -> Int]
  BY <1>2
<1>4. \A s, t \in prepared : /\ f[s] = f[t] => s = t
                             /\ f[t] < f[s] <=> Created[t] > Created[s]
  <2> SUFFICES ASSUME NEW s \in prepared, NEW t \in prepared
               PROVE  /\ f[s] = f[t] => s = t
                      /\ f[t] < f[s] <=> Created[t] > Created[s]
    OBVIOUS
  <2>1. f[s] = f[t] => Created[s] = Created[t]
    <3> HIDE DEF f
    <3> QED
      BY <1>2
  <2>2. Created[s] = Created[t] => s = t
    BY CoverageAssumption
  <2>3. f[t] < f[s] <=> Created[t] > Created[s]
    <3> HIDE DEF f
    <3> QED
      BY <1>2
  <2> QED
    BY <2>1, <2>2, <2>3
<1> HIDE DEF f
<1>5. \A s \in prepared : {t \in prepared : f[t] < f[s]} = Newer(prepared, s)
  BY <1>4 DEF Newer
<1>6. \A s, t \in prepared : f[s] = f[t] => s = t
  BY <1>4
<1>7. /\ \A s \in prepared :
            Cardinality({t \in prepared : f[t] < f[s]}) \in 0 .. Cardinality(prepared) - 1
      /\ \A s, t \in prepared : f[s] < f[t] <=>
            Cardinality({u \in prepared : f[u] < f[s]})
               < Cardinality({u \in prepared : f[u] < f[t]})
  BY <1>1, <1>3, <1>6, RanksAreIndexes
<1>8. \A s \in prepared : Cardinality({t \in prepared : f[t] < f[s]}) = Index(prepared, s)
  BY <1>5 DEF Index
<1>9. \A s, t \in prepared : f[s] < f[t] <=> Created[s] > Created[t]
  BY <1>4
<1>10. \A k \in 0 .. Cardinality(prepared) :
          Cardinality({s \in prepared : Index(prepared, s) < k}) = k
  <2> SUFFICES ASSUME NEW k \in 0 .. Cardinality(prepared)
               PROVE  Cardinality({s \in prepared : Index(prepared, s) < k}) = k
    OBVIOUS
  <2>1. k \in Nat /\ k <= Cardinality(prepared)
    BY <1>1, FS_CardinalityType
  <2>2. {s \in prepared : Cardinality({t \in prepared : f[t] < f[s]}) < k}
           = {s \in prepared : Index(prepared, s) < k}
    BY <1>8
  <2>3. Cardinality({s \in prepared : Cardinality({t \in prepared : f[t] < f[s]}) < k}) = k
    BY <1>1, <1>3, <1>6, <2>1, RanksFill
  <2> QED
    BY <2>2, <2>3
<1>11. \A s \in prepared : Index(prepared, s) \in 0 .. Cardinality(prepared) - 1
  BY <1>7, <1>8
<1>12. \A s, t \in prepared :
          Index(prepared, s) < Index(prepared, t) <=> Created[s] > Created[t]
  BY <1>7, <1>8, <1>9
<1> QED
  BY <1>10, <1>11, <1>12

\* The window is no larger than the list, and the most recent scans are a part of it.
LEMMA WindowBounds ==
    ASSUME NEW prepared \in SUBSET Scans
    PROVE  /\ IsFiniteSet(prepared) /\ Cardinality(prepared) \in Nat
           /\ Window(prepared) \in Nat /\ Window(prepared) <= Cardinality(prepared)
           /\ Priority(prepared) \in Nat /\ Priority(prepared) <= Window(prepared)
<1>1. IsFiniteSet(prepared) /\ Cardinality(prepared) \in Nat
  BY CoverageAssumption, FS_Subset, FS_CardinalityType
<1> QED
  BY <1>1, CoverageAssumption DEF Window, Priority, Smaller

\* No two scans of a list lie equally far behind the cursor.
LEMMA BehindIsInjective ==
    ASSUME NEW prepared \in SUBSET Scans, cursor \in Nat,
           NEW s \in prepared, NEW t \in prepared
    PROVE  /\ Behind(prepared, s) \in Nat
           /\ Behind(prepared, s) = Behind(prepared, t) => s = t
<1> DEFINE n == Cardinality(prepared)
           start == cursor % n
           i == Index(prepared, s)
           j == Index(prepared, t)
<1>1. n \in Nat /\ n # 0
  BY WindowBounds, FS_EmptySet
<1>2. i \in 0 .. n - 1 /\ j \in 0 .. n - 1
  BY IndexIsRank, <1>1
<1>3. start \in 0 .. n - 1
  <2> HIDE DEF n
  <2> QED
    BY <1>1
<1>4. i = j => s = t
  <2> SUFFICES ASSUME i = j PROVE s = t
    OBVIOUS
  <2>1. Created[s] \in Nat /\ Created[t] \in Nat
    BY CoverageAssumption
  <2>2. ~(i < j) /\ ~(j < i)
    BY <1>1, <1>2
  <2>3. ~(Created[s] > Created[t]) /\ ~(Created[t] > Created[s])
    BY <2>2, IndexIsRank, <1>1
  <2> QED
    BY <2>1, <2>3, CoverageAssumption
<1>5. /\ Behind(prepared, s) = IF i >= start THEN i - start ELSE i + n - start
      /\ Behind(prepared, t) = IF j >= start THEN j - start ELSE j + n - start
  BY DEF Behind
<1> HIDE DEF n, start, i, j
<1> QED
  BY <1>1, <1>2, <1>3, <1>4, <1>5

\* Whatever list the cursor was last moved for, a refresh of the list takes as many
\* scans as the window has.
LEMMA SelectionFillsWindow ==
    ASSUME NEW prepared \in SUBSET Scans, cursor \in Nat
    PROVE  Cardinality(Selected(prepared)) = Window(prepared)
<1> DEFINE n == Cardinality(prepared)
           w == Window(prepared)
           r == Priority(prepared)
           recent == {s \in prepared : Index(prepared, s) < r}
           others == {s \in prepared : Index(prepared, s) >= r}
           f == [s \in others |-> Behind(prepared, s)]
           first == {s \in others : Cardinality(Before(prepared, s)) < w - r}
<1>1. /\ IsFiniteSet(prepared) /\ n \in Nat
      /\ w \in Nat /\ w <= n /\ r \in Nat /\ r <= w
  BY WindowBounds
<1>2. Cardinality(recent) = r
  <2>1. r <= Cardinality(prepared)
    <3> HIDE DEF w, r
    <3> QED
      BY <1>1
  <2> QED
    BY <1>1, <2>1, IndexIsRank
<1>3. \A s \in prepared : Index(prepared, s) \in Nat
  BY IndexIsRank, <1>1
<1>4. others = prepared \ recent /\ recent \cap others = {}
  <2> HIDE DEF r
  <2> QED
    BY <1>1, <1>3
<1>5. IsFiniteSet(others) /\ IsFiniteSet(recent) /\ Cardinality(others) = n - r
  <2>1. prepared \cap recent = recent
    OBVIOUS
  <2> HIDE DEF others, recent
  <2>2. IsFiniteSet(prepared \ recent)
        /\ Cardinality(prepared \ recent) = n - Cardinality(prepared \cap recent)
    BY <1>1, FS_Difference
  <2>3. IsFiniteSet(recent)
    BY <1>1, FS_Subset DEF recent
  <2> QED
    BY <2>1, <2>2, <2>3, <1>2, <1>4
<1>6. f \in [others -> Int] /\ \A s, t \in others : f[s] = f[t] => s = t
  <2>1. \A s \in others : f[s] = Behind(prepared, s) /\ s \in prepared
    OBVIOUS
  <2>2. \A s \in others : Behind(prepared, s) \in Int
    <3> HIDE DEF f, others
    <3> QED
      BY <2>1, BehindIsInjective
  <2>3. f \in [others -> Int]
    BY <2>2
  <2> HIDE DEF f, others
  <2> QED
    BY <2>1, <2>3, BehindIsInjective
<1>7. \A s \in others : Before(prepared, s) = {t \in others : f[t] < f[s]}
  BY DEF Before
<1>8. w - r \in Nat /\ w - r <= Cardinality(others)
  <2> HIDE DEF n, w, r, others
  <2> QED
    BY <1>1, <1>5
<1>9. Cardinality(first) = w - r
  <2>1. first = {s \in others : Cardinality({t \in others : f[t] < f[s]}) < w - r}
    <3> HIDE DEF f, others, w, r
    <3> QED
      BY <1>7
  <2> HIDE DEF f, others, w, r, first
  <2> QED
    BY <2>1, <1>5, <1>6, <1>8, RanksFill
<1>10. Selected(prepared) = recent \cup first
  <2>1. recent \cup first = {s \in prepared : \/ Index(prepared, s) < r
                                              \/ Cardinality(Before(prepared, s)) < w - r}
    <3> HIDE DEF r, w
    <3> QED
      BY <1>1, <1>3
  <2> QED
    BY <2>1 DEF Selected, Chosen
<1>11. recent \cap first = {} /\ IsFiniteSet(first)
  <2>1. first \in SUBSET others
    OBVIOUS
  <2> HIDE DEF first, others, recent
  <2> QED
    BY <2>1, <1>4, <1>5, FS_Subset
<1>12. Cardinality(recent \cup first) = r + (w - r) - 0
  <2> HIDE DEF first, others, recent
  <2>1. Cardinality(recent \cup first)
           = Cardinality(recent) + Cardinality(first) - Cardinality(recent \cap first)
    BY <1>5, <1>11, FS_Union
  <2>2. Cardinality(recent \cap first) = 0
    BY <1>11, FS_EmptySet
  <2> QED
    BY <2>1, <2>2, <1>2, <1>9
<1> HIDE DEF first, others, recent, w, r
<1> QED
  BY <1>1, <1>10, <1>12 DEF w

\* A scan that is left out has as many newer ones in the selection as are always
\* refreshed first.
LEMMA RecentGoFirst ==
    ASSUME NEW prepared \in SUBSET Scans, cursor \in Nat,
           NEW s \in prepared \ Selected(prepared)
    PROVE  Cardinality(Newer(Selected(prepared), s)) >= Priority(prepared)
<1> DEFINE r == Priority(prepared)
           recent == {t \in prepared : Index(prepared, t) < r}
<1>1. /\ IsFiniteSet(prepared) /\ r \in Nat /\ r <= Cardinality(prepared)
  <2>1. /\ IsFiniteSet(prepared) /\ Cardinality(prepared) \in Nat
        /\ Window(prepared) \in Nat /\ Window(prepared) <= Cardinality(prepared)
        /\ r \in Nat /\ r <= Window(prepared)
    BY WindowBounds
  <2> HIDE DEF r
  <2> QED
    BY <2>1
<1>2. Cardinality(recent) = r
  BY <1>1, IndexIsRank
<1>3. \A t \in prepared : Index(prepared, t) \in Nat
  BY <1>1, IndexIsRank
<1>4. ~(Index(prepared, s) < r)
  BY DEF Selected, Chosen
<1>5. recent \subseteq Newer(Selected(prepared), s)
  <2> SUFFICES ASSUME NEW t \in recent PROVE t \in Selected(prepared) /\ Created[t] > Created[s]
    BY DEF Newer
  <2>1. t \in prepared /\ Index(prepared, t) < r
    OBVIOUS
  <2>2. t \in Selected(prepared)
    BY <2>1 DEF Selected, Chosen
  <2>3. Index(prepared, t) < Index(prepared, s)
    <3> HIDE DEF r
    <3> QED
      BY <2>1, <1>1, <1>3, <1>4
  <2>4. Created[t] > Created[s]
    BY <2>1, <2>3, <1>1, IndexIsRank
  <2> QED
    BY <2>2, <2>4
<1>6. Newer(Selected(prepared), s) \in SUBSET prepared
  BY DEF Newer, Selected
<1>7. IsFiniteSet(Newer(Selected(prepared), s))
  BY <1>1, <1>6, FS_Subset
<1>8. /\ Cardinality(recent) <= Cardinality(Newer(Selected(prepared), s))
      /\ Cardinality(Newer(Selected(prepared), s)) \in Nat
  <2> HIDE DEF recent
  <2> QED
    BY <1>5, <1>7, FS_Subset, FS_CardinalityType
<1> HIDE DEF r, recent
<1> QED
  BY <1>1, <1>2, <1>8 DEF r

----------------------------------------------------------------------------
(* Types, durations and faults *)

\* The types that CoverageInv leaves open, and what the bound on faults needs: a
\* refresh comes to its last moment only while there is a fault left for it to count,
\* and since it runs alone no other takes that one.
TimesInv ==
    /\ cache \in [Scans -> [known : BOOLEAN, left : 0 .. CoverageTtl]]
    /\ cursor \in 0 .. Cardinality(Scans) - 1
    /\ faults \in 0 .. MaxFaults
    /\ \A r \in Refreshes : running[r] # None /\ running[r].left = 0 => faults < MaxFaults
    /\ \A c \in Callers : waiting[c] # None => waiting[c].left <= Patience

LEMMA CursorStaysInRange ==
    ASSUME cursor \in 0 .. Cardinality(Scans) - 1, NEW prepared \in SUBSET Scans
    PROVE  NextCursor(prepared) \in 0 .. Cardinality(Scans) - 1
<1> DEFINE n == Cardinality(prepared)
           w == Window(prepared)
           start == cursor % n
<1>1. CASE prepared = {}
  BY <1>1 DEF NextCursor
<1>2. CASE prepared # {}
  <2>1. n \in Nat /\ n # 0 /\ w \in Nat
    BY <1>2, WindowBounds, FS_EmptySet
  <2>2. n <= Cardinality(Scans) /\ Cardinality(Scans) \in Nat
    BY CoverageAssumption, FS_Subset, FS_CardinalityType
  <2>3. NextCursor(prepared) = (start + w) % n
    BY <1>2 DEF NextCursor
  <2>4. start \in 0 .. n - 1
    <3> HIDE DEF n
    <3> QED
      BY <2>1, <2>2
  <2>5. (start + w) % n \in 0 .. n - 1
    <3> HIDE DEF n, w, start
    <3> QED
      BY <2>1, <2>4
  <2> HIDE DEF n, w, start
  <2> QED
    BY <2>1, <2>2, <2>3, <2>5
<1> QED
  BY <1>1, <1>2

LEMMA HydrateKeepsTimes ==
    ASSUME CoverageInv, TimesInv, NEW c \in Callers, NEW src \in Sources,
           NEW ids \in SUBSET Scans, NEW known, Hydrate(c, src, ids, known)
    PROVE  TimesInv'
<1> DEFINE prepared == Prepared(ids, known)
<1> /\ RefreshTimeout \in Nat /\ RefreshTimeout # 0 /\ Grace \in Nat
    /\ CoverageTtl \in Nat /\ CoverageTtl # 0
  BY CoverageAssumption
<1>1. cache' \in [Scans -> [known : BOOLEAN, left : 0 .. CoverageTtl]]
  <2>1. [known |-> TRUE, left |-> CoverageTtl] \in [known : BOOLEAN, left : 0 .. CoverageTtl]
    OBVIOUS
  <2>2. cache' = [s \in Scans |-> IF s \in Shown(ids, known)
                                  THEN [known |-> TRUE, left |-> CoverageTtl]
                                  ELSE cache[s]]
    BY DEF Hydrate, Remember
  <2> QED
    BY <2>1, <2>2 DEF TimesInv
<1>2. cursor' \in 0 .. Cardinality(Scans) - 1
  <2>1. prepared \in SUBSET Scans
    BY DEF Prepared
  <2>2. cursor' = NextCursor(prepared)
    BY DEF Hydrate
  <2> HIDE DEF prepared
  <2> QED
    BY <2>1, <2>2, CursorStaysInRange DEF TimesInv
<1>3. faults' = faults
  BY DEF Hydrate
<1>4. /\ \A r \in Refreshes : running'[r] # None /\ running'[r].left = 0 =>
                              running[r] # None /\ running[r].left = 0
      /\ \A d \in Callers : waiting'[d] # None =>
            waiting'[d].left = Patience \/ (waiting[d] # None /\ waiting'[d] = waiting[d])
  <2>1. CASE Starts(ids, known)
    <3>1. PICK r \in Refreshes :
            /\ running' = [running EXCEPT ![r] =
                  [client |-> src, scans |-> Selected(prepared), left |-> RefreshTimeout]]
            /\ waiting' = [waiting EXCEPT ![c] = [on |-> r, left |-> Patience]]
      BY <2>1 DEF Hydrate
    <3> DEFINE new == [client |-> src, scans |-> Selected(prepared), left |-> RefreshTimeout]
               wait == [on |-> r, left |-> Patience]
    <3>2. new.left = RefreshTimeout /\ wait.left = Patience
      OBVIOUS
    <3>3. running' = [running EXCEPT ![r] = new] /\ waiting' = [waiting EXCEPT ![c] = wait]
      BY <3>1
    <3> HIDE DEF new, wait
    <3> QED
      BY <3>2, <3>3 DEF CoverageInv
  <2>2. CASE ~Starts(ids, known)
    <3> DEFINE wait == [on |-> task, left |-> Patience]
    <3>1. /\ running' = running
          /\ waiting' = waiting \/ waiting' = [waiting EXCEPT ![c] = wait]
      BY <2>2 DEF Hydrate
    <3>2. wait.left = Patience
      OBVIOUS
    <3> HIDE DEF wait
    <3> QED
      BY <3>1, <3>2 DEF CoverageInv
  <2> QED
    BY <2>1, <2>2
<1>5. Patience \in Nat /\ Patience' = Patience
  BY DEF Patience
<1> QED
  BY <1>1, <1>2, <1>3, <1>4, <1>5 DEF TimesInv

LEMMA EndKeepsTimes ==
    ASSUME CoverageInv, TimesInv, NEW r \in Refreshes, running[r] # None, End(r),
           cache' \in [Scans -> [known : BOOLEAN, left : 0 .. CoverageTtl]],
           faults' \in 0 .. MaxFaults, UNCHANGED cursor
    PROVE  TimesInv'
<1>1. \A q \in Refreshes : running[q] # None => q = r
  BY DEF CoverageInv, OneRefresh
<1>2. \A q \in Refreshes : running'[q] = None
  BY <1>1 DEF End, CoverageInv
<1>3. \A c \in Callers : waiting'[c] # None => waiting[c] # None /\ waiting'[c] = waiting[c]
  BY DEF End
<1>4. Patience' = Patience
  BY DEF Patience
<1> QED
  BY <1>2, <1>3, <1>4 DEF TimesInv

LEMMA DeliverKeepsTimes ==
    ASSUME CoverageInv, TimesInv, NEW r \in Refreshes, Deliver(r)
    PROVE  TimesInv'
<1> DEFINE Entry == [known : BOOLEAN, left : 0 .. CoverageTtl]
<1> /\ CoverageTtl \in Nat /\ ErrorTtl \in 1 .. CoverageTtl /\ MaxFaults \in Nat
  BY CoverageAssumption
<1>1. /\ [known |-> TRUE, left |-> CoverageTtl] \in Entry
      /\ [known |-> FALSE, left |-> ErrorTtl] \in Entry
  OBVIOUS
<1>2. PICK failed \in SUBSET running[r].scans :
        /\ failed # {} => faults < MaxFaults
        /\ faults' = IF failed = {} THEN faults ELSE faults + 1
        /\ LET found == {s \in running[r].scans \ failed :
                            s \in Visited /\ Owner[s] = running[r].client}
           IN  cache' = [s \in Scans |->
                  IF s \in found THEN [known |-> TRUE, left |-> CoverageTtl]
                  ELSE IF s \in running[r].scans THEN [known |-> FALSE, left |-> ErrorTtl]
                  ELSE cache[s]]
  BY DEF Deliver
<1>3. cache \in [Scans -> Entry] /\ faults \in 0 .. MaxFaults
  BY DEF TimesInv
<1>4. faults' \in 0 .. MaxFaults
  BY <1>2, <1>3
<1>5. cache' \in [Scans -> Entry]
  <2> HIDE DEF Entry
  <2> QED
    BY <1>1, <1>2, <1>3
<1>6. End(r) /\ running[r] # None /\ UNCHANGED cursor
  BY DEF Deliver
<1> QED
  BY <1>4, <1>5, <1>6, EndKeepsTimes

LEMMA TimeOutKeepsTimes ==
    ASSUME CoverageInv, TimesInv, NEW r \in Refreshes, TimeOut(r)
    PROVE  TimesInv'
<1>1. running[r] # None /\ running[r].left = 0 /\ faults' = faults + 1
      /\ End(r) /\ UNCHANGED <<cache, cursor>>
  BY DEF TimeOut
<1>2. faults' \in 0 .. MaxFaults
  BY <1>1, CoverageAssumption DEF TimesInv
<1>3. cache' \in [Scans -> [known : BOOLEAN, left : 0 .. CoverageTtl]]
  BY <1>1 DEF TimesInv
<1> QED
  BY <1>1, <1>2, <1>3, EndKeepsTimes

LEMMA TickKeepsTimes ==
    ASSUME CoverageInv, TimesInv, Tick
    PROVE  TimesInv'
<1> DEFINE Entry == [known : BOOLEAN, left : 0 .. CoverageTtl]
<1> /\ CoverageTtl \in Nat /\ MaxFaults \in Nat /\ RefreshTimeout \in Nat /\ Grace \in Nat
  BY CoverageAssumption
<1>1. cache' \in [Scans -> Entry]
  <2>1. ASSUME NEW s \in Scans
        PROVE  (IF cache[s].left <= 1 THEN Unknown ELSE [cache[s] EXCEPT !.left = @ - 1]) \in Entry
    <3>1. cache[s] \in Entry /\ cache[s].left \in 0 .. CoverageTtl
      BY DEF TimesInv
    <3>2. Unknown \in Entry
      BY DEF Unknown
    <3>3. CASE cache[s].left <= 1
      BY <3>2, <3>3
    <3>4. CASE ~(cache[s].left <= 1)
      BY <3>1, <3>4
    <3> QED
      BY <3>3, <3>4
  <2>2. cache' = [s \in Scans |-> IF cache[s].left <= 1 THEN Unknown
                                  ELSE [cache[s] EXCEPT !.left = @ - 1]]
    BY DEF Tick
  <2> HIDE DEF Entry
  <2> QED
    BY <2>1, <2>2
<1>2. UNCHANGED <<cursor, faults>>
  BY DEF Tick
<1>3. ASSUME NEW r \in Refreshes, running'[r] # None, running'[r].left = 0
      PROVE  faults < MaxFaults
  <2>1. running[r] # None
    BY <1>3 DEF Tick
  <2>2. running[r] \in Refresh /\ running[r].left \in Nat
    BY <2>1 DEF CoverageInv, Refresh
  <2>3. running'[r] = [running[r] EXCEPT !.left = @ - 1]
    BY <2>1 DEF Tick
  <2>4. running'[r].left = running[r].left - 1
    BY <2>2, <2>3 DEF Refresh
  <2>5. running[r].left > (IF faults < MaxFaults THEN 0 ELSE 1)
    BY <2>1 DEF Tick
  <2> QED
    BY <1>3, <2>2, <2>4, <2>5
<1>4. ASSUME NEW c \in Callers, waiting'[c] # None
      PROVE  waiting'[c].left <= Patience
  <2>1. waiting[c] # None
    BY <1>4 DEF Tick
  <2>2. waiting[c] \in Wait /\ waiting[c].left \in Nat
    BY <2>1 DEF CoverageInv, Wait
  <2>3. waiting'[c] = [waiting[c] EXCEPT !.left = Less(@)]
    BY <2>1 DEF Tick
  <2>4. waiting'[c].left = Less(waiting[c].left)
    BY <2>2, <2>3 DEF Wait
  <2>5. waiting[c].left <= Patience /\ Patience \in Nat
    BY <2>1 DEF TimesInv, Patience
  <2> QED
    BY <2>2, <2>4, <2>5 DEF Less
<1>5. Patience' = Patience
  BY DEF Patience
<1> QED
  BY <1>1, <1>2, <1>3, <1>4, <1>5 DEF TimesInv

LEMMA TimesInvariant == Spec => []TimesInv
<1>1. Init => TimesInv
  <2> SUFFICES ASSUME Init PROVE TimesInv
    OBVIOUS
  <2>1. Cardinality(Scans) \in Nat /\ Cardinality(Scans) # 0
    BY CoverageAssumption, FS_CardinalityType, FS_EmptySet
  <2>2. Unknown \in [known : BOOLEAN, left : 0 .. CoverageTtl]
    BY CoverageAssumption DEF Unknown
  <2> QED
    BY <2>1, <2>2, CoverageAssumption DEF Init, TimesInv
<1>2. CoverageInv /\ TimesInv /\ [Next]_vars => TimesInv'
  <2> SUFFICES ASSUME CoverageInv, TimesInv, [Next]_vars PROVE TimesInv'
    OBVIOUS
  <2>1. CASE UNCHANGED vars
    BY <2>1 DEF vars, TimesInv, Patience
  <2>2. ASSUME NEW c \in Callers, NEW src \in Sources, NEW ids \in SUBSET Owned(src),
               HydrateList(c, src, ids)
        PROVE  TimesInv'
    <3>1. ids \in SUBSET Scans
      BY DEF Owned
    <3> QED
      BY <2>2, <3>1, HydrateKeepsTimes DEF HydrateList
  <2>3. ASSUME NEW c \in Callers, NEW ids \in SUBSET Scans, HydrateBaseData(c, ids)
        PROVE  TimesInv'
    BY <2>3, HydrateKeepsTimes, CoverageAssumption DEF HydrateBaseData
  <2>4. ASSUME NEW c \in Callers, Leave(c)
        PROVE  TimesInv'
    BY <2>4 DEF Leave, TimesInv, CoverageInv, Patience
  <2>5. ASSUME NEW r \in Refreshes, Deliver(r)
        PROVE  TimesInv'
    BY <2>5, DeliverKeepsTimes
  <2>6. ASSUME NEW r \in Refreshes, TimeOut(r)
        PROVE  TimesInv'
    BY <2>6, TimeOutKeepsTimes
  <2>7. CASE Tick
    BY <2>7, TickKeepsTimes
  <2> QED
    BY <2>1, <2>2, <2>3, <2>4, <2>5, <2>6, <2>7 DEF Next
<1> QED
  BY <1>1, <1>2, CoverageInvariant, PTL DEF Spec

\* The cache, the refreshes and the waits keep their types and durations, and the
\* cursor stays an index of some list of scans, whatever list it was moved for.
THEOREM TypeSafety == Spec => []TypeOK
<1>1. CoverageInv /\ TimesInv => TypeOK
  <2> SUFFICES ASSUME CoverageInv, TimesInv PROVE TypeOK
    OBVIOUS
  <2>1. ASSUME NEW r \in Refreshes, running[r] # None
        PROVE  running[r] \in [client : Sources, scans : SUBSET Scans, left : 0 .. RefreshTimeout]
    BY <2>1, CoverageAssumption DEF CoverageInv, Refresh
  <2>2. ASSUME NEW c \in Callers, waiting[c] # None
        PROVE  waiting[c] \in [on : Refreshes, left : 0 .. RefreshTimeout + Grace]
    BY <2>2, CoverageAssumption DEF CoverageInv, TimesInv, Wait, Patience
  <2>3. /\ running \in [Refreshes -> {None} \cup
              [client : Sources, scans : SUBSET Scans, left : 0 .. RefreshTimeout]]
        /\ waiting \in [Callers -> {None} \cup
              [on : Refreshes, left : 0 .. RefreshTimeout + Grace]]
    BY <2>1, <2>2 DEF CoverageInv
  <2> QED
    BY <2>3 DEF TypeOK, CoverageInv, TimesInv
<1> QED
  BY <1>1, CoverageInvariant, TimesInvariant, PTL

\* Wherever the cursor was left, the window is filled with scans that need a refresh
\* and no recent one is left out for an older one (_schedule_dast_coverage_refresh).
THEOREM WindowAlwaysFilled == Spec => []WindowFilled
<1>1. TimesInv => WindowFilled
  <2> SUFFICES ASSUME TimesInv, NEW ids \in SUBSET Scans
               PROVE  LET prepared == Prepared(ids, {})
                          selected == Selected(prepared)
                      IN  /\ Cardinality(selected) = Window(prepared)
                          /\ \A s \in prepared \ selected :
                                Cardinality(Newer(selected, s)) >= Priority(prepared)
    BY DEF WindowFilled
  <2>1. Prepared(ids, {}) \in SUBSET Scans
    BY DEF Prepared
  <2>2. cursor \in Nat
    BY DEF TimesInv
  <2> QED
    BY <2>1, <2>2, SelectionFillsWindow, RecentGoFirst
<1> QED
  BY <1>1, TimesInvariant, PTL
=============================================================================
