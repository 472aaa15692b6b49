-------------------------- MODULE DashboardsProofs ---------------------------
(***************************************************************************)
(* Proofs about Dashboards, for any number of requests, start-ups,         *)
(* dashboards and past versions.  The inductive invariant says of every    *)
(* handler what its locals may be relied on for (Sound), of every deleted  *)
(* dashboard that it is deleted once and cannot be taken for a new one     *)
(* (DeletedOnce), and that the seed version stays where it was (SeedKept). *)
(***************************************************************************)
EXTENDS Dashboards, FiniteSetTheorems, TLAPS

In(V, d) == {v \in V : v.dashboard = d}

NumbersIn(V, d) == {v.number : v \in In(V, d)}

(* The handler holds the name and widgets it has written, or nearly has. *)
Carrying(h) == h.op # "delete" /\ h.pc \in {"number", "insert", "unsaved", "lost"}

(* What holds of the locals h of request r, given the versions V *)
Sound(V, r, h) ==
    /\ h.pc \in {"target", "select", "write", "number", "insert"} => h.op \in Versioned
    /\ h.pc \in {"unsaved", "lost"} => h.op \in Versioned \cup {"delete"}
    /\ h.pc \in {"target", "select", "write", "number", "insert", "unsaved", "lost"} =>
          h.dashboard \in DashboardIds
    /\ h.pc = "write" \/ Carrying(h) => h.name \in Names /\ h.widgets \in Seq(Widgets)
    /\ h.pc = "write" => h.layout \in Layouts \cup {SeedLayout}
    /\ h.pc \in {"select", "write", "number", "insert"} /\ h.from # 0 =>
          \E w \in V : /\ w.dashboard = h.dashboard /\ w.number = h.from
                       /\ w.name = h.name /\ w.widgets = h.widgets
    /\ h.pc = "insert" => h.number > 0 /\ 1..(h.number - 1) \subseteq NumbersIn(V, h.dashboard)
    /\ (h.pc = "write" \/ Carrying(h)) /\ h.dashboard = SeedDashboard => SeedVersion \in V
    /\ h.pc = "audit" => h.op # "none"
    /\ h.pc = "audit" /\ h.op \in Versioned =>
          \E v \in V : v.by = r /\ v.dashboard = h.dashboard

SeedKept ==
    dashboards[SeedDashboard] # None \/ In(versions, SeedDashboard) # {} =>
       SeedVersion \in versions

(* The handler has deleted the dashboard and not said so yet. *)
Deleting(h) == h.op = "delete" /\ h.pc = "audit"

(* Not a new one: it has versions, or somebody still works on its first *)
Kept(d) ==
    \/ In(versions, d) # {}
    \/ \E r \in Requests : req[r].dashboard = d /\ Carrying(req[r])

Gone(d) == d \in DashboardIds /\ dashboards[d] = None /\ Kept(d)

(* What a dashboard holds is held by one of its versions, or by a handler. *)
Recorded(d) ==
    \E v \in In(versions, d) :
       v.name = dashboards[d].name /\ v.widgets = dashboards[d].widgets

Carried(d) ==
    \E r \in Requests :
       /\ req[r].dashboard = d /\ Carrying(req[r])
       /\ req[r].name = dashboards[d].name /\ req[r].widgets = dashboards[d].widgets

LiveIsHeld == \A d \in DashboardIds : dashboards[d] # None => Recorded(d) \/ Carried(d)

(* The trail speaks of handlers that have ended. *)
TrailIsOver == \A e \in trail : req[e.by].pc \in {"over", "lost"}

DeletedOnce ==
    /\ \A e \in Told : e.op = "delete" => Gone(e.dashboard)
    /\ \A r \in Requests : Deleting(req[r]) =>
          /\ Gone(req[r].dashboard)
          /\ \A e \in Told : e.op = "delete" => e.dashboard # req[r].dashboard
          /\ \A q \in Requests : Deleting(req[q]) /\ req[q].dashboard = req[r].dashboard => q = r

DashInv ==
    /\ DashTypeOK
    /\ IsFiniteSet(versions)
    /\ \A r \in Requests : Sound(versions, r, req[r])
    /\ NumbersWithoutGaps
    /\ RollbackRestores
    /\ LiveIsHeld
    /\ SeedKept
    /\ TrailIsTrue
    /\ TrailIsOver
    /\ DeletedOnce

----------------------------------------------------------------------------
(* What a handler relies on stays true when versions are added. *)
LEMMA SoundGrows ==
    ASSUME NEW V, NEW W, V \subseteq W, NEW r, NEW h, Sound(V, r, h)
    PROVE  Sound(W, r, h)
<1>1. NumbersIn(V, h.dashboard) \subseteq NumbersIn(W, h.dashboard)
  BY DEF NumbersIn, In
<1> QED
  BY <1>1, SMT DEF Sound

(* Numbers is NumbersIn of the table. *)
LEMMA NumbersAre ==
    ASSUME NEW d
    PROVE  Numbers(d) = NumbersIn(versions, d) /\ VersionsOf(d) = In(versions, d)
BY DEF Numbers, VersionsOf, NumbersIn, In

LEMMA IdleIsSound ==
    ASSUME NEW V, NEW r, NEW h \in {Idle, Over}
    PROVE  h \in Handler /\ Sound(V, r, h) /\ ~Deleting(h) /\ ~Carrying(h)
BY SMT DEF Idle, Over, Ending, Task, Handler, Sound, Deleting, Carrying, Versioned

LEMMA OverIsOver == Over.pc = "over"
BY SMT DEF Over, Idle, Ending, Task

(* A finite, gapless set of numbers is the interval up to its size. *)
LEMMA GaplessIsInterval ==
    ASSUME NEW N \in SUBSET (Nat \ {0}), IsFiniteSet(N), \A n \in N : 1..n \subseteq N
    PROVE  Cardinality(N) \in Nat /\ N = 1..Cardinality(N)
<1> DEFINE c == Cardinality(N)
<1>1. c \in Nat
  BY FS_CardinalityType
<1>2. N \subseteq 1..c
  <2> SUFFICES ASSUME NEW n \in N PROVE n \in 1..c
    OBVIOUS
  <2>1. Cardinality(1..n) <= c
    BY FS_Subset
  <2>2. Cardinality(1..n) = n
    BY FS_Interval, SMT
  <2> QED
    BY <1>1, <2>1, <2>2, SMT
<1>3. IsFiniteSet(1..c) /\ Cardinality(1..c) = c
  BY <1>1, FS_Interval, SMT
<1> QED
  BY <1>1, <1>2, <1>3, FS_Subset

(* The next number of a finite, gapless history is 1 or follows the last. *)
LEMMA NextFollows ==
    ASSUME DashTypeOK, IsFiniteSet(versions), NumbersWithoutGaps, NEW d \in DashboardIds
    PROVE  /\ NextNumber(d) \in Nat \ {0}
           /\ 1..(NextNumber(d) - 1) \subseteq Numbers(d)
<1> DEFINE N == Numbers(d)
           c == Cardinality(N)
<1>1. N \subseteq Nat \ {0} /\ \A n \in N : 1..n \subseteq N
  BY DEF DashTypeOK, Version, Numbers, VersionsOf, NumbersWithoutGaps
<1>2. IsFiniteSet(N)
  <2>1. IsFiniteSet(VersionsOf(d))
    BY FS_Subset DEF VersionsOf
  <2> DEFINE f == [v \in VersionsOf(d) |-> v.number]
  <2>2. f \in Surjection(VersionsOf(d), N)
    BY DEF Numbers, Surjection
  <2> QED
    BY <2>1, <2>2, FS_Surjection
<1>3. c \in Nat /\ N = 1..c
  BY <1>1, <1>2, GaplessIsInterval
<1>4. CASE N = {}
  BY <1>4, SMT DEF NextNumber
<1>5. CASE N # {}
  <2>1. c \in N /\ \A n \in N : n <= c
    BY <1>3, <1>5, SMT
  <2> HIDE DEF N, c
  <2>2. Max(N) = c
    BY <1>3, <2>1, SMT DEF Max
  <2>3. NextNumber(d) = c + 1
    BY <1>5, <2>2 DEF NextNumber, N
  <2> QED
    BY <1>3, <2>3, SMT DEF N
<1> QED
  BY <1>4, <1>5

----------------------------------------------------------------------------
(* The steps of a handler that change none of the tables the properties are about *)

Quiet(r, h) ==
    /\ req' = [req EXCEPT ![r] = h]
    /\ UNCHANGED <<dashboards, versions, trail>>
    /\ req[r].pc \notin {"over", "lost"}
    /\ Sound(versions, r, h)
    /\ ~Deleting(h)
    /\ Carrying(req[r]) =>
          /\ Carrying(h) /\ h.dashboard = req[r].dashboard
          /\ h.name = req[r].name /\ h.widgets = req[r].widgets

(* A handler that is at work is not in the trail. *)
LEMMA TrailStays ==
    ASSUME DashInv, NEW r \in Requests, NEW h, req' = [req EXCEPT ![r] = h],
           req[r].pc \notin {"over", "lost"}, UNCHANGED trail, versions \subseteq versions'
    PROVE  Told' = Told /\ TrailIsTrue' /\ TrailIsOver'
<1>1. trail \subseteq [by : Requests, op : Versioned \cup {"delete", "template"},
                      dashboard : DashboardIds \cup {None}]
  BY DEF DashInv, DashTypeOK
<1>2. \A q \in Requests \ {r} : req'[q] = req[q]
  BY DEF DashInv, DashTypeOK
<1>3. \A e \in trail : e.by # r /\ req'[e.by] = req[e.by]
  BY <1>1, <1>2 DEF DashInv, TrailIsOver
<1>4. Told' = Told
  BY <1>3 DEF Told
<1>5. TrailIsTrue'
  BY <1>4 DEF DashInv, TrailIsTrue
<1>6. TrailIsOver'
  BY <1>3 DEF DashInv, TrailIsOver
<1> QED
  BY <1>4, <1>5, <1>6

(* What is carried of a dashboard that no step touches *)
LEMMA HeldStays ==
    ASSUME DashInv, NEW r \in Requests, NEW h \in Handler, req' = [req EXCEPT ![r] = h],
           versions \subseteq versions', NEW d \in DashboardIds, dashboards'[d] = dashboards[d],
           dashboards[d] # None,
           Carrying(req[r]) =>
              \/ /\ Carrying(h) /\ h.dashboard = req[r].dashboard
                 /\ h.name = req[r].name /\ h.widgets = req[r].widgets
              \/ \E v \in versions' : /\ v.dashboard = req[r].dashboard
                                      /\ v.name = req[r].name /\ v.widgets = req[r].widgets
    PROVE  Recorded(d)' \/ Carried(d)'
<1>1. req'[r] = h /\ \A q \in Requests \ {r} : req'[q] = req[q]
  BY DEF DashInv, DashTypeOK
<1>2. CASE Recorded(d)
  BY <1>2 DEF Recorded, In
<1>3. CASE Carried(d)
  <2>1. PICK q \in Requests :
           /\ req[q].dashboard = d /\ Carrying(req[q])
           /\ req[q].name = dashboards[d].name /\ req[q].widgets = dashboards[d].widgets
    BY <1>3 DEF Carried
  <2>2. CASE q # r
    BY <1>1, <2>1, <2>2 DEF Carried
  <2>3. CASE q = r
    <3>1. CASE Carrying(h) /\ h.dashboard = d /\ h.name = req[r].name /\ h.widgets = req[r].widgets
      BY <1>1, <2>1, <2>3, <3>1 DEF Carried
    <3>2. ASSUME NEW v \in versions', v.dashboard = d, v.name = req[r].name,
                 v.widgets = req[r].widgets
          PROVE  Recorded(d)'
      BY <2>1, <2>3, <3>2 DEF Recorded, In
    <3> QED
      BY <2>1, <2>3, <3>1, <3>2
  <2> QED
    BY <2>2, <2>3
<1> QED
  BY <1>2, <1>3 DEF DashInv, LiveIsHeld

(* A dashboard that is not new does not become so. *)
LEMMA KeptStays ==
    ASSUME DashInv, NEW r \in Requests, NEW h, req' = [req EXCEPT ![r] = h],
           versions \subseteq versions',
           Carrying(req[r]) =>
              \/ Carrying(h) /\ h.dashboard = req[r].dashboard
              \/ \E v \in versions' : v.dashboard = req[r].dashboard
    PROVE  \A d : Kept(d) => Kept(d)'
<1>1. req'[r] = h /\ \A q \in Requests \ {r} : req'[q] = req[q]
  BY DEF DashInv, DashTypeOK
<1> SUFFICES ASSUME NEW d, Kept(d)
             PROVE  Kept(d)'
  OBVIOUS
<1>2. CASE In(versions, d) # {}
  BY <1>2 DEF Kept, In
<1>3. CASE \E q \in Requests : req[q].dashboard = d /\ Carrying(req[q])
  <2>1. PICK q \in Requests : req[q].dashboard = d /\ Carrying(req[q])
    BY <1>3
  <2>2. CASE q # r
    BY <1>1, <2>1, <2>2 DEF Kept
  <2>3. CASE q = r
    <3>1. CASE Carrying(h) /\ h.dashboard = d
      BY <1>1, <3>1 DEF Kept
    <3>2. ASSUME NEW v \in versions', v.dashboard = d
          PROVE  Kept(d)'
      BY <3>2 DEF Kept, In
    <3> QED
      BY <2>1, <2>3, <3>1, <3>2
  <2> QED
    BY <2>2, <2>3
<1> QED
  BY <1>2, <1>3 DEF Kept

LEMMA QuietKeeps ==
    ASSUME DashInv, DashTypeOK', NEW r \in Requests, NEW h \in Handler, Quiet(r, h)
    PROVE  DashInv'
<1> USE DEF Quiet
<1>1. req'[r] = h /\ \A q \in Requests \ {r} : req'[q] = req[q]
  BY DEF DashInv, DashTypeOK
<1>2. IsFiniteSet(versions') /\ NumbersWithoutGaps' /\ RollbackRestores' /\ SeedKept'
  BY DEF DashInv, NumbersWithoutGaps, RollbackRestores, SeedKept, Numbers, VersionsOf
<1>3. Told' = Told /\ TrailIsTrue' /\ TrailIsOver'
  BY TrailStays
<1>4. \A q \in Requests : Sound(versions', q, req'[q])
  BY <1>1 DEF DashInv
<1>5. LiveIsHeld'
  BY HeldStays DEF LiveIsHeld
<1>6. \A d : Gone(d) => Gone(d)'
  BY KeptStays DEF Gone
<1>7. \A q \in Requests : Deleting(req'[q]) => q # r /\ Deleting(req[q]) /\ req'[q] = req[q]
  BY <1>1
<1>8. DeletedOnce'
  BY <1>3, <1>6, <1>7 DEF DashInv, DeletedOnce
<1> QED
  BY <1>2, <1>3, <1>4, <1>5, <1>8 DEF DashInv

(* Handlers of which one field is set *)
LEMMA WithPc ==
    ASSUME NEW h \in Handler, NEW pc \in {"select", "write", "number", "insert", "audit", "unsaved", "lost"}
    PROVE  LET g == [h EXCEPT !.pc = pc]
           IN  /\ g \in Handler /\ g.pc = pc /\ g.op = h.op
               /\ g.dashboard = h.dashboard /\ g.name = h.name /\ g.widgets = h.widgets
               /\ g.layout = h.layout /\ g.number = h.number /\ g.from = h.from
<1>1. [h EXCEPT !.pc = pc] \in Handler
  BY SMT DEF Handler
<1> QED
  BY <1>1, SMT DEF Handler

LEMMA WithName ==
    ASSUME NEW h \in Handler, NEW name \in Names
    PROVE  LET g == [h EXCEPT !.name = name]
           IN  /\ g \in Handler /\ g.pc = h.pc /\ g.op = h.op
               /\ g.dashboard = h.dashboard /\ g.name = name /\ g.widgets = h.widgets
               /\ g.layout = h.layout /\ g.number = h.number /\ g.from = h.from
<1>1. [h EXCEPT !.name = name] \in Handler
  BY SMT DEF Handler
<1> QED
  BY <1>1, SMT DEF Handler

LEMMA WithWidgets ==
    ASSUME NEW h \in Handler, NEW widgets \in Seq(Widgets)
    PROVE  LET g == [h EXCEPT !.widgets = widgets]
           IN  /\ g \in Handler /\ g.pc = h.pc /\ g.op = h.op
               /\ g.dashboard = h.dashboard /\ g.name = h.name /\ g.widgets = widgets
               /\ g.layout = h.layout /\ g.number = h.number /\ g.from = h.from
<1>1. [h EXCEPT !.widgets = widgets] \in Handler
  BY SMT DEF Handler
<1> QED
  BY <1>1, SMT DEF Handler

LEMMA WithLayout ==
    ASSUME NEW h \in Handler, NEW layout \in Layouts \cup {SeedLayout, None}
    PROVE  LET g == [h EXCEPT !.layout = layout]
           IN  /\ g \in Handler /\ g.pc = h.pc /\ g.op = h.op
               /\ g.dashboard = h.dashboard /\ g.name = h.name /\ g.widgets = h.widgets
               /\ g.layout = layout /\ g.number = h.number /\ g.from = h.from
<1>1. [h EXCEPT !.layout = layout] \in Handler
  BY SMT DEF Handler
<1> QED
  BY <1>1, SMT DEF Handler

LEMMA WithNumber ==
    ASSUME NEW h \in Handler, NEW number \in Nat
    PROVE  LET g == [h EXCEPT !.number = number]
           IN  /\ g \in Handler /\ g.pc = h.pc /\ g.op = h.op
               /\ g.dashboard = h.dashboard /\ g.name = h.name /\ g.widgets = h.widgets
               /\ g.layout = h.layout /\ g.number = number /\ g.from = h.from
<1>1. [h EXCEPT !.number = number] \in Handler
  BY SMT DEF Handler
<1> QED
  BY <1>1, SMT DEF Handler

LEMMA WithFrom ==
    ASSUME NEW h \in Handler, NEW from \in Nat
    PROVE  LET g == [h EXCEPT !.from = from]
           IN  /\ g \in Handler /\ g.pc = h.pc /\ g.op = h.op
               /\ g.dashboard = h.dashboard /\ g.name = h.name /\ g.widgets = h.widgets
               /\ g.layout = h.layout /\ g.number = h.number /\ g.from = from
<1>1. [h EXCEPT !.from = from] \in Handler
  BY SMT DEF Handler
<1> QED
  BY <1>1, SMT DEF Handler

(* The locals after Forward and after Lose *)
Forwarded(h) == [[h EXCEPT !.pc = "number"] EXCEPT !.layout = None]

Lost(h) ==
    [[[[h EXCEPT !.pc = "lost"] EXCEPT !.layout = None] EXCEPT !.number = 0] EXCEPT !.from = 0]

LEMMA ForwardedIs ==
    ASSUME NEW h \in Handler
    PROVE  LET g == Forwarded(h)
           IN  /\ g \in Handler /\ g.pc = "number" /\ g.op = h.op /\ g.dashboard = h.dashboard
               /\ g.name = h.name /\ g.widgets = h.widgets /\ g.from = h.from
<1> DEFINE a == [h EXCEPT !.pc = "number"]
<1>1. /\ a \in Handler /\ a.pc = "number" /\ a.op = h.op /\ a.dashboard = h.dashboard
      /\ a.name = h.name /\ a.widgets = h.widgets /\ a.from = h.from
  BY WithPc
<1> HIDE DEF a
<1>2. LET g == [a EXCEPT !.layout = None]
      IN  /\ g \in Handler /\ g.pc = a.pc /\ g.op = a.op /\ g.dashboard = a.dashboard
          /\ g.name = a.name /\ g.widgets = a.widgets /\ g.from = a.from
  BY <1>1, WithLayout
<1> QED
  BY <1>1, <1>2 DEF Forwarded, a

LEMMA LostIs ==
    ASSUME NEW h \in Handler
    PROVE  LET g == Lost(h)
           IN  /\ g \in Handler /\ g.pc = "lost" /\ g.op = h.op /\ g.dashboard = h.dashboard
               /\ g.name = h.name /\ g.widgets = h.widgets
<1> DEFINE a == [h EXCEPT !.pc = "lost"]
           b == [a EXCEPT !.layout = None]
           c == [b EXCEPT !.number = 0]
<1>1. /\ a \in Handler /\ a.pc = "lost" /\ a.op = h.op /\ a.dashboard = h.dashboard
      /\ a.name = h.name /\ a.widgets = h.widgets
  BY WithPc
<1> HIDE DEF a
<1>2. /\ b \in Handler /\ b.pc = a.pc /\ b.op = a.op /\ b.dashboard = a.dashboard
      /\ b.name = a.name /\ b.widgets = a.widgets
  BY <1>1, WithLayout
<1> HIDE DEF b
<1>3. /\ c \in Handler /\ c.pc = b.pc /\ c.op = b.op /\ c.dashboard = b.dashboard
      /\ c.name = b.name /\ c.widgets = b.widgets
  BY <1>2, WithNumber
<1> HIDE DEF c
<1>4. LET g == [c EXCEPT !.from = 0]
      IN  /\ g \in Handler /\ g.pc = c.pc /\ g.op = c.op /\ g.dashboard = c.dashboard
          /\ g.name = c.name /\ g.widgets = c.widgets
  BY <1>3, WithFrom
<1> QED
  BY <1>1, <1>2, <1>3, <1>4 DEF Lost, a, b, c

LEMMA AtRequest ==
    ASSUME DashInv, NEW r \in Requests
    PROVE  req \in [Requests -> Handler] /\ req[r] \in Handler /\ Sound(versions, r, req[r])
BY DEF DashInv, DashTypeOK

LEMMA ForwardSets ==
    ASSUME DashInv, NEW r \in Requests, Forward(r)
    PROVE  req' = [req EXCEPT ![r] = Forwarded(req[r])]
BY AtRequest DEF Forward, Forwarded

LEMMA LoseSets ==
    ASSUME DashInv, NEW r \in Requests, Lose(r)
    PROVE  req' = [req EXCEPT ![r] = Lost(req[r])]
BY AtRequest DEF Lose, Lost

(* One more fault is within the bound. *)
LEMMA FaultCounted ==
    ASSUME DashInv, Fault
    PROVE  requestFaults' \in 0..MaxRequestFaults
BY DashboardsAssumption, SMT DEF Fault, DashInv, DashTypeOK

LEMMA ReadTargetKeeps ==
    ASSUME DashInv, NEW r \in Requests, ReadTarget(r)
    PROVE  DashInv'
<1>1. req \in [Requests -> Handler] /\ req[r] \in Handler /\ Sound(versions, r, req[r])
  BY AtRequest
<1>2. PICK v \in VersionsOf(req[r].dashboard) :
         /\ v.number = req[r].from
         /\ req' = [req EXCEPT ![r].pc = "select", ![r].name = v.name, ![r].widgets = v.widgets]
  BY DEF ReadTarget
<1> DEFINE h == [[[req[r] EXCEPT !.pc = "select"] EXCEPT !.name = v.name] EXCEPT !.widgets = v.widgets]
<1>3. v \in versions /\ v.dashboard = req[r].dashboard /\ v.name \in Names /\ v.widgets \in Seq(Widgets)
  BY DEF DashInv, DashTypeOK, Version, VersionsOf
<1>4. /\ h \in Handler /\ h.pc = "select" /\ h.op = req[r].op /\ h.dashboard = req[r].dashboard
      /\ h.name = v.name /\ h.widgets = v.widgets /\ h.from = req[r].from
  <2> DEFINE g == [req[r] EXCEPT !.pc = "select"]
  <2>1. /\ g \in Handler /\ g.pc = "select" /\ g.op = req[r].op
        /\ g.dashboard = req[r].dashboard /\ g.from = req[r].from
    BY <1>1, WithPc
  <2> HIDE DEF g
  <2> DEFINE n == [g EXCEPT !.name = v.name]
  <2>2. /\ n \in Handler /\ n.pc = g.pc /\ n.op = g.op /\ n.dashboard = g.dashboard
     /\ n.name = v.name /\ n.from = g.from
    BY <1>3, <2>1, WithName
  <2> HIDE DEF n
  <2>3. LET k == [n EXCEPT !.widgets = v.widgets]
     IN  /\ k \in Handler /\ k.pc = n.pc /\ k.op = n.op /\ k.dashboard = n.dashboard
         /\ k.name = n.name /\ k.widgets = v.widgets /\ k.from = n.from
    BY <1>3, <2>2, WithWidgets
  <2> QED
    BY <2>1, <2>2, <2>3 DEF g, n
<1>5. req' = [req EXCEPT ![r] = h]
  BY <1>1, <1>2
<1>6. req[r].pc = "target" /\ UNCHANGED <<dashboards, versions, templates, trail, seeding, requestFaults, starts>>
  BY DEF ReadTarget
<1> HIDE DEF h
<1>7. Sound(versions, r, h) /\ ~Deleting(h)
  BY <1>1, <1>2, <1>3, <1>4, <1>6 DEF Sound, Carrying, Deleting
<1>8. DashTypeOK'
  BY <1>1, <1>4, <1>5, <1>6 DEF DashInv, DashTypeOK
<1> QED
  BY <1>4, <1>5, <1>6, <1>7, <1>8, QuietKeeps DEF Quiet, Carrying

(* A handler that ends and had written no row of a dashboard *)
LEMMA EndKeeps ==
    ASSUME DashInv, NEW r \in Requests, End(r),
           ~Carrying(req[r]), req[r].pc \notin {"over", "lost"},
           UNCHANGED <<dashboards, versions, trail, seeding, starts>>,
           templates' \in [TemplateIds -> {None, SeedWidgets} \cup WidgetLists],
           requestFaults' \in 0..MaxRequestFaults
    PROVE  DashInv'
<1>1. Over \in Handler /\ Sound(versions, r, Over) /\ ~Deleting(Over)
  BY IdleIsSound
<1>2. req' = [req EXCEPT ![r] = Over]
  BY DEF End
<1>3. DashTypeOK'
  BY <1>1, <1>2 DEF DashInv, DashTypeOK
<1> QED
  BY <1>1, <1>2, <1>3, QuietKeeps DEF Quiet

(* A handler that ends with less, or more, than it was to store *)
LEMMA LoseKeeps ==
    ASSUME DashInv, NEW r \in Requests, Lose(r), req[r].pc \in {"number", "insert", "unsaved"},
           UNCHANGED <<dashboards, versions, templates, trail, seeding, starts>>,
           requestFaults' \in 0..MaxRequestFaults
    PROVE  DashInv'
<1>1. req \in [Requests -> Handler] /\ req[r] \in Handler /\ Sound(versions, r, req[r])
  BY AtRequest
<1> DEFINE h == Lost(req[r])
<1>2. /\ h \in Handler /\ h.pc = "lost" /\ h.op = req[r].op /\ h.dashboard = req[r].dashboard
      /\ h.name = req[r].name /\ h.widgets = req[r].widgets
  BY <1>1, LostIs
<1>3. req' = [req EXCEPT ![r] = h]
  BY LoseSets
<1> HIDE DEF h
<1>4. Sound(versions, r, h) /\ ~Deleting(h)
  BY <1>1, <1>2 DEF Sound, Carrying, Deleting
<1>5. DashTypeOK'
  BY <1>1, <1>2, <1>3 DEF DashInv, DashTypeOK
<1> QED
  BY <1>2, <1>3, <1>4, <1>5, QuietKeeps DEF Quiet, Carrying

LEMMA SelectDashboardKeeps ==
    ASSUME DashInv, NEW r \in Requests, SelectDashboard(r)
    PROVE  DashInv'
<1>1. req \in [Requests -> Handler] /\ req[r] \in Handler /\ Sound(versions, r, req[r])
  BY AtRequest
<1>2. /\ req[r].pc = "select" /\ req[r].dashboard \in DashboardIds /\ req[r].op \in Versioned
      /\ UNCHANGED <<dashboards, versions, templates, trail, seeding, requestFaults, starts>>
  BY <1>1 DEF SelectDashboard, Sound
<1>3. CASE dashboards[req[r].dashboard] = None
  <2>1. /\ requestFaults' \in 0..MaxRequestFaults
        /\ templates' \in [TemplateIds -> {None, SeedWidgets} \cup WidgetLists]
    BY <1>2 DEF DashInv, DashTypeOK
  <2> QED
    BY <1>2, <1>3, <2>1, EndKeeps DEF SelectDashboard, Carrying
<1>4. CASE dashboards[req[r].dashboard] # None
  <2> DEFINE row == dashboards[req[r].dashboard]
             merged == Merged(row, req[r])
             h == [[[[req[r] EXCEPT !.pc = "write"] EXCEPT !.name = merged.name]
                     EXCEPT !.widgets = merged.widgets] EXCEPT !.layout = merged.layout]
  <2>1. row.name \in Names /\ row.widgets \in Seq(Widgets) /\ row.layout \in Layouts \cup {SeedLayout}
    BY <1>2, <1>4 DEF DashInv, DashTypeOK, Row
  <2>2. /\ req[r].name \in Names \cup {None} /\ req[r].widgets \in {None} \cup Seq(Widgets)
        /\ req[r].layout \in Layouts \cup {SeedLayout, None}
    BY <1>1 DEF Handler
  <2>3. /\ merged.name \in Names /\ merged.widgets \in Seq(Widgets)
        /\ merged.layout \in Layouts \cup {SeedLayout}
        /\ req[r].name # None => merged.name = req[r].name
        /\ req[r].widgets # None => merged.widgets = req[r].widgets
    BY <2>1, <2>2 DEF Merged
  <2>4. req' = [req EXCEPT ![r] = h]
    BY <1>1, <1>2, <1>4 DEF SelectDashboard
  <2> HIDE DEF merged
  <2>5. /\ h \in Handler /\ h.pc = "write" /\ h.op = req[r].op /\ h.dashboard = req[r].dashboard
        /\ h.name = merged.name /\ h.widgets = merged.widgets /\ h.layout = merged.layout
        /\ h.from = req[r].from
    <3> DEFINE g == [req[r] EXCEPT !.pc = "write"]
    <3>1. /\ g \in Handler /\ g.pc = "write" /\ g.op = req[r].op
          /\ g.dashboard = req[r].dashboard /\ g.from = req[r].from
      BY <1>1, WithPc
    <3> HIDE DEF g
    <3> DEFINE n == [g EXCEPT !.name = merged.name]
    <3>2. /\ n \in Handler /\ n.pc = g.pc /\ n.op = g.op /\ n.dashboard = g.dashboard
       /\ n.name = merged.name /\ n.from = g.from
      BY <2>3, <3>1, WithName
    <3> HIDE DEF n
    <3> DEFINE m == [n EXCEPT !.widgets = merged.widgets]
    <3>3. /\ m \in Handler /\ m.pc = n.pc /\ m.op = n.op /\ m.dashboard = n.dashboard
       /\ m.name = n.name /\ m.widgets = merged.widgets /\ m.from = n.from
      BY <2>3, <3>2, WithWidgets
    <3> HIDE DEF m
    <3>4. LET k == [m EXCEPT !.layout = merged.layout]
       IN  /\ k \in Handler /\ k.pc = m.pc /\ k.op = m.op /\ k.dashboard = m.dashboard
           /\ k.name = m.name /\ k.widgets = m.widgets /\ k.layout = merged.layout
           /\ k.from = m.from
      <4>1. merged.layout \in Layouts \cup {SeedLayout, None}
        BY <2>3
      <4> QED
        BY <3>3, <4>1, WithLayout
    <3> QED
      BY <3>1, <3>2, <3>3, <3>4 DEF g, n, m
  <2> HIDE DEF h
  <2>6. req[r].from # 0 =>
           \E w \in versions : /\ w.dashboard = req[r].dashboard /\ w.number = req[r].from
                               /\ w.name = merged.name /\ w.widgets = merged.widgets
    <3> SUFFICES ASSUME req[r].from # 0
                 PROVE  \E w \in versions : /\ w.dashboard = req[r].dashboard /\ w.number = req[r].from
                                            /\ w.name = merged.name /\ w.widgets = merged.widgets
      OBVIOUS
    <3>1. PICK w \in versions : /\ w.dashboard = req[r].dashboard /\ w.number = req[r].from
                                /\ w.name = req[r].name /\ w.widgets = req[r].widgets
      BY <1>1, <1>2 DEF Sound
    <3>2. w.name \in Names /\ w.widgets \in Seq(Widgets)
      BY DEF DashInv, DashTypeOK, Version
    <3>3. req[r].name # None /\ req[r].widgets # None
      BY <3>1, <3>2, DashboardsAssumption
    <3> QED
      BY <2>3, <3>1, <3>3
  <2>7. req[r].dashboard = SeedDashboard => SeedVersion \in versions
    BY <1>2, <1>4 DEF DashInv, SeedKept
  <2>8. Sound(versions, r, h) /\ ~Deleting(h)
    BY <1>2, <2>3, <2>5, <2>6, <2>7, SMT DEF Sound, Carrying, Deleting
  <2>9. DashTypeOK'
    BY <1>1, <1>2, <2>4, <2>5 DEF DashInv, DashTypeOK
  <2> QED
    BY <1>2, <2>4, <2>5, <2>8, <2>9, QuietKeeps DEF Quiet, Carrying
<1> QED
  BY <1>3, <1>4

LEMMA SelectNumberKeeps ==
    ASSUME DashInv, NEW r \in Requests, SelectNumber(r)
    PROVE  DashInv'
<1>1. req \in [Requests -> Handler] /\ req[r] \in Handler /\ Sound(versions, r, req[r])
  BY AtRequest
<1>2. /\ req[r].pc = "number" /\ req[r].dashboard \in DashboardIds /\ req[r].op \in Versioned
      /\ UNCHANGED <<dashboards, versions, templates, trail, seeding, requestFaults, starts>>
  BY <1>1 DEF SelectNumber, Sound
<1> DEFINE number == NextNumber(req[r].dashboard)
           h == [[req[r] EXCEPT !.pc = "insert"] EXCEPT !.number = number]
<1>3. number \in Nat \ {0} /\ 1..(number - 1) \subseteq NumbersIn(versions, req[r].dashboard)
  BY <1>2, NextFollows, NumbersAre DEF DashInv
<1>4. req' = [req EXCEPT ![r] = h]
  BY <1>1 DEF SelectNumber
<1> HIDE DEF number
<1>5. /\ h \in Handler /\ h.pc = "insert" /\ h.op = req[r].op /\ h.dashboard = req[r].dashboard
      /\ h.name = req[r].name /\ h.widgets = req[r].widgets /\ h.from = req[r].from
      /\ h.number = number
  <2> DEFINE g == [req[r] EXCEPT !.pc = "insert"]
  <2>1. /\ g \in Handler /\ g.pc = "insert" /\ g.op = req[r].op
        /\ g.dashboard = req[r].dashboard /\ g.name = req[r].name
        /\ g.widgets = req[r].widgets /\ g.from = req[r].from
    BY <1>1, WithPc
  <2> HIDE DEF g
  <2>2. LET k == [g EXCEPT !.number = number]
        IN  /\ k \in Handler /\ k.pc = g.pc /\ k.op = g.op /\ k.dashboard = g.dashboard
            /\ k.name = g.name /\ k.widgets = g.widgets /\ k.from = g.from
            /\ k.number = number
    BY <1>3, <2>1, WithNumber
  <2> QED
    BY <2>1, <2>2 DEF g
<1> HIDE DEF h
<1>6. Sound(versions, r, h) /\ ~Deleting(h)
  BY <1>1, <1>2, <1>3, <1>5, SMT DEF Sound, Carrying, Deleting, Versioned
<1>7. DashTypeOK'
  BY <1>1, <1>2, <1>4, <1>5 DEF DashInv, DashTypeOK
<1> QED
  BY <1>2, <1>4, <1>5, <1>6, <1>7, QuietKeeps DEF Quiet, Carrying

LEMMA TargetNotFoundKeeps ==
    ASSUME DashInv, NEW r \in Requests, TargetNotFound(r)
    PROVE  DashInv'
<1>1. /\ requestFaults' \in 0..MaxRequestFaults
      /\ templates' \in [TemplateIds -> {None, SeedWidgets} \cup WidgetLists]
  BY DEF TargetNotFound, DashInv, DashTypeOK
<1> QED
  BY <1>1, EndKeeps DEF TargetNotFound, Carrying

LEMMA WizardRefusedKeeps ==
    ASSUME DashInv, NEW r \in Requests, NEW t, NEW selected, WizardRefused(r, t, selected)
    PROVE  DashInv'
<1>1. /\ requestFaults' \in 0..MaxRequestFaults
      /\ templates' \in [TemplateIds -> {None, SeedWidgets} \cup WidgetLists]
  BY DEF WizardRefused, DashInv, DashTypeOK
<1> QED
  BY <1>1, EndKeeps DEF WizardRefused, Carrying

(* A request that begins with a call which changes no row of a dashboard *)
LEMMA BeginKeeps ==
    ASSUME DashInv, NEW r \in Requests, NEW h \in Handler, req[r].pc = "idle",
           req' = [req EXCEPT ![r] = h], Sound(versions, r, h), ~Deleting(h),
           templates' \in [TemplateIds -> {None, SeedWidgets} \cup WidgetLists],
           requestFaults' \in 0..MaxRequestFaults,
           UNCHANGED <<dashboards, versions, trail, seeding, starts>>
    PROVE  DashInv'
<1>1. DashTypeOK'
  BY DEF DashInv, DashTypeOK
<1> QED
  BY <1>1, QuietKeeps DEF Quiet, Carrying

LEMMA TemplateIsSound ==
    ASSUME NEW r
    PROVE  LET h == Ending("template", "audit", None)
           IN  h \in Handler /\ Sound(versions, r, h) /\ ~Deleting(h)
BY SMT DEF Ending, Task, Handler, Sound, Deleting, Carrying, Versioned

LEMMA CreateTemplateKeeps ==
    ASSUME DashInv, NEW r \in Requests, NEW t \in TemplateIds, NEW widgets \in WidgetLists,
           CreateTemplate(r, t, widgets)
    PROVE  DashInv'
<1> DEFINE h == Ending("template", "audit", None)
<1>1. h \in Handler /\ Sound(versions, r, h) /\ ~Deleting(h)
  BY TemplateIsSound
<1>2. req' = [req EXCEPT ![r] = h]
  BY DEF CreateTemplate
<1> HIDE DEF h
<1>3. /\ templates' \in [TemplateIds -> {None, SeedWidgets} \cup WidgetLists]
      /\ requestFaults' \in 0..MaxRequestFaults
  BY DEF CreateTemplate, DashInv, DashTypeOK
<1> QED
  BY <1>1, <1>2, <1>3, BeginKeeps DEF CreateTemplate

LEMMA TemplateDisturbedKeeps ==
    ASSUME DashInv, NEW r \in Requests, NEW t \in TemplateIds, NEW widgets \in WidgetLists,
           TemplateDisturbed(r, t, widgets)
    PROVE  DashInv'
<1>1. /\ req[r].pc = "idle" /\ Fault
      /\ UNCHANGED <<dashboards, versions, trail, seeding, starts>>
      /\ templates' \in [TemplateIds -> {None, SeedWidgets} \cup WidgetLists]
  BY DEF TemplateDisturbed, DashInv, DashTypeOK
<1>2. requestFaults' \in 0..MaxRequestFaults
  BY <1>1, FaultCounted
<1>3. CASE End(r)
  BY <1>1, <1>2, <1>3, EndKeeps DEF Carrying
<1>4. CASE req' = [req EXCEPT ![r] = Ending("template", "audit", None)]
  <2> DEFINE h == Ending("template", "audit", None)
  <2>1. h \in Handler /\ Sound(versions, r, h) /\ ~Deleting(h)
    BY TemplateIsSound
  <2> QED
    BY <1>1, <1>2, <1>4, <2>1, BeginKeeps
<1> QED
  BY <1>3, <1>4 DEF TemplateDisturbed

LEMMA UpdateKeeps ==
    ASSUME DashInv, NEW r \in Requests, NEW d \in DashboardIds, NEW name \in Names \cup {None},
           NEW widgets \in WidgetLists \cup {None}, NEW layout \in Layouts \cup {None},
           Update(r, d, name, widgets, layout)
    PROVE  DashInv'
<1> DEFINE h == Task("update", "select", d, name, widgets, layout, 0)
<1>1. h = [op |-> "update", pc |-> "select", dashboard |-> d, name |-> name,
           widgets |-> widgets, layout |-> layout, number |-> 0, from |-> 0]
  BY DEF Task
<1>2. req' = [req EXCEPT ![r] = h]
  BY DEF Update
<1> HIDE DEF h
<1>3. widgets \in {None} \cup Seq(Widgets)
  BY DashboardsAssumption
<1>4. h \in Handler /\ Sound(versions, r, h) /\ ~Deleting(h)
  BY <1>1, <1>3, SMT DEF Handler, Sound, Deleting, Carrying, Versioned
<1>5. /\ templates' \in [TemplateIds -> {None, SeedWidgets} \cup WidgetLists]
      /\ requestFaults' \in 0..MaxRequestFaults
  BY DEF Update, DashInv, DashTypeOK
<1> QED
  BY <1>2, <1>4, <1>5, BeginKeeps DEF Update

LEMMA RollbackKeeps ==
    ASSUME DashInv, NEW r \in Requests, NEW d \in DashboardIds,
           NEW number \in Numbers(d) \cup {0}, Rollback(r, d, number)
    PROVE  DashInv'
<1> DEFINE h == Task("rollback", "target", d, None, None, None, number)
<1>1. h = [op |-> "rollback", pc |-> "target", dashboard |-> d, name |-> None,
           widgets |-> None, layout |-> None, number |-> 0, from |-> number]
  BY DEF Task
<1>2. req' = [req EXCEPT ![r] = h]
  BY DEF Rollback
<1> HIDE DEF h
<1>3. number \in Nat
  BY DEF DashInv, DashTypeOK, Version, Numbers, VersionsOf
<1>4. h \in Handler /\ Sound(versions, r, h) /\ ~Deleting(h)
  BY <1>1, <1>3, SMT DEF Handler, Sound, Deleting, Carrying, Versioned
<1>5. /\ templates' \in [TemplateIds -> {None, SeedWidgets} \cup WidgetLists]
      /\ requestFaults' \in 0..MaxRequestFaults
  BY DEF Rollback, DashInv, DashTypeOK
<1> QED
  BY <1>2, <1>4, <1>5, BeginKeeps DEF Rollback

LEMMA RequestFailsKeeps ==
    ASSUME DashInv, NEW r \in Requests, RequestFails(r)
    PROVE  DashInv'
<1>1. /\ UNCHANGED <<dashboards, versions, templates, trail, seeding, starts>>
      /\ Pending(r) /\ Fault
  BY DEF RequestFails
<1>2. /\ requestFaults' \in 0..MaxRequestFaults
      /\ templates' \in [TemplateIds -> {None, SeedWidgets} \cup WidgetLists]
  BY <1>1, FaultCounted DEF DashInv, DashTypeOK
<1>3. CASE req[r].pc \in {"number", "insert", "unsaved"}
  BY <1>1, <1>2, <1>3, LoseKeeps DEF RequestFails
<1>4. CASE req[r].pc \notin {"number", "insert", "unsaved"}
  BY <1>1, <1>2, <1>4, EndKeeps DEF RequestFails, Pending, Carrying
<1> QED
  BY <1>3, <1>4

LEMMA ReturnsUnstoredKeeps ==
    ASSUME DashInv, NEW r \in Requests, ReturnsUnstored(r)
    PROVE  DashInv'
<1>1. /\ UNCHANGED <<dashboards, versions, templates, trail, seeding, starts>>
      /\ req \in [Requests -> Handler] /\ req[r] \in Handler /\ Sound(versions, r, req[r])
      /\ Fault
  BY AtRequest DEF ReturnsUnstored
<1>2. /\ requestFaults' \in 0..MaxRequestFaults
      /\ templates' \in [TemplateIds -> {None, SeedWidgets} \cup WidgetLists]
  BY <1>1, FaultCounted DEF DashInv, DashTypeOK
<1>3. CASE req[r].pc = "write" /\ Forward(r)
  <2> DEFINE h == Forwarded(req[r])
  <2>1. /\ h \in Handler /\ h.pc = "number" /\ h.op = req[r].op /\ h.dashboard = req[r].dashboard
        /\ h.name = req[r].name /\ h.widgets = req[r].widgets /\ h.from = req[r].from
    BY <1>1, ForwardedIs
  <2>2. req' = [req EXCEPT ![r] = h]
    BY <1>3, ForwardSets
  <2> HIDE DEF h
  <2>3. Sound(versions, r, h) /\ ~Deleting(h)
    BY <1>1, <1>3, <2>1, SMT DEF Sound, Carrying, Deleting, Versioned
  <2>4. DashTypeOK'
    BY <1>1, <1>2, <2>1, <2>2 DEF DashInv, DashTypeOK
  <2> QED
    BY <1>1, <1>3, <2>1, <2>2, <2>3, <2>4, QuietKeeps DEF Quiet, Carrying
<1>4. CASE req[r].pc = "insert" /\ Goto(r, "unsaved")
  <2> DEFINE h == [req[r] EXCEPT !.pc = "unsaved"]
  <2>1. /\ h \in Handler /\ h.pc = "unsaved" /\ h.op = req[r].op /\ h.dashboard = req[r].dashboard
        /\ h.name = req[r].name /\ h.widgets = req[r].widgets
    BY <1>1, WithPc
  <2>2. req' = [req EXCEPT ![r] = h]
    BY <1>1, <1>4 DEF Goto
  <2> HIDE DEF h
  <2>3. Sound(versions, r, h) /\ ~Deleting(h)
    BY <1>1, <1>4, <2>1 DEF Sound, Carrying, Deleting
  <2>4. DashTypeOK'
    BY <1>1, <1>2, <2>1, <2>2 DEF DashInv, DashTypeOK
  <2> QED
    BY <1>1, <1>4, <2>1, <2>2, <2>3, <2>4, QuietKeeps DEF Quiet, Carrying
<1>5. CASE req[r].pc \in {"audit", "unsaved"} /\ EndOrLose(r)
  <2>1. CASE req[r].pc = "audit"
    BY <1>1, <1>2, <1>5, <2>1, EndKeeps DEF EndOrLose, Carrying
  <2>2. CASE req[r].pc = "unsaved"
    BY <1>1, <1>2, <1>5, <2>2, LoseKeeps DEF EndOrLose
  <2> QED
    BY <1>5, <2>1, <2>2
<1> QED
  BY <1>3, <1>4, <1>5 DEF ReturnsUnstored

----------------------------------------------------------------------------
(* The steps that change a table *)

(* The locals of a handler that creates a dashboard *)
LEMMA CreatingIs ==
    ASSUME DashInv, NEW r \in Requests, NEW d \in DashboardIds, FreshDashboard(d),
           NEW name \in Names, NEW widgets \in Seq(Widgets), NEW pc \in {"number", "lost"}
    PROVE  LET h == Task("create", pc, d, name, widgets, None, 0)
           IN  /\ h \in Handler /\ h.op = "create" /\ h.pc = pc /\ h.dashboard = d
               /\ h.name = name /\ h.widgets = widgets
               /\ Sound(versions, r, h) /\ ~Deleting(h) /\ Carrying(h)
<1> DEFINE h == Task("create", pc, d, name, widgets, None, 0)
<1>1. /\ h.op = "create" /\ h.pc = pc /\ h.dashboard = d /\ h.name = name
      /\ h.widgets = widgets /\ h.from = 0
  BY DEF Task
<1>2. h \in Handler
  BY SMT DEF Task, Handler, Versioned
<1> HIDE DEF h
<1>3. Sound(versions, r, h) /\ ~Deleting(h) /\ Carrying(h)
  BY <1>1, SMT DEF Sound, Carrying, Versioned, Deleting, FreshDashboard
<1> QED
  BY <1>1, <1>2, <1>3 DEF h

LEMMA RowAddedKeeps ==
    ASSUME DashInv, NEW r \in Requests, NEW d \in DashboardIds, NEW name \in Names,
           NEW widgets \in Seq(Widgets), NEW layout \in Layouts, NEW pc \in {"number", "lost"},
           req[r].pc = "idle", FreshDashboard(d),
           dashboards' = [dashboards EXCEPT ![d] =
                            [name |-> name, widgets |-> widgets, layout |-> layout]],
           req' = [req EXCEPT ![r] = Task("create", pc, d, name, widgets, None, 0)],
           requestFaults' \in 0..MaxRequestFaults,
           UNCHANGED <<versions, templates, trail, seeding, starts>>
    PROVE  DashInv'
<1> DEFINE h == Task("create", pc, d, name, widgets, None, 0)
           row == [name |-> name, widgets |-> widgets, layout |-> layout]
<1>1. /\ h \in Handler /\ h.op = "create" /\ h.pc = pc /\ h.dashboard = d
      /\ h.name = name /\ h.widgets = widgets
      /\ Sound(versions, r, h) /\ ~Deleting(h) /\ Carrying(h)
  BY CreatingIs
<1>2. row \in Row /\ row.name = name /\ row.widgets = widgets
  BY DEF Row
<1>3. req' = [req EXCEPT ![r] = h] /\ dashboards' = [dashboards EXCEPT ![d] = row]
  OBVIOUS
<1> HIDE DEF h, row
<1>4. DashTypeOK'
  BY <1>1, <1>2, <1>3 DEF DashInv, DashTypeOK
<1>5. req'[r] = h /\ (\A q \in Requests \ {r} : req'[q] = req[q])
      /\ (\A x \in DashboardIds \ {d} : dashboards'[x] = dashboards[x])
      /\ dashboards'[d] = row
  BY <1>3 DEF DashInv, DashTypeOK
<1>6. IsFiniteSet(versions') /\ NumbersWithoutGaps' /\ RollbackRestores'
  BY DEF DashInv, NumbersWithoutGaps, RollbackRestores, Numbers, VersionsOf
<1>7. Told' = Told /\ TrailIsTrue' /\ TrailIsOver'
  BY <1>3, TrailStays
<1>8. \A q \in Requests : Sound(versions', q, req'[q])
  BY <1>1, <1>5 DEF DashInv
<1>9. SeedKept'
  BY <1>5, DashboardsAssumption DEF DashInv, SeedKept, FreshDashboard
<1>10. ~Carrying(req[r])
  BY DEF Carrying
<1>11. LiveIsHeld'
  <2> SUFFICES ASSUME NEW x \in DashboardIds, dashboards'[x] # None
               PROVE  Recorded(x)' \/ Carried(x)'
    BY DEF LiveIsHeld
  <2>1. CASE x = d
    BY <1>1, <1>2, <1>5, <2>1 DEF Carried
  <2>2. CASE x # d
    BY <1>1, <1>3, <1>5, <1>10, <2>2, HeldStays
  <2> QED
    BY <2>1, <2>2
<1>12. ASSUME NEW x, Gone(x)
       PROVE  Gone(x)'
  <2>1. x # d /\ x \in DashboardIds /\ dashboards[x] = None
    BY <1>12 DEF Gone, Kept, FreshDashboard, VersionsOf, In
  <2>2. Kept(x)'
    BY <1>3, <1>10, <1>12, KeptStays DEF Gone
  <2> QED
    BY <1>5, <2>1, <2>2 DEF Gone
<1>13. \A q \in Requests : Deleting(req'[q]) => Deleting(req[q]) /\ req'[q] = req[q]
  BY <1>1, <1>5
<1>14. DeletedOnce'
  BY <1>7, <1>12, <1>13 DEF DashInv, DeletedOnce
<1> QED
  BY <1>4, <1>6, <1>7, <1>8, <1>9, <1>11, <1>14 DEF DashInv

LEMMA RowDisturbedKeeps ==
    ASSUME DashInv, NEW r \in Requests, NEW d \in DashboardIds, NEW name \in Names,
           NEW widgets \in Seq(Widgets), NEW layout \in Layouts, req[r].pc = "idle",
           RowInserted(r, d, name, widgets, layout) \/ RowDisturbed(r, d, name, widgets, layout),
           UNCHANGED <<versions, templates, trail, seeding, starts>>
    PROVE  DashInv'
<1>1. requestFaults' \in 0..MaxRequestFaults
  BY FaultCounted DEF RowInserted, RowDisturbed, DashInv, DashTypeOK
<1>2. CASE RowInserted(r, d, name, widgets, layout)
  BY <1>1, <1>2, RowAddedKeeps DEF RowInserted
<1>3. CASE RowDisturbed(r, d, name, widgets, layout) /\ UNCHANGED dashboards
  <2> DEFINE h == Task("create", "number", d, name, widgets, None, 0)
             g == Task("create", "lost", d, name, widgets, None, 0)
  <2>1. FreshDashboard(d) /\ (req' = [req EXCEPT ![r] = h] \/ req' = [req EXCEPT ![r] = g])
    BY <1>3 DEF RowDisturbed
  <2>2. /\ h \in Handler /\ Sound(versions, r, h) /\ ~Deleting(h)
        /\ g \in Handler /\ Sound(versions, r, g) /\ ~Deleting(g)
    BY <2>1, CreatingIs
  <2> HIDE DEF h, g
  <2>3. templates' \in [TemplateIds -> {None, SeedWidgets} \cup WidgetLists]
    BY DEF DashInv, DashTypeOK
  <2> QED
    BY <1>1, <1>3, <2>1, <2>2, <2>3, BeginKeeps
<1>4. CASE RowDisturbed(r, d, name, widgets, layout) /\ dashboards' # dashboards
  BY <1>1, <1>4, RowAddedKeeps DEF RowDisturbed
<1> QED
  BY <1>2, <1>3, <1>4

(* The row of a dashboard is deleted, and its handler goes on or has raised. *)
LEMMA RowDeletedKeeps ==
    ASSUME DashInv, NEW r \in Requests, NEW d \in DashboardIds, req[r].pc = "idle",
           dashboards[d] # None, dashboards' = [dashboards EXCEPT ![d] = None],
           NEW h \in {Ending("delete", "audit", d), Over},
           req' = [req EXCEPT ![r] = h], requestFaults' \in 0..MaxRequestFaults,
           UNCHANGED <<versions, templates, trail, seeding, starts>>
    PROVE  DashInv'
<1>1. h \in Handler /\ Sound(versions, r, h) /\ (Deleting(h) => h.dashboard = d)
  <2>1. CASE h = Over
    BY <2>1, IdleIsSound
  <2>2. CASE h = Ending("delete", "audit", d)
    BY <2>2, SMT DEF Ending, Task, Handler, Sound, Carrying, Versioned
  <2> QED
    BY <2>1, <2>2
<1>2. DashTypeOK'
  BY <1>1 DEF DashInv, DashTypeOK
<1>3. req'[r] = h /\ (\A q \in Requests \ {r} : req'[q] = req[q])
      /\ (\A x \in DashboardIds \ {d} : dashboards'[x] = dashboards[x])
      /\ dashboards'[d] = None
  BY DEF DashInv, DashTypeOK
<1>4. IsFiniteSet(versions') /\ NumbersWithoutGaps' /\ RollbackRestores'
  BY DEF DashInv, NumbersWithoutGaps, RollbackRestores, Numbers, VersionsOf
<1>5. Told' = Told /\ TrailIsTrue' /\ TrailIsOver'
  BY TrailStays
<1>6. \A q \in Requests : Sound(versions', q, req'[q])
  BY <1>1, <1>3 DEF DashInv
<1>7. SeedKept'
  BY <1>3, DashboardsAssumption DEF DashInv, SeedKept
<1>8. ~Carrying(req[r])
  BY DEF Carrying
<1>9. \A x : Kept(x) => Kept(x)'
  BY <1>8, KeptStays
<1>10. Kept(d)
  BY DEF DashInv, LiveIsHeld, Recorded, Carried, Kept
<1>11. LiveIsHeld'
  <2> SUFFICES ASSUME NEW x \in DashboardIds, dashboards'[x] # None
               PROVE  Recorded(x)' \/ Carried(x)'
    BY DEF LiveIsHeld
  <2>1. dashboards'[x] = dashboards[x]
    BY <1>3
  <2> QED
    BY <1>1, <1>8, <2>1, HeldStays
<1>12. \A x : Gone(x) => x # d /\ Gone(x)'
  BY <1>3, <1>9 DEF Gone
<1>13. Gone(d)'
  BY <1>3, <1>9, <1>10 DEF Gone
<1>14. \A q \in Requests : Deleting(req'[q]) =>
          \/ q = r /\ req'[q].dashboard = d
          \/ /\ Deleting(req[q]) /\ req'[q] = req[q] /\ req[q].dashboard # d
             /\ Gone(req[q].dashboard)'
  BY <1>1, <1>3, <1>12 DEF DashInv, DeletedOnce
<1>15. \A e \in Told' : e.op = "delete" => e.dashboard # d /\ Gone(e.dashboard)'
  BY <1>5, <1>12 DEF DashInv, DeletedOnce
<1>16. DeletedOnce'
  BY <1>3, <1>5, <1>13, <1>14, <1>15 DEF DashInv, DeletedOnce
<1> QED
  BY <1>2, <1>4, <1>5, <1>6, <1>7, <1>11, <1>16 DEF DashInv

LEMMA DeleteKeeps ==
    ASSUME DashInv, NEW r \in Requests, NEW d \in DashboardIds, Delete(r, d)
    PROVE  DashInv'
<1>1. /\ req[r].pc = "idle" /\ dashboards' = [dashboards EXCEPT ![d] = None]
      /\ UNCHANGED <<versions, templates, trail, seeding, requestFaults, starts>>
      /\ requestFaults' \in 0..MaxRequestFaults
      /\ templates' \in [TemplateIds -> {None, SeedWidgets} \cup WidgetLists]
  BY DEF Delete, DashInv, DashTypeOK
<1>2. CASE dashboards[d] = None
  <2>1. dashboards' = dashboards
    BY <1>1, <1>2 DEF DashInv, DashTypeOK
  <2>2. End(r)
    BY <1>2 DEF Delete, End
  <2> QED
    BY <1>1, <2>1, <2>2, EndKeeps DEF Carrying
<1>3. CASE dashboards[d] # None
  BY <1>1, <1>3, RowDeletedKeeps DEF Delete
<1> QED
  BY <1>2, <1>3

LEMMA DeleteDisturbedKeeps ==
    ASSUME DashInv, NEW r \in Requests, NEW d \in DashboardIds, DeleteDisturbed(r, d)
    PROVE  DashInv'
<1>1. /\ req[r].pc = "idle" /\ dashboards[d] # None /\ Fault
      /\ UNCHANGED <<versions, templates, trail, seeding, starts>>
      /\ templates' \in [TemplateIds -> {None, SeedWidgets} \cup WidgetLists]
  BY DEF DeleteDisturbed, DashInv, DashTypeOK
<1>2. requestFaults' \in 0..MaxRequestFaults
  BY <1>1, FaultCounted
<1>3. CASE End(r) /\ dashboards' = [dashboards EXCEPT ![d] = None]
  BY <1>1, <1>2, <1>3, RowDeletedKeeps DEF End
<1>4. CASE req' = [req EXCEPT ![r] = Ending("delete", "unsaved", d)] /\ UNCHANGED dashboards
  <2> DEFINE h == Ending("delete", "unsaved", d)
  <2>1. h \in Handler /\ Sound(versions, r, h) /\ ~Deleting(h)
    BY SMT DEF Ending, Task, Handler, Sound, Deleting, Carrying, Versioned
  <2> QED
    BY <1>1, <1>2, <1>4, <2>1, BeginKeeps
<1> QED
  BY <1>3, <1>4 DEF DeleteDisturbed

(* The UPDATE, after which the handler goes on or has raised *)
LEMMA RowUpdatedKeeps ==
    ASSUME DashInv, NEW r \in Requests, req[r].pc = "write", RowUpdated(r), NEW h \in Handler,
           req' = [req EXCEPT ![r] = h], h.pc \in {"number", "lost"}, h.op = req[r].op,
           h.dashboard = req[r].dashboard, h.name = req[r].name, h.widgets = req[r].widgets,
           h.pc = "number" => h.from = req[r].from,
           requestFaults' \in 0..MaxRequestFaults,
           UNCHANGED <<versions, templates, trail, seeding, starts>>
    PROVE  DashInv'
<1> DEFINE d == req[r].dashboard
           content == [name |-> req[r].name, widgets |-> req[r].widgets, layout |-> req[r].layout]
<1>1. /\ req \in [Requests -> Handler] /\ req[r] \in Handler /\ Sound(versions, r, req[r])
      /\ dashboards \in [DashboardIds -> {None} \cup Row]
  BY DEF DashInv, DashTypeOK
<1>2. /\ d \in DashboardIds /\ content \in Row /\ req[r].op \in Versioned
      /\ dashboards' = [dashboards EXCEPT ![d] = IF dashboards[d] = None THEN None ELSE content]
  BY <1>1 DEF RowUpdated, Sound, Row
<1>3. DashTypeOK'
  BY <1>1, <1>2 DEF DashInv, DashTypeOK
<1>4. req'[r] = h /\ (\A q \in Requests \ {r} : req'[q] = req[q])
      /\ (\A x \in DashboardIds \ {d} : dashboards'[x] = dashboards[x])
      /\ (dashboards[d] = None => dashboards'[d] = None)
      /\ (dashboards[d] # None => dashboards'[d] = content)
  BY <1>1, <1>2
<1>5. IsFiniteSet(versions') /\ NumbersWithoutGaps' /\ RollbackRestores'
  BY DEF DashInv, NumbersWithoutGaps, RollbackRestores, Numbers, VersionsOf
<1>6. Told' = Told /\ TrailIsTrue' /\ TrailIsOver'
  BY TrailStays
<1>7. Sound(versions, r, h) /\ ~Deleting(h) /\ Carrying(h)
  BY <1>1, <1>2, SMT DEF Sound, Carrying, Deleting, Versioned
<1>8. \A q \in Requests : Sound(versions', q, req'[q])
  BY <1>4, <1>7 DEF DashInv
<1>9. SeedKept'
  BY <1>4, DashboardsAssumption DEF DashInv, SeedKept
<1>10. ~Carrying(req[r])
  BY DEF Carrying
<1>11. LiveIsHeld'
  <2> SUFFICES ASSUME NEW x \in DashboardIds, dashboards'[x] # None
               PROVE  Recorded(x)' \/ Carried(x)'
    BY DEF LiveIsHeld
  <2>1. CASE x = d
    <3>1. dashboards'[x].name = req[r].name /\ dashboards'[x].widgets = req[r].widgets
      BY <1>4, <2>1
    <3> QED
      BY <1>4, <1>7, <2>1, <3>1 DEF Carried
  <2>2. CASE x # d
    BY <1>4, <1>10, <2>2, HeldStays
  <2> QED
    BY <2>1, <2>2
<1>12. ASSUME NEW x, Gone(x)
       PROVE  Gone(x)'
  <2>1. x \in DashboardIds /\ dashboards'[x] = None
    BY <1>4, <1>12 DEF Gone
  <2>2. Kept(x)'
    BY <1>10, <1>12, KeptStays DEF Gone
  <2> QED
    BY <2>1, <2>2 DEF Gone
<1>13. \A q \in Requests : Deleting(req'[q]) => Deleting(req[q]) /\ req'[q] = req[q]
  BY <1>4, <1>7
<1>14. DeletedOnce'
  BY <1>6, <1>12, <1>13 DEF DashInv, DeletedOnce
<1> QED
  BY <1>3, <1>5, <1>6, <1>8, <1>9, <1>11, <1>14 DEF DashInv

LEMMA WriteDashboardKeeps ==
    ASSUME DashInv, NEW r \in Requests, WriteDashboard(r)
    PROVE  DashInv'
<1>1. req \in [Requests -> Handler] /\ req[r] \in Handler
  BY AtRequest
<1>2. requestFaults' \in 0..MaxRequestFaults
  BY DEF WriteDashboard, DashInv, DashTypeOK
<1> DEFINE h == Forwarded(req[r])
<1>3. /\ h \in Handler /\ h.pc = "number" /\ h.op = req[r].op /\ h.dashboard = req[r].dashboard
      /\ h.name = req[r].name /\ h.widgets = req[r].widgets /\ h.from = req[r].from
  BY <1>1, ForwardedIs
<1>4. req' = [req EXCEPT ![r] = h]
  BY ForwardSets DEF WriteDashboard
<1> HIDE DEF h
<1> QED
  BY <1>2, <1>3, <1>4, RowUpdatedKeeps DEF WriteDashboard

(* A version is appended whose number continues its dashboard's and which, when it is a *)
(* rollback, holds what another one holds.                                              *)
LEMMA VersionsGrow ==
    ASSUME DashInv, NEW v \in Version, versions' = versions \cup {v},
           v.number > 0, 1..(v.number - 1) \subseteq NumbersIn(versions, v.dashboard),
           v.from # 0 => \E w \in versions : /\ w.dashboard = v.dashboard /\ w.number = v.from
                                            /\ w.name = v.name /\ w.widgets = v.widgets
    PROVE  IsFiniteSet(versions') /\ NumbersWithoutGaps' /\ RollbackRestores'
<1>1. IsFiniteSet(versions')
  BY FS_AddElement DEF DashInv
<1>2. NumbersWithoutGaps'
  <2> SUFFICES ASSUME NEW d \in DashboardIds
               PROVE  0 \notin Numbers(d)' /\ \A n \in Numbers(d)' : 1..n \subseteq Numbers(d)'
    BY DEF NumbersWithoutGaps
  <2>1. Numbers(d)' = Numbers(d) \cup (IF v.dashboard = d THEN {v.number} ELSE {})
    BY DEF Numbers, VersionsOf
  <2>2. 0 \notin Numbers(d) /\ \A n \in Numbers(d) : 1..n \subseteq Numbers(d)
    BY DEF DashInv, NumbersWithoutGaps
  <2>3. CASE v.dashboard # d
    BY <2>1, <2>2, <2>3
  <2>4. CASE v.dashboard = d
    <3>1. v.number \in Nat
      BY DEF Version
    <3>2. 1..(v.number - 1) \subseteq Numbers(d)
      BY <2>4, NumbersAre
    <3>3. 1..v.number \subseteq Numbers(d) \cup {v.number}
      BY <3>1, <3>2, SMT
    <3>4. Numbers(d)' = Numbers(d) \cup {v.number}
      BY <2>1, <2>4
    <3> QED
      BY <2>2, <3>3, <3>4
  <2> QED
    BY <2>3, <2>4
<1>3. RollbackRestores'
  BY DEF DashInv, RollbackRestores, VersionsOf
<1> QED
  BY <1>1, <1>2, <1>3

(* The INSERT of a version, after which the handler goes on or has raised *)
LEMMA AppendedKeeps ==
    ASSUME DashInv, NEW r \in Requests, req[r].pc = "insert", Appended(r), NEW h \in Handler,
           req' = [req EXCEPT ![r] = h], ~Deleting(h), Sound(versions', r, h),
           requestFaults' \in 0..MaxRequestFaults,
           UNCHANGED <<dashboards, templates, trail, seeding, starts>>
    PROVE  DashInv'
<1> DEFINE d == req[r].dashboard
           v == [by |-> r, dashboard |-> d, number |-> req[r].number, name |-> req[r].name,
                 widgets |-> req[r].widgets, from |-> req[r].from]
<1>1. req \in [Requests -> Handler] /\ req[r] \in Handler /\ Sound(versions, r, req[r])
  BY AtRequest
<1>2. /\ d \in DashboardIds /\ req[r].op \in Versioned /\ Carrying(req[r])
      /\ req[r].name \in Names /\ req[r].widgets \in Seq(Widgets)
      /\ versions' = versions \cup {v}
  BY <1>1, SMT DEF Appended, Sound, Carrying, Versioned
<1>3. /\ v.by = r /\ v.dashboard = d /\ v.number = req[r].number /\ v.name = req[r].name
      /\ v.widgets = req[r].widgets /\ v.from = req[r].from
  OBVIOUS
<1>4. v \in Version
  BY <1>1, <1>2, SMT DEF Handler, Version
<1> HIDE DEF v
<1>5. DashTypeOK'
  BY <1>1, <1>2, <1>4 DEF DashInv, DashTypeOK
<1>6. req'[r] = h /\ \A q \in Requests \ {r} : req'[q] = req[q]
  BY <1>1
<1>7. IsFiniteSet(versions') /\ NumbersWithoutGaps' /\ RollbackRestores'
  <2>1. v.number > 0 /\ 1..(v.number - 1) \subseteq NumbersIn(versions, v.dashboard)
    BY <1>1, <1>3 DEF Sound
  <2>2. v.from # 0 => \E w \in versions : /\ w.dashboard = v.dashboard /\ w.number = v.from
                                         /\ w.name = v.name /\ w.widgets = v.widgets
    BY <1>1, <1>3 DEF Sound
  <2> QED
    BY <1>2, <1>4, <2>1, <2>2, VersionsGrow
<1>8. \A q \in Requests : Sound(versions', q, req'[q])
  <2> SUFFICES ASSUME NEW q \in Requests, q # r PROVE Sound(versions', q, req'[q])
    BY <1>6
  <2>1. Sound(versions, q, req[q]) /\ versions \subseteq versions'
    BY <1>2 DEF DashInv
  <2> QED
    BY <1>6, <2>1, SoundGrows
<1>9. SeedKept'
  <2>1. d = SeedDashboard => SeedVersion \in versions
    BY <1>1, <1>2 DEF Sound
  <2> QED
    BY <1>2, <1>3, <2>1 DEF DashInv, SeedKept, In
<1>10. versions \subseteq versions' /\ v \in versions'
  BY <1>2
<1>11. Told' = Told /\ TrailIsTrue' /\ TrailIsOver'
  BY <1>10, TrailStays
<1>12. LiveIsHeld'
  <2> SUFFICES ASSUME NEW x \in DashboardIds, dashboards'[x] # None
               PROVE  Recorded(x)' \/ Carried(x)'
    BY DEF LiveIsHeld
  <2> QED
    BY <1>3, <1>10, HeldStays
<1>13. \A x : Gone(x) => Gone(x)'
  BY <1>3, <1>10, KeptStays DEF Gone
<1>14. \A q \in Requests : Deleting(req'[q]) => Deleting(req[q]) /\ req'[q] = req[q]
  BY <1>6
<1>15. DeletedOnce'
  BY <1>11, <1>13, <1>14 DEF DashInv, DeletedOnce
<1> QED
  BY <1>5, <1>7, <1>8, <1>9, <1>11, <1>12, <1>15 DEF DashInv

LEMMA InsertVersionKeeps ==
    ASSUME DashInv, NEW r \in Requests, InsertVersion(r)
    PROVE  DashInv'
<1> DEFINE h == [req[r] EXCEPT !.pc = "audit"]
<1>1. req \in [Requests -> Handler] /\ req[r] \in Handler /\ Sound(versions, r, req[r])
  BY AtRequest
<1>2. /\ req[r].pc = "insert" /\ Appended(r) /\ req' = [req EXCEPT ![r] = h]
      /\ requestFaults' \in 0..MaxRequestFaults
      /\ UNCHANGED <<dashboards, templates, trail, seeding, starts>>
  BY <1>1 DEF InsertVersion, Goto, DashInv, DashTypeOK
<1>3. h \in Handler /\ h.pc = "audit" /\ h.op = req[r].op /\ h.dashboard = req[r].dashboard
  BY <1>1, WithPc
<1> HIDE DEF h
<1>4. req[r].op \in Versioned
  BY <1>1, <1>2 DEF Sound
<1>5. \E v \in versions' : v.by = r /\ v.dashboard = req[r].dashboard
  <2> DEFINE v == [by |-> r, dashboard |-> req[r].dashboard, number |-> req[r].number,
                   name |-> req[r].name, widgets |-> req[r].widgets, from |-> req[r].from]
  <2>1. v \in versions'
    BY <1>2 DEF Appended
  <2>2. v.by = r /\ v.dashboard = req[r].dashboard
    OBVIOUS
  <2> QED
    BY <2>1, <2>2
<1>6. Sound(versions', r, h) /\ ~Deleting(h)
  BY <1>3, <1>4, <1>5, SMT DEF Sound, Carrying, Deleting, Versioned
<1> QED
  BY <1>2, <1>3, <1>6, AppendedKeeps

(* The audit event, after which the handler is over, or lost with what it lacks *)
LEMMA LoggedKeeps ==
    ASSUME DashInv, NEW r \in Requests, req[r].pc \in {"audit", "unsaved"}, Logged(r),
           EndOrLose(r), requestFaults' \in 0..MaxRequestFaults,
           UNCHANGED <<dashboards, versions, templates, seeding, starts>>
    PROVE  DashInv'
<1> DEFINE h == IF req[r].pc = "audit" THEN Over ELSE Lost(req[r])
           e == [by |-> r, op |-> req[r].op, dashboard |-> req[r].dashboard]
<1>1. req \in [Requests -> Handler] /\ req[r] \in Handler /\ Sound(versions, r, req[r])
  BY AtRequest
<1>2. req' = [req EXCEPT ![r] = h] /\ trail' = trail \cup {e}
  BY LoseSets DEF Logged, EndOrLose, End
<1>3. /\ h \in Handler /\ Sound(versions, r, h) /\ ~Deleting(h)
      /\ req[r].pc = "audit" => h.pc = "over"
      /\ req[r].pc = "unsaved" =>
            /\ h.pc = "lost" /\ h.op = req[r].op /\ h.dashboard = req[r].dashboard
            /\ h.name = req[r].name /\ h.widgets = req[r].widgets
  <2>1. CASE req[r].pc = "audit"
    BY <2>1, IdleIsSound, OverIsOver
  <2>2. CASE req[r].pc = "unsaved"
    <3>1. h = Lost(req[r])
      BY <2>2
    <3>2. /\ h \in Handler /\ h.pc = "lost" /\ h.op = req[r].op /\ h.dashboard = req[r].dashboard
          /\ h.name = req[r].name /\ h.widgets = req[r].widgets
      BY <1>1, <3>1, LostIs
    <3> HIDE DEF h
    <3>3. Sound(versions, r, h) /\ ~Deleting(h)
      BY <1>1, <2>2, <3>2 DEF Sound, Carrying, Deleting
    <3> QED
      BY <2>2, <3>2, <3>3
  <2> QED
    BY <2>1, <2>2
<1>4. /\ e.by = r /\ e.op = req[r].op /\ e.dashboard = req[r].dashboard
      /\ e.op \in Versioned \cup {"delete", "template"} /\ e.dashboard \in DashboardIds \cup {None}
  BY <1>1, SMT DEF Sound, Handler
<1>5. e \in [by : Requests, op : Versioned \cup {"delete", "template"},
             dashboard : DashboardIds \cup {None}]
  BY <1>4
<1> HIDE DEF h, e
<1>6. DashTypeOK'
  BY <1>1, <1>2, <1>3, <1>5 DEF DashInv, DashTypeOK
<1>7. req'[r] = h /\ \A q \in Requests \ {r} : req'[q] = req[q]
  BY <1>1, <1>2
<1>8. IsFiniteSet(versions') /\ NumbersWithoutGaps' /\ RollbackRestores' /\ SeedKept'
  BY DEF DashInv, NumbersWithoutGaps, RollbackRestores, SeedKept, Numbers, VersionsOf
<1>9. \A q \in Requests : Sound(versions', q, req'[q])
  BY <1>3, <1>7 DEF DashInv
<1>10. Carrying(req[r]) =>
          /\ Carrying(h) /\ h.dashboard = req[r].dashboard
          /\ h.name = req[r].name /\ h.widgets = req[r].widgets
  BY <1>3 DEF Carrying
<1>11. LiveIsHeld'
  BY <1>2, <1>3, <1>10, HeldStays DEF LiveIsHeld
<1>12. \A x : Gone(x) => Gone(x)'
  BY <1>2, <1>10, KeptStays DEF Gone
<1>13. \A f \in trail : f.by \in Requests /\ f.by # r /\ req'[f.by] = req[f.by]
  BY <1>7 DEF DashInv, DashTypeOK, TrailIsOver
<1>14. TrailIsOver'
  BY <1>2, <1>3, <1>4, <1>7, <1>13 DEF DashInv, TrailIsOver
<1>15. Told' = IF req[r].pc = "audit" THEN Told \cup {e} ELSE Told
  BY <1>2, <1>3, <1>4, <1>7, <1>13 DEF Told
<1>16. req[r].pc = "audit" /\ e.op = "delete" =>
          /\ Deleting(req[r]) /\ Gone(e.dashboard)
          /\ \A f \in Told : f.op = "delete" => f.dashboard # e.dashboard
  BY <1>4 DEF Deleting, DashInv, DeletedOnce
<1>17. TrailIsTrue'
  <2>1. req[r].pc = "audit" /\ e.op \in Versioned =>
           \E v \in versions : v.by = e.by /\ v.dashboard = e.dashboard
    BY <1>1, <1>4 DEF Sound
  <2>2. \A f \in Told : f.op \in Versioned =>
           \E v \in versions : v.by = f.by /\ v.dashboard = f.dashboard
    BY DEF DashInv, TrailIsTrue
  <2>3. \A f, g \in Told : f.op = "delete" /\ g.op = "delete" /\ f.dashboard = g.dashboard
           => f = g
    BY DEF DashInv, TrailIsTrue
  <2>4. \A f, g \in Told' : f.op = "delete" /\ g.op = "delete" /\ f.dashboard = g.dashboard
           => f = g
    BY <1>15, <1>16, <2>3
  <2>5. \A f \in Told' : f.op \in Versioned =>
           \E v \in versions : v.by = f.by /\ v.dashboard = f.dashboard
    BY <1>15, <2>1, <2>2
  <2> QED
    BY <2>4, <2>5 DEF TrailIsTrue
<1>18. \A q \in Requests : Deleting(req'[q]) =>
          q # r /\ Deleting(req[q]) /\ req'[q] = req[q]
  BY <1>3, <1>7
<1>19. DeletedOnce'
  <2>1. \A f \in Told' : f.op = "delete" => Gone(f.dashboard)'
    BY <1>12, <1>15, <1>16 DEF DashInv, DeletedOnce
  <2>2. ASSUME NEW q \in Requests, Deleting(req'[q])
        PROVE  /\ Gone(req[q].dashboard)'
               /\ \A f \in Told' : f.op = "delete" => f.dashboard # req'[q].dashboard
               /\ \A p \in Requests :
                     Deleting(req'[p]) /\ req'[p].dashboard = req'[q].dashboard => p = q
    <3>1. q # r /\ Deleting(req[q]) /\ req'[q] = req[q]
      BY <1>18, <2>2
    <3> PICK x : x = req[q].dashboard
      OBVIOUS
    <3>2. Gone(x)' /\ \A f \in Told : f.op = "delete" => f.dashboard # x
      BY <1>12, <3>1 DEF DashInv, DeletedOnce
    <3>3. req[r].pc = "audit" /\ e.op = "delete" => e.dashboard # x
      BY <1>4, <1>16, <3>1 DEF DashInv, DeletedOnce
    <3>4. \A p \in Requests :
             Deleting(req'[p]) /\ req'[p].dashboard = req'[q].dashboard => p = q
      BY <1>18, <3>1 DEF DashInv, DeletedOnce
    <3> QED
      BY <1>15, <3>1, <3>2, <3>3, <3>4
  <2> QED
    BY <1>18, <2>1, <2>2 DEF DeletedOnce
<1> QED
  BY <1>6, <1>8, <1>9, <1>11, <1>14, <1>17, <1>19 DEF DashInv

LEMMA AuditKeeps ==
    ASSUME DashInv, NEW r \in Requests, Audit(r)
    PROVE  DashInv'
<1>1. requestFaults' \in 0..MaxRequestFaults
  BY DEF Audit, DashInv, DashTypeOK
<1> QED
  BY <1>1, LoggedKeeps DEF Audit

LEMMA RaisesStoredKeeps ==
    ASSUME DashInv, NEW r \in Requests, RaisesStored(r)
    PROVE  DashInv'
<1>1. /\ req \in [Requests -> Handler] /\ req[r] \in Handler /\ Sound(versions, r, req[r])
      /\ Fault /\ UNCHANGED <<templates, seeding, starts>>
  BY AtRequest DEF RaisesStored
<1>2. requestFaults' \in 0..MaxRequestFaults
  BY <1>1, FaultCounted
<1>3. CASE req[r].pc = "write" /\ RowUpdated(r) /\ Lose(r) /\ UNCHANGED <<versions, trail>>
  <2> DEFINE h == Lost(req[r])
  <2>1. /\ h \in Handler /\ h.pc = "lost" /\ h.op = req[r].op /\ h.dashboard = req[r].dashboard
        /\ h.name = req[r].name /\ h.widgets = req[r].widgets
    BY <1>1, LostIs
  <2>2. req' = [req EXCEPT ![r] = h]
    BY <1>3, LoseSets
  <2> HIDE DEF h
  <2> QED
    BY <1>1, <1>2, <1>3, <2>1, <2>2, RowUpdatedKeeps
<1>4. CASE req[r].pc = "insert" /\ Appended(r) /\ End(r) /\ UNCHANGED <<dashboards, trail>>
  <2>1. Over \in Handler /\ Sound(versions', r, Over) /\ ~Deleting(Over)
    BY IdleIsSound
  <2> QED
    BY <1>1, <1>2, <1>4, <2>1, AppendedKeeps DEF End
<1>5. CASE /\ req[r].pc \in {"audit", "unsaved"} /\ Logged(r) /\ EndOrLose(r)
           /\ UNCHANGED <<dashboards, versions>>
  BY <1>1, <1>2, <1>5, LoggedKeeps
<1> QED
  BY <1>3, <1>4, <1>5 DEF RaisesStored

(* The seed rows, whose keys are free when they are inserted *)
LEMMA SeedRowsKeep ==
    ASSUME DashInv, NEW p \in Processes, SeedCommit(p), seeding[p].noDashboard, DashTypeOK'
    PROVE  DashInv'
<1>1. /\ dashboards' = [dashboards EXCEPT ![SeedDashboard] =
                           [name |-> SeedName, widgets |-> SeedWidgets, layout |-> SeedLayout]]
      /\ versions' = versions \cup {SeedVersion}
      /\ dashboards[SeedDashboard] = None /\ SeedVersion \notin versions
      /\ UNCHANGED <<trail, req>>
  BY DEF SeedCommit, SeedRows, SeedTaken
<1>2. /\ dashboards'[SeedDashboard] = [name |-> SeedName, widgets |-> SeedWidgets, layout |-> SeedLayout]
      /\ \A x \in DashboardIds \ {SeedDashboard} : dashboards'[x] = dashboards[x]
  BY <1>1, DashboardsAssumption DEF DashInv, DashTypeOK
<1>3. /\ SeedVersion.dashboard = SeedDashboard /\ SeedVersion.number = 1 /\ SeedVersion.from = 0
      /\ SeedVersion.name = SeedName /\ SeedVersion.widgets = SeedWidgets
  BY DEF SeedVersion
<1>4. SeedVersion \in Version
  BY DashboardsAssumption, SMT DEF SeedVersion, Version
<1>5. IsFiniteSet(versions') /\ NumbersWithoutGaps' /\ RollbackRestores'
  <2>1. SeedVersion.number > 0 /\ 1..(SeedVersion.number - 1) = {}
    BY <1>3, SMT
  <2>2. SeedVersion.from = 0
    BY <1>3
  <2> HIDE DEF SeedVersion
  <2> QED
    BY <1>1, <1>4, <2>1, <2>2, VersionsGrow
<1>6. \A q \in Requests : Sound(versions', q, req'[q])
  BY <1>1, SoundGrows DEF DashInv
<1>7. SeedKept'
  BY <1>1 DEF SeedKept
<1>8. LiveIsHeld'
  <2> SUFFICES ASSUME NEW x \in DashboardIds, dashboards'[x] # None
               PROVE  Recorded(x)' \/ Carried(x)'
    BY DEF LiveIsHeld
  <2>1. CASE x = SeedDashboard
    BY <1>1, <1>2, <1>3, <2>1 DEF Recorded, In
  <2>2. CASE x # SeedDashboard
    <3>1. dashboards'[x] = dashboards[x] /\ (Recorded(x) \/ Carried(x))
      BY <1>2, <2>2 DEF DashInv, LiveIsHeld
    <3>2. ASSUME Recorded(x) PROVE Recorded(x)'
      BY <1>1, <3>1, <3>2 DEF Recorded, In
    <3>3. ASSUME Carried(x) PROVE Carried(x)'
      BY <1>1, <3>1, <3>3 DEF Carried
    <3> QED
      BY <3>1, <3>2, <3>3
  <2> QED
    BY <2>1, <2>2
<1>9. Told' = Told /\ TrailIsTrue' /\ TrailIsOver'
  <2>1. Told' = Told
    BY <1>1 DEF Told
  <2> QED
    BY <1>1, <2>1 DEF DashInv, TrailIsTrue, TrailIsOver
<1>10. ~Kept(SeedDashboard)
  <2>1. In(versions, SeedDashboard) = {}
    BY <1>1 DEF DashInv, SeedKept
  <2>2. \A q \in Requests : Carrying(req[q]) => req[q].dashboard # SeedDashboard
    BY <1>1 DEF DashInv, Sound
  <2> QED
    BY <2>1, <2>2 DEF Kept
<1>11. \A x : Gone(x) => Gone(x)'
  <2> SUFFICES ASSUME NEW x, Gone(x) PROVE Gone(x)'
    OBVIOUS
  <2>1. x \in DashboardIds \ {SeedDashboard}
    BY <1>10 DEF Gone
  <2>2. Kept(x)'
    BY <1>1 DEF Gone, Kept, In
  <2> QED
    BY <1>2, <2>1, <2>2 DEF Gone
<1>12. DeletedOnce'
  BY <1>1, <1>9, <1>11 DEF DashInv, DeletedOnce
<1> QED
  BY <1>5, <1>6, <1>7, <1>8, <1>9, <1>12 DEF DashInv

(* A step of a start-up that inserts no dashboard *)
LEMMA FrameKeeps ==
    ASSUME DashInv, DashTypeOK', UNCHANGED <<dashboards, versions, trail, req>>
    PROVE  DashInv'
<1>1. /\ IsFiniteSet(versions') /\ NumbersWithoutGaps' /\ RollbackRestores' /\ SeedKept'
      /\ Told' = Told /\ TrailIsTrue' /\ TrailIsOver'
  BY DEF DashInv, NumbersWithoutGaps, RollbackRestores, SeedKept, TrailIsTrue, TrailIsOver, Told,
     Numbers, VersionsOf
<1>2. \A q \in Requests : Sound(versions', q, req'[q])
  BY DEF DashInv
<1>3. LiveIsHeld'
  BY DEF DashInv, LiveIsHeld, Recorded, Carried, In
<1>4. DeletedOnce'
  BY <1>1 DEF DashInv, DeletedOnce, Gone, Kept, In
<1> QED
  BY <1>1, <1>2, <1>3, <1>4 DEF DashInv

LEMMA DownIsStart ==
    ASSUME NEW pc \in {"seeded", "failed"}
    PROVE  Down \in Start /\ [Down EXCEPT !.pc = pc] \in Start
<1>1. Down \in Start
  BY DEF Down, Start
<1> QED
  BY <1>1, SMT DEF Start

(* Start-ups of which one field is set *)
LEMMA StartWithPc ==
    ASSUME NEW s \in Start, NEW pc \in {"counting", "counted"}
    PROVE  [s EXCEPT !.pc = pc] \in Start
  BY SMT DEF Start

LEMMA StartWithNoDashboard ==
    ASSUME NEW s \in Start, NEW b \in BOOLEAN
    PROVE  [s EXCEPT !.noDashboard = b] \in Start
  BY SMT DEF Start

LEMMA StartWithNoTemplate ==
    ASSUME NEW s \in Start, NEW b \in BOOLEAN
    PROVE  [s EXCEPT !.noTemplate = b] \in Start
  BY SMT DEF Start

LEMMA StartingKeeps ==
    ASSUME DashInv, NEW p \in Processes, Starting(p)
    PROVE  DashInv'
<1>1. CASE SeedCommit(p)
  <2>1. DashTypeOK'
    <3>1. [name |-> SeedName, widgets |-> SeedWidgets, layout |-> SeedLayout] \in Row
      BY DashboardsAssumption DEF Row
    <3>2. SeedVersion \in Version
      BY DashboardsAssumption, SMT DEF SeedVersion, Version
    <3>3. dashboards' \in [DashboardIds -> {None} \cup Row] /\ versions' \subseteq Version
      BY <1>1, <3>1, <3>2 DEF SeedCommit, SeedRows, DashInv, DashTypeOK
    <3>4. templates' \in [TemplateIds -> {None, SeedWidgets} \cup WidgetLists]
      BY <1>1 DEF SeedCommit, DashInv, DashTypeOK
    <3>5. seeding' \in [Processes -> Start]
      BY <1>1, DownIsStart DEF SeedCommit, DashInv, DashTypeOK
    <3> QED
      BY <1>1, <3>3, <3>4, <3>5 DEF SeedCommit, DashInv, DashTypeOK
  <2>2. CASE seeding[p].noDashboard
    BY <1>1, <2>1, <2>2, SeedRowsKeep
  <2>3. CASE ~seeding[p].noDashboard
    BY <1>1, <2>1, <2>3, FrameKeeps DEF SeedCommit
  <2> QED
    BY <2>2, <2>3
<1>2. CASE SeedCount(p) \/ SeedCountTemplates(p) \/ SeedFails(p)
  <2>1. seeding' \in [Processes -> Start]
    <3>1. seeding \in [Processes -> Start]
      BY DEF DashInv, DashTypeOK
    <3>2. CASE SeedCount(p)
      <4> PICK b \in BOOLEAN : b = \A d \in DashboardIds : dashboards[d] = None
        OBVIOUS
      <4> DEFINE f == [Down EXCEPT !.pc = "counting"]
                 g == [f EXCEPT !.noDashboard = b]
      <4>1. g \in Start
        <5>1. f \in Start
          BY DownIsStart, StartWithPc
        <5> HIDE DEF f
        <5> QED
          BY <5>1, StartWithNoDashboard
      <4>2. seeding' = [seeding EXCEPT ![p] = g]
        BY <3>2 DEF SeedCount
      <4> HIDE DEF g
      <4> QED
        BY <3>1, <4>1, <4>2
    <3>3. CASE SeedCountTemplates(p)
      <4> PICK b \in BOOLEAN : b = \A t \in TemplateIds : templates[t] = None
        OBVIOUS
      <4> DEFINE g == [[seeding[p] EXCEPT !.pc = "counted"] EXCEPT !.noTemplate = b]
      <4>1. g \in Start
        <5> DEFINE f == [seeding[p] EXCEPT !.pc = "counted"]
        <5>1. f \in Start
          BY <3>1, StartWithPc
        <5> HIDE DEF f
        <5> QED
          BY <5>1, StartWithNoTemplate DEF f
      <4>2. seeding' = [seeding EXCEPT ![p].pc = "counted", ![p].noTemplate = b]
        BY <3>3, Zenon DEF SeedCountTemplates
      <4>3. seeding' = [seeding EXCEPT ![p] = g]
        BY <3>1, <4>2
      <4> HIDE DEF g
      <4> QED
        BY <3>1, <4>1, <4>3
    <3>4. CASE SeedFails(p)
      BY <3>1, <3>4, DownIsStart DEF SeedFails
    <3> QED
      BY <1>2, <3>2, <3>3, <3>4
  <2>2. starts' \in 0..MaxStarts
    BY <1>2, DashboardsAssumption, SMT DEF SeedCount, SeedCountTemplates, SeedFails, DashInv,
       DashTypeOK
  <2>3. UNCHANGED <<dashboards, versions, templates, trail, req, requestFaults>>
    BY <1>2 DEF SeedCount, SeedCountTemplates, SeedFails
  <2>4. DashTypeOK'
    BY <2>1, <2>2, <2>3 DEF DashInv, DashTypeOK
  <2> QED
    BY <2>3, <2>4, FrameKeeps
<1> QED
  BY <1>1, <1>2 DEF Starting

LEMMA ChangeKeeps ==
    ASSUME DashInv, NEW r \in Requests, Change(r)
    PROVE  DashInv'
<1>1. ASSUME NEW t \in TemplateIds, NEW widgets \in WidgetLists,
             CreateTemplate(r, t, widgets) \/ TemplateDisturbed(r, t, widgets)
      PROVE  DashInv'
  BY <1>1, CreateTemplateKeeps, TemplateDisturbedKeeps
<1>2. ASSUME NEW d \in DashboardIds, NEW name \in Names, NEW widgets \in WidgetLists,
             NEW layout \in Layouts, Create(r, d, name, widgets, layout)
      PROVE  DashInv'
  BY <1>2, RowDisturbedKeeps, DashboardsAssumption DEF Create
<1>3. ASSUME NEW d \in DashboardIds, NEW name \in Names, NEW t \in TemplateIds \cup {None},
             NEW selected \in WidgetLists, NEW layout \in Layouts,
             CreateViaWizard(r, d, name, t, selected, layout)
      PROVE  DashInv'
  <2>1. TemplateWidgets(t) \in WidgetLists \cup {SeedWidgets, <<>>}
    BY <1>3 DEF CreateViaWizard, TemplateWidgets, DashInv, DashTypeOK
  <2>2. FinalWidgets(TemplateWidgets(t), selected) \in Seq(Widgets)
    BY <2>1, FinalWidgetsAssumption
  <2> QED
    BY <1>3, <2>2, RowDisturbedKeeps DEF CreateViaWizard
<1>4. ASSUME NEW t, NEW selected, WizardRefused(r, t, selected)
      PROVE  DashInv'
  BY <1>4, WizardRefusedKeeps
<1>5. ASSUME NEW d \in DashboardIds, Delete(r, d) \/ DeleteDisturbed(r, d)
      PROVE  DashInv'
  BY <1>5, DeleteKeeps, DeleteDisturbedKeeps
<1>6. ASSUME NEW d \in DashboardIds, NEW name \in Names \cup {None},
             NEW widgets \in WidgetLists \cup {None}, NEW layout \in Layouts \cup {None},
             Update(r, d, name, widgets, layout)
      PROVE  DashInv'
  BY <1>6, UpdateKeeps
<1>7. ASSUME NEW d \in DashboardIds, NEW number \in Numbers(d) \cup {0}, Rollback(r, d, number)
      PROVE  DashInv'
  BY <1>7, RollbackKeeps
<1> QED
  BY <1>1, <1>2, <1>3, <1>4, <1>5, <1>6, <1>7 DEF Change

LEMMA DisturbedKeeps ==
    ASSUME DashInv, NEW r \in Requests, Disturbed(r)
    PROVE  DashInv'
BY RequestFailsKeeps, ReturnsUnstoredKeeps, RaisesStoredKeeps DEF Disturbed

LEMMA DashNextKeeps ==
    ASSUME DashInv, [DashNext]_dashVars
    PROVE  DashInv'
<1>1. ASSUME NEW r \in Requests, NextCall(r)
      PROVE  DashInv'
  BY <1>1, ReadTargetKeeps, TargetNotFoundKeeps, SelectDashboardKeeps, WriteDashboardKeeps,
     SelectNumberKeeps, InsertVersionKeeps, AuditKeeps DEF NextCall
<1>2. CASE UNCHANGED dashVars
  <2>1. UNCHANGED <<dashboards, versions, templates, trail, req, seeding, requestFaults, starts>>
    BY <1>2 DEF dashVars
  <2>2. DashTypeOK'
    BY <2>1 DEF DashInv, DashTypeOK
  <2> QED
    BY <2>1, <2>2, FrameKeeps
<1> QED
  BY <1>1, <1>2, ChangeKeeps, DisturbedKeeps, StartingKeeps DEF DashNext

LEMMA DashInitHolds ==
    ASSUME DashInit
    PROVE  DashInv
<1>1. \A r \in Requests : req[r] = Idle /\ Idle \in Handler /\ Idle.pc = "idle"
  BY SMT DEF DashInit, Idle, Ending, Task, Handler
<1>2. \A r \in Requests : Sound(versions, r, req[r]) /\ ~Deleting(req[r])
  BY <1>1, SMT DEF Sound, Carrying, Deleting
<1>3. trail = {} /\ TrailIsTrue /\ TrailIsOver /\ DeletedOnce
  BY <1>2 DEF DashInit, TrailIsTrue, TrailIsOver, Told, DeletedOnce
<1>4. Down \in Start /\ [Down EXCEPT !.pc = "seeded"] \in Start
  BY DownIsStart
<1>5. req \in [Requests -> Handler] /\ requestFaults \in 0..MaxRequestFaults /\ starts \in 0..MaxStarts
  BY <1>1, DashboardsAssumption, SMT DEF DashInit
<1>6. CASE FreshDatabase
  <2>1. DashTypeOK
    BY <1>3, <1>4, <1>5, <1>6 DEF FreshDatabase, DashTypeOK
  <2>2. IsFiniteSet(versions) /\ NumbersWithoutGaps /\ RollbackRestores /\ LiveIsHeld /\ SeedKept
    BY <1>6, FS_EmptySet, DashboardsAssumption DEF FreshDatabase, NumbersWithoutGaps,
       RollbackRestores, LiveIsHeld, SeedKept, Numbers, VersionsOf, In
  <2> QED
    BY <1>2, <1>3, <2>1, <2>2 DEF DashInv
<1>7. CASE DatabaseInUse
  <2>1. PICK v \in History : dashboards = [d \in DashboardIds |->
           IF d = SeedDashboard
           THEN [name |-> v.name, widgets |-> v.widgets, layout |-> SeedLayout] ELSE None]
    BY <1>7 DEF DatabaseInUse
  <2>2. versions = History
    BY <1>7 DEF DatabaseInUse
  <2>3. \A w \in History : /\ w \in Version /\ w.dashboard = SeedDashboard /\ w.number \in Nat \ {0}
                           /\ w.name \in Names /\ w.widgets \in Seq(Widgets) /\ w.from = 0
    BY HistoryAssumption, DashboardsAssumption, SMT DEF Version
  <2>4. DashTypeOK
    <3>1. dashboards \in [DashboardIds -> {None} \cup Row]
      BY <2>1, <2>3 DEF Row
    <3>2. seeding \in [Processes -> Start]
      BY <1>4, <1>7 DEF DatabaseInUse
    <3>3. templates \in [TemplateIds -> {None, SeedWidgets} \cup WidgetLists]
      BY <1>7 DEF DatabaseInUse
    <3> QED
      BY <1>3, <1>5, <2>2, <2>3, <3>1, <3>2, <3>3 DEF DashTypeOK
  <2>5. NumbersWithoutGaps
    <3> SUFFICES ASSUME NEW d \in DashboardIds
                 PROVE  0 \notin Numbers(d) /\ \A n \in Numbers(d) : 1..n \subseteq Numbers(d)
      BY DEF NumbersWithoutGaps
    <3>1. CASE d # SeedDashboard
      BY <2>2, <2>3, <3>1 DEF Numbers, VersionsOf
    <3>2. CASE d = SeedDashboard
      <4>1. Numbers(d) = {w.number : w \in History}
        BY <2>2, <2>3, <3>2 DEF Numbers, VersionsOf
      <4>2. \A w \in History : \A n \in 1..w.number : \E u \in History : u.number = n
        BY HistoryAssumption
      <4> QED
        BY <2>3, <4>1, <4>2
    <3> QED
      BY <3>1, <3>2
  <2>6. IsFiniteSet(versions) /\ RollbackRestores /\ SeedKept
    BY <2>2, <2>3, HistoryAssumption DEF RollbackRestores, SeedKept
  <2>7. LiveIsHeld
    BY <2>1, <2>2, <2>3 DEF LiveIsHeld, Recorded, In
  <2> QED
    BY <1>2, <1>3, <2>4, <2>5, <2>6, <2>7 DEF DashInv
<1> QED
  BY <1>6, <1>7 DEF DashInit

----------------------------------------------------------------------------
(* The inductive invariant holds in every reachable state of the handlers and start-ups. *)
THEOREM DashInvHolds == DashSpec => []DashInv
<1>1. DashInit => DashInv
  BY DashInitHolds
<1>2. DashInv /\ [DashNext]_dashVars => DashInv'
  BY DashNextKeeps
<1> QED
  BY <1>1, <1>2, PTL DEF DashSpec

(* The tables and the locals of the handlers keep their types: a row is always written *)
(* with a name and a list of widgets, never with a column the body left out.           *)
THEOREM DashTypeCorrect == DashSpec => []DashTypeOK
<1>1. DashInv => DashTypeOK
  BY DEF DashInv
<1> QED
  BY <1>1, DashInvHolds, PTL

(* The numbers of a dashboard have no gap, however many handlers number at once. *)
THEOREM NumbersHaveNoGaps == DashSpec => []NumbersWithoutGaps
<1>1. DashInv => NumbersWithoutGaps
  BY DEF DashInv
<1> QED
  BY <1>1, DashInvHolds, PTL

(* The name and widgets of a dashboard are in its history or in a handler that has yet *)
(* to append them, or has lost their version to a failure.                             *)
THEOREM HistoryHasTheLiveWidgets == DashSpec => []LiveWidgetsAreVersioned
<1>1. DashInv => LiveWidgetsAreVersioned
  BY DEF DashInv, LiveIsHeld, Recorded, Carried, LiveWidgetsAreVersioned, VersionsOf, In, Carrying
<1> QED
  BY <1>1, DashInvHolds, PTL

(* A rollback appends the content of a version of the number that was asked for. *)
THEOREM RollbackRestoresContent == DashSpec => []RollbackRestores
<1>1. DashInv => RollbackRestores
  BY DEF DashInv
<1> QED
  BY <1>1, DashInvHolds, PTL

(* The trail tells of no version that is not there and of no deletion twice. *)
THEOREM TrailTellsTheTruth == DashSpec => []TrailIsTrue
<1>1. DashInv => TrailIsTrue
  BY DEF DashInv
<1> QED
  BY <1>1, DashInvHolds, PTL

(* A deleted dashboard stays deleted: an UPDATE creates no row, a new row gets an id *)
(* without versions, and the seed's primary keys are taken.                          *)
THEOREM DeletedStaysDeleted == DashSpec => NoDashboardReturns
<1>1. ASSUME DashInv, [DashNext]_dashVars
      PROVE  \A d \in DashboardIds :
                dashboards[d] = None /\ VersionsOf(d) # {} => dashboards'[d] = None
  <2> SUFFICES ASSUME NEW d \in DashboardIds, dashboards[d] = None, VersionsOf(d) # {}
               PROVE  dashboards'[d] = None
    OBVIOUS
  <2>1. dashboards \in [DashboardIds -> {None} \cup Row]
    BY <1>1 DEF DashInv, DashTypeOK
  <2>2. ASSUME NEW r \in Requests, NEW e \in DashboardIds, NEW name, NEW widgets, NEW layout,
               RowInserted(r, e, name, widgets, layout) \/ RowDisturbed(r, e, name, widgets, layout)
        PROVE  dashboards'[d] = None
    BY <2>1, <2>2 DEF RowInserted, RowDisturbed, FreshDashboard
  <2>3. ASSUME NEW r \in Requests, Change(r)
        PROVE  dashboards'[d] = None
    BY <2>1, <2>2, <2>3 DEF Change, CreateTemplate, TemplateDisturbed, Create, CreateViaWizard,
       WizardRefused, Delete, DeleteDisturbed, Update, Rollback
  <2>4. ASSUME NEW r \in Requests, NextCall(r) \/ Disturbed(r)
        PROVE  dashboards'[d] = None
    <3>1. RowUpdated(r) => dashboards'[d] = None
      BY <2>1 DEF RowUpdated
    <3> QED
      BY <2>4, <3>1 DEF NextCall, ReadTarget, TargetNotFound, SelectDashboard, WriteDashboard,
         SelectNumber, InsertVersion, Audit, Disturbed, RequestFails, ReturnsUnstored, RaisesStored
  <2>5. ASSUME NEW p \in Processes, Starting(p)
        PROVE  dashboards'[d] = None
    <3>1. d = SeedDashboard => SeedVersion \in versions
      BY <1>1 DEF DashInv, SeedKept, VersionsOf, In
    <3> QED
      BY <2>1, <2>5, <3>1 DEF Starting, SeedCount, SeedCountTemplates, SeedCommit, SeedTaken,
         SeedRows, SeedFails
  <2>6. CASE UNCHANGED dashVars
    BY <2>6 DEF dashVars
  <2> QED
    BY <1>1, <2>3, <2>4, <2>5, <2>6 DEF DashNext
<1> QED
  BY <1>1, DashInvHolds, PTL DEF DashSpec, NoDashboardReturns

(* A start-up changes no row that is there. *)
THEOREM SeedingChangesNoRow == DashSpec => SeedingOnlyAdds
<1>1. ASSUME DashTypeOK, [DashNext]_dashVars, \E p \in Processes : seeding'[p] # seeding[p]
      PROVE  /\ \A d \in DashboardIds : dashboards[d] # None => dashboards'[d] = dashboards[d]
             /\ versions \subseteq versions'
             /\ \A t \in TemplateIds : templates[t] # None => templates'[t] = templates[t]
  <2>1. PICK p \in Processes : Starting(p)
    <3>1. ASSUME NEW r \in Requests, Change(r) \/ NextCall(r) \/ Disturbed(r)
          PROVE  UNCHANGED seeding
      BY <3>1 DEF Change, CreateTemplate, TemplateDisturbed, Create, CreateViaWizard,
         WizardRefused, Delete, DeleteDisturbed, Update, Rollback, NextCall, ReadTarget,
         TargetNotFound, SelectDashboard, WriteDashboard, SelectNumber, InsertVersion, Audit,
         Disturbed, RequestFails, ReturnsUnstored, RaisesStored
    <3>2. UNCHANGED dashVars => UNCHANGED seeding
      BY DEF dashVars
    <3> QED
      BY <1>1, <3>1, <3>2 DEF DashNext
  <2>2. CASE SeedCommit(p)
    <3>1. seeding[p].noDashboard => dashboards[SeedDashboard] = None
      BY <2>2 DEF SeedCommit, SeedTaken
    <3>2. seeding[p].noTemplate => templates[SeedTemplate] = None
      BY <2>2 DEF SeedCommit, SeedTaken
    <3>3. versions \subseteq versions'
      BY <2>2 DEF SeedCommit, SeedRows
    <3>4. \A d \in DashboardIds : dashboards[d] # None => dashboards'[d] = dashboards[d]
      BY <1>1, <2>2, <3>1 DEF SeedCommit, SeedRows, DashTypeOK
    <3>5. \A t \in TemplateIds : templates[t] # None => templates'[t] = templates[t]
      BY <1>1, <2>2, <3>2 DEF SeedCommit, DashTypeOK
    <3> QED
      BY <3>3, <3>4, <3>5
  <2>3. CASE SeedCount(p) \/ SeedCountTemplates(p) \/ SeedFails(p)
    BY <2>3 DEF SeedCount, SeedCountTemplates, SeedFails
  <2> QED
    BY <2>1, <2>2, <2>3 DEF Starting
<1> QED
  BY <1>1, DashTypeCorrect, PTL DEF DashSpec, SeedingOnlyAdds
=============================================================================
