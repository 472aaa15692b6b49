----------------------------- MODULE Dashboards -----------------------------
(***************************************************************************)
(* Dashboards, their versions and their templates: the handlers of         *)
(* routes/dashboard.py on the tables of postgres_store.py.  A handler is a *)
(* chain of store calls, and nothing holds the row between two of them: an *)
(* update reads the row and writes every column of it back, the number of  *)
(* a version is read in one statement and inserted in another.  A failure  *)
(* at the connection that the threads of a process share may disturb a     *)
(* write: its call returns and nothing is stored, or it raises and the row *)
(* is stored all the same.  Start-ups seed the same tables.                *)
(***************************************************************************)
EXTENDS Integers, Sequences, FiniteSets, FiniteSetsExt, SequencesExt

CONSTANTS
    Requests,       \* requests, each of which is handled once
    Processes,      \* worker processes, which seed when they start
    DashboardIds,
    SeedDashboard,  \* the id "d-1"
    TemplateIds,
    SeedTemplate,   \* the id "dt-1"
    Names,
    Widgets,        \* widget types a body may name
    Registered,     \* those of the widget registry
    WidgetLists,    \* lists of widgets that bodies hold
    Layouts,        \* blueprints that bodies hold or defaults give
    SeedName,
    SeedWidgets,
    SeedLayout,
    History,        \* versions of the seed dashboard in a database that is in use
    None,
    MaxRequestFaults,  \* bound on exceptions in handlers and disturbed writes
    MaxStarts          \* bound on start-ups

ASSUME DashboardsAssumption ==
    /\ SeedDashboard \in DashboardIds /\ SeedTemplate \in TemplateIds
    /\ Registered \subseteq Widgets
    /\ WidgetLists \subseteq Seq(Widgets) /\ SeedWidgets \in Seq(Widgets)
    /\ SeedName \in Names /\ None \notin Names /\ None \notin Seq(Widgets)
    /\ None \notin Layouts /\ None # SeedLayout
    /\ None \notin DashboardIds /\ None \notin TemplateIds /\ None \notin Requests
    /\ None \notin [name : Names, widgets : Seq(Widgets), layout : Layouts \cup {SeedLayout}]
    /\ MaxRequestFaults \in Nat /\ MaxStarts \in Nat

VARIABLES
    dashboards,     \* table dashboards
    versions,       \* table dashboard_versions; the request stands for the row's id
    templates,      \* table dashboard_templates
    trail,          \* audit events of these handlers
    req,            \* the handler of each request: its next store call and its locals
    seeding,        \* the start-up of each process
    requestFaults,  \* exceptions and disturbed writes so far
    starts          \* start-ups so far

dashVars == <<dashboards, versions, templates, trail, req, seeding, requestFaults, starts>>

(* The layout stands for blueprint_json: layout, visibility, status and scope. *)
Row == [name : Names, widgets : Seq(Widgets), layout : Layouts \cup {SeedLayout}]

(* dashboard_versions has no column for the blueprint. *)
Version == [by : Requests \cup {None}, dashboard : DashboardIds, number : Nat,
            name : Names, widgets : Seq(Widgets), from : Nat]

SeedVersion == [by |-> None, dashboard |-> SeedDashboard, number |-> 1,
                name |-> SeedName, widgets |-> SeedWidgets, from |-> 0]

ASSUME HistoryAssumption ==
    /\ SeedVersion \in History /\ IsFiniteSet(History)
    /\ History \subseteq [by : {None}, dashboard : {SeedDashboard}, number : Nat \ {0},
                         name : Names, widgets : Seq(Widgets), from : {0}]
    /\ \A v \in History : \A n \in 1..v.number : \E w \in History : w.number = n

Versioned == {"create", "update", "rollback"}

Handler == [op : Versioned \cup {"none", "delete", "template"},
            pc : {"idle", "target", "select", "write", "number", "insert", "audit",
                  "unsaved", "over", "lost"},
            dashboard : DashboardIds \cup {None},
            name : Names \cup {None}, widgets : {None} \cup Seq(Widgets),
            layout : Layouts \cup {SeedLayout, None}, number : Nat, from : Nat]

Task(op, pc, dashboard, name, widgets, layout, from) ==
    [op |-> op, pc |-> pc, dashboard |-> dashboard, name |-> name, widgets |-> widgets,
     layout |-> layout, number |-> 0, from |-> from]

Ending(op, pc, dashboard) == Task(op, pc, dashboard, None, None, None, 0)

Idle == Ending("none", "idle", None)

Start == [pc : {"down", "counting", "counted", "seeded", "failed"}, noDashboard : BOOLEAN,
          noTemplate : BOOLEAN]

Down == [pc |-> "down", noDashboard |-> FALSE, noTemplate |-> FALSE]

DashTypeOK ==
    /\ dashboards \in [DashboardIds -> {None} \cup Row]
    /\ versions \subseteq Version
    /\ templates \in [TemplateIds -> {None, SeedWidgets} \cup WidgetLists]
    /\ trail \subseteq [by : Requests, op : Versioned \cup {"delete", "template"},
                        dashboard : DashboardIds \cup {None}]
    /\ req \in [Requests -> Handler]
    /\ seeding \in [Processes -> Start]
    /\ requestFaults \in 0..MaxRequestFaults
    /\ starts \in 0..MaxStarts

FreshDatabase ==
    /\ dashboards = [d \in DashboardIds |-> None]
    /\ versions = {}
    /\ templates = [t \in TemplateIds |-> None]
    /\ seeding = [p \in Processes |-> Down]

(* A database with a history: the seed dashboard was edited and holds a past version. *)
DatabaseInUse ==
    /\ \E v \in History : dashboards = [d \in DashboardIds |->
          IF d = SeedDashboard
          THEN [name |-> v.name, widgets |-> v.widgets, layout |-> SeedLayout] ELSE None]
    /\ versions = History
    /\ templates = [t \in TemplateIds |-> IF t = SeedTemplate THEN SeedWidgets ELSE None]
    /\ seeding = [p \in Processes |-> [Down EXCEPT !.pc = "seeded"]]

DashInit ==
    /\ FreshDatabase \/ DatabaseInUse
    /\ trail = {}
    /\ req = [r \in Requests |-> Idle]
    /\ requestFaults = 0
    /\ starts = 0

----------------------------------------------------------------------------
(* The statements *)

VersionsOf(d) == {v \in versions : v.dashboard = d}

Numbers(d) == {v.number : v \in VersionsOf(d)}

NextNumber_Any(d) == IF versions = {} THEN 1 ELSE Max({v.number : v \in versions}) + 1

NextNumber(d) == IF Numbers(d) = {} THEN 1 ELSE Max(Numbers(d)) + 1

(* A column that the body leaves out keeps the value that was read. *)
Merged_Body(row, given) ==
    [name |-> given.name, widgets |-> given.widgets, layout |-> given.layout]

Merged(row, given) ==
    [name |-> IF given.name = None THEN row.name ELSE given.name,
     widgets |-> IF given.widgets = None THEN row.widgets ELSE given.widgets,
     layout |-> IF given.layout = None THEN row.layout ELSE given.layout]

Goto(r, pc) == req' = [req EXCEPT ![r].pc = pc]

(* The handler has answered, refused or raised, and what it worked with is forgotten. *)
Over == [Idle EXCEPT !.pc = "over"]

End(r) == req' = [req EXCEPT ![r] = Over]

(* It has ended, but less is stored than its caller or the trail is told, or more: what *)
(* it was to append is kept.                                                            *)
Lose(r) == req' = [req EXCEPT ![r].pc = "lost", ![r].layout = None,
                          ![r].number = 0, ![r].from = 0]

Fault ==
    /\ requestFaults < MaxRequestFaults
    /\ requestFaults' = requestFaults + 1

(* uuid4: an id no row and no other handler has had *)
FreshDashboard(d) ==
    /\ d # SeedDashboard /\ dashboards[d] = None /\ VersionsOf(d) = {}
    /\ \A r \in Requests : req[r].dashboard # d

RowInserted_Unversioned(r, d, name, widgets, layout) ==
    /\ FreshDashboard(d)
    /\ dashboards' = [dashboards EXCEPT ![d] =
                         [name |-> name, widgets |-> widgets, layout |-> layout]]
    /\ req' = [req EXCEPT ![r] = Ending("create", "audit", d)]
    /\ UNCHANGED requestFaults

RowInserted(r, d, name, widgets, layout) ==
    /\ FreshDashboard(d)
    /\ dashboards' = [dashboards EXCEPT ![d] =
                         [name |-> name, widgets |-> widgets, layout |-> layout]]
    /\ req' = [req EXCEPT ![r] = Task("create", "number", d, name, widgets, None, 0)]
    /\ UNCHANGED requestFaults

(* create_dashboard, disturbed: returns without its row, or raises with it *)
RowDisturbed(r, d, name, widgets, layout) ==
    /\ FreshDashboard(d)
    /\ \/ /\ req' = [req EXCEPT ![r] = Task("create", "number", d, name, widgets, None, 0)]
          /\ UNCHANGED dashboards
       \/ /\ req' = [req EXCEPT ![r] = Task("create", "lost", d, name, widgets, None, 0)]
          /\ dashboards' = [dashboards EXCEPT ![d] =
                               [name |-> name, widgets |-> widgets, layout |-> layout]]
    /\ Fault

----------------------------------------------------------------------------
(* The handlers up to their first store call *)

CreateTemplate(r, t, widgets) ==
    /\ req[r].pc = "idle"
    /\ t # SeedTemplate /\ templates[t] = None
    /\ templates' = [templates EXCEPT ![t] = widgets]
    /\ req' = [req EXCEPT ![r] = Ending("template", "audit", None)]
    /\ UNCHANGED <<dashboards, versions, trail, seeding, requestFaults, starts>>

TemplateDisturbed(r, t, widgets) ==
    /\ req[r].pc = "idle"
    /\ t # SeedTemplate /\ templates[t] = None
    /\ \/ /\ req' = [req EXCEPT ![r] = Ending("template", "audit", None)]
          /\ UNCHANGED templates
       \/ /\ End(r)
          /\ templates' = [templates EXCEPT ![t] = widgets]
    /\ Fault
    /\ UNCHANGED <<dashboards, versions, trail, seeding, starts>>

Create(r, d, name, widgets, layout) ==
    /\ req[r].pc = "idle"
    /\ RowInserted(r, d, name, widgets, layout) \/ RowDisturbed(r, d, name, widgets, layout)
    /\ UNCHANGED <<versions, templates, trail, seeding, starts>>

(* Types without an entry in the registry are dropped. *)
NormalizedWidgets(selected) == SelectSeq(selected, LAMBDA w : w \in Registered)

FinalWidgets(given, selected) ==
    given \o SelectSeq(NormalizedWidgets(selected), LAMBDA w : w \notin ToSet(given))

(* SelectSeq and \o make lists of widgets of lists of widgets. *)
ASSUME FinalWidgetsAssumption ==
    \A given \in WidgetLists \cup {SeedWidgets, <<>>}, selected \in WidgetLists :
       FinalWidgets(given, selected) \in Seq(Widgets)

TemplateWidgets(t) == IF t = None THEN <<>> ELSE templates[t]

(* Templates never change, so reading one and inserting the row are one step.  The *)
(* layout is the body's or else the template's.                                    *)
CreateViaWizard(r, d, name, t, selected, layout) ==
    LET widgets == FinalWidgets(TemplateWidgets(t), selected)
    IN  /\ req[r].pc = "idle"
        /\ t # None => templates[t] # None
        /\ widgets # <<>>
        /\ \/ RowInserted(r, d, name, widgets, layout)
           \/ RowDisturbed(r, d, name, widgets, layout)
        /\ UNCHANGED <<versions, templates, trail, seeding, starts>>

(* 404 for an unknown template, 400 when no valid widget is left *)
WizardRefused(r, t, selected) ==
    /\ req[r].pc = "idle"
    /\ t # None /\ templates[t] # None => FinalWidgets(TemplateWidgets(t), selected) = <<>>
    /\ t = None => FinalWidgets(<<>>, selected) = <<>>
    /\ End(r)
    /\ UNCHANGED <<dashboards, versions, templates, trail, seeding, requestFaults, starts>>

Update(r, d, name, widgets, layout) ==
    /\ req[r].pc = "idle"
    /\ req' = [req EXCEPT ![r] = Task("update", "select", d, name, widgets, layout, 0)]
    /\ UNCHANGED <<dashboards, versions, templates, trail, seeding, requestFaults, starts>>

Rollback(r, d, number) ==
    /\ req[r].pc = "idle"
    /\ req' = [req EXCEPT ![r] = Task("rollback", "target", d, None, None, None, number)]
    /\ UNCHANGED <<dashboards, versions, templates, trail, seeding, requestFaults, starts>>

(* One DELETE; its row count tells whether there was a dashboard.  Versions stay. *)
Delete(r, d) ==
    /\ req[r].pc = "idle"
    /\ dashboards' = [dashboards EXCEPT ![d] = None]
    /\ req' = [req EXCEPT ![r] =
          IF dashboards[d] = None
          THEN Over
          ELSE Ending("delete", "audit", d)]
    /\ UNCHANGED <<versions, templates, trail, seeding, requestFaults, starts>>

DeleteDisturbed(r, d) ==
    /\ req[r].pc = "idle"
    /\ dashboards[d] # None
    /\ \/ /\ req' = [req EXCEPT ![r] = Ending("delete", "unsaved", d)]
          /\ UNCHANGED dashboards
       \/ /\ End(r)
          /\ dashboards' = [dashboards EXCEPT ![d] = None]
    /\ Fault
    /\ UNCHANGED <<versions, templates, trail, seeding, starts>>

----------------------------------------------------------------------------
(* Their further store calls *)

ReadTarget_Latest(r) ==
    /\ req[r].pc = "target"
    /\ \E v \in VersionsOf(req[r].dashboard) :
          req' = [req EXCEPT ![r].pc = "select", ![r].name = v.name,
                             ![r].widgets = v.widgets]
    /\ UNCHANGED <<dashboards, versions, templates, trail, seeding, requestFaults, starts>>

(* get_dashboard and get_dashboard_version of a rollback.  Where a number occurs twice *)
(* the query has no order and may return either row.                                   *)
ReadTarget(r) ==
    /\ req[r].pc = "target"
    /\ dashboards[req[r].dashboard] # None
    /\ \E v \in VersionsOf(req[r].dashboard) :
          /\ v.number = req[r].from
          /\ req' = [req EXCEPT ![r].pc = "select", ![r].name = v.name,
                                ![r].widgets = v.widgets]
    /\ UNCHANGED <<dashboards, versions, templates, trail, seeding, requestFaults, starts>>

TargetNotFound(r) ==
    /\ req[r].pc = "target"
    /\ \/ dashboards[req[r].dashboard] = None
       \/ req[r].from \notin Numbers(req[r].dashboard)
    /\ End(r)
    /\ UNCHANGED <<dashboards, versions, templates, trail, seeding, requestFaults, starts>>

(* get_dashboard in update_dashboard *)
SelectDashboard(r) ==
    /\ req[r].pc = "select"
    /\ LET row == dashboards[req[r].dashboard]
           merged == Merged(row, req[r])
       IN  IF row = None
           THEN End(r)
           ELSE req' = [req EXCEPT ![r].pc = "write", ![r].name = merged.name,
                                   ![r].widgets = merged.widgets,
                                   ![r].layout = merged.layout]
    /\ UNCHANGED <<dashboards, versions, templates, trail, seeding, requestFaults, starts>>

RowUpdated_Upsert(r) ==
    dashboards' = [dashboards EXCEPT ![req[r].dashboard] =
        [name |-> req[r].name, widgets |-> req[r].widgets, layout |-> req[r].layout]]

(* The UPDATE: no row, no change, and the handler goes on all the same. *)
RowUpdated(r) ==
    dashboards' = [dashboards EXCEPT ![req[r].dashboard] =
        IF @ = None THEN None
        ELSE [name |-> req[r].name, widgets |-> req[r].widgets, layout |-> req[r].layout]]

(* The blueprint goes no further. *)
Forward(r) == req' = [req EXCEPT ![r].pc = "number", ![r].layout = None]

WriteDashboard(r) ==
    /\ req[r].pc = "write"
    /\ RowUpdated(r)
    /\ Forward(r)
    /\ UNCHANGED <<versions, templates, trail, seeding, requestFaults, starts>>

(* SELECT MAX(version) *)
SelectNumber(r) ==
    /\ req[r].pc = "number"
    /\ req' = [req EXCEPT ![r].pc = "insert",
                          ![r].number = NextNumber(req[r].dashboard)]
    /\ UNCHANGED <<dashboards, versions, templates, trail, seeding, requestFaults, starts>>

Appended(r) ==
    versions' = versions \cup
        {[by |-> r, dashboard |-> req[r].dashboard, number |-> req[r].number,
          name |-> req[r].name, widgets |-> req[r].widgets, from |-> req[r].from]}

InsertVersion(r) ==
    /\ req[r].pc = "insert"
    /\ Appended(r)
    /\ Goto(r, "audit")
    /\ UNCHANGED <<dashboards, templates, trail, seeding, requestFaults, starts>>

Logged(r) == trail' = trail \cup {[by |-> r, op |-> req[r].op, dashboard |-> req[r].dashboard]}

EndOrLose(r) == IF req[r].pc = "audit" THEN End(r) ELSE Lose(r)

Audit_Early(r) ==
    /\ req[r].pc \in {"insert", "audit", "unsaved"}
    /\ Logged(r)
    /\ IF req[r].pc = "unsaved" THEN Lose(r) ELSE End(r)
    /\ UNCHANGED <<dashboards, versions, templates, seeding, requestFaults, starts>>

Audit(r) ==
    /\ req[r].pc \in {"audit", "unsaved"}
    /\ Logged(r)
    /\ EndOrLose(r)
    /\ UNCHANGED <<dashboards, versions, templates, seeding, requestFaults, starts>>

Pending(r) ==
    req[r].pc \in {"target", "select", "write", "number", "insert", "audit", "unsaved"}

(* An exception at the next store call: what was committed stays. *)
RequestFails(r) ==
    /\ Pending(r) /\ Fault
    /\ IF req[r].pc \in {"number", "insert", "unsaved"} THEN Lose(r) ELSE End(r)
    /\ UNCHANGED <<dashboards, versions, templates, trail, seeding, starts>>

(* The failed statement of another thread rolled the write back before commit() ended *)
(* the transaction: the call returns, and the handler goes on.                        *)
ReturnsUnstored(r) ==
    /\ \/ req[r].pc = "write" /\ Forward(r)
       \/ req[r].pc = "insert" /\ Goto(r, "unsaved")
       \/ req[r].pc \in {"audit", "unsaved"} /\ EndOrLose(r)
    /\ Fault
    /\ UNCHANGED <<dashboards, versions, templates, trail, seeding, starts>>

(* Another thread committed the write, or the connection was lost in its COMMIT: the *)
(* call raises, and the row is there.                                                *)
RaisesStored(r) ==
    /\ \/ /\ req[r].pc = "write" /\ RowUpdated(r) /\ Lose(r)
          /\ UNCHANGED <<versions, trail>>
       \/ /\ req[r].pc = "insert" /\ Appended(r) /\ End(r)
          /\ UNCHANGED <<dashboards, trail>>
       \/ /\ req[r].pc \in {"audit", "unsaved"} /\ Logged(r) /\ EndOrLose(r)
          /\ UNCHANGED <<dashboards, versions>>
    /\ Fault
    /\ UNCHANGED <<templates, seeding, starts>>

----------------------------------------------------------------------------
(* ensure_seed_data: what it counts decides what it inserts, in one transaction *)

(* A process starts, or has ended at any point and starts again. *)
SeedCount(p) ==
    /\ starts < MaxStarts
    /\ starts' = starts + 1
    /\ seeding' = [seeding EXCEPT ![p] =
          [Down EXCEPT !.pc = "counting",
                       !.noDashboard = \A d \in DashboardIds : dashboards[d] = None]]
    /\ UNCHANGED <<dashboards, versions, templates, trail, req, requestFaults>>

SeedCountTemplates(p) ==
    /\ seeding[p].pc = "counting"
    /\ seeding' = [seeding EXCEPT ![p].pc = "counted",
                       ![p].noTemplate = \A t \in TemplateIds : templates[t] = None]
    /\ UNCHANGED <<dashboards, versions, templates, trail, req, requestFaults, starts>>

(* A primary key that is taken: another start-up was faster, or the seed dashboard was *)
(* deleted and its version dv-1 is still there.                                        *)
SeedTaken(p) ==
    \/ seeding[p].noDashboard
       /\ (dashboards[SeedDashboard] # None \/ SeedVersion \in versions)
    \/ seeding[p].noTemplate /\ templates[SeedTemplate] # None

SeedRows ==
    /\ dashboards' = [dashboards EXCEPT ![SeedDashboard] =
                         [name |-> SeedName, widgets |-> SeedWidgets, layout |-> SeedLayout]]
    /\ versions' = versions \cup {SeedVersion}

SeedCommit_Upsert(p) ==
    /\ seeding[p].pc = "counted"
    /\ IF seeding[p].noDashboard THEN SeedRows ELSE UNCHANGED <<dashboards, versions>>
    /\ templates' = IF seeding[p].noTemplate
                    THEN [templates EXCEPT ![SeedTemplate] = SeedWidgets]
                    ELSE templates
    /\ seeding' = [seeding EXCEPT ![p] = [Down EXCEPT !.pc = "seeded"]]
    /\ UNCHANGED <<trail, req, requestFaults, starts>>

SeedCommit(p) ==
    /\ seeding[p].pc = "counted" /\ ~SeedTaken(p)
    /\ IF seeding[p].noDashboard THEN SeedRows ELSE UNCHANGED <<dashboards, versions>>
    /\ templates' = IF seeding[p].noTemplate
                    THEN [templates EXCEPT ![SeedTemplate] = SeedWidgets]
                    ELSE templates
    /\ seeding' = [seeding EXCEPT ![p] = [Down EXCEPT !.pc = "seeded"]]
    /\ UNCHANGED <<trail, req, requestFaults, starts>>

(* report_templates is not modelled.  Its seed row may be taken when another start-up *)
(* was faster.                                                                        *)
ReportSeedTaken(p) == \E q \in Processes \ {p} : seeding[q].pc = "seeded"

(* The exception leaves on_startup, so the process ends. *)
SeedFails(p) ==
    /\ seeding[p].pc = "counted" /\ (SeedTaken(p) \/ ReportSeedTaken(p))
    /\ seeding' = [seeding EXCEPT ![p] = [Down EXCEPT !.pc = "failed"]]
    /\ UNCHANGED <<dashboards, versions, templates, trail, req, requestFaults, starts>>

----------------------------------------------------------------------------
Change(r) ==
    \/ \E t \in TemplateIds, widgets \in WidgetLists :
          CreateTemplate(r, t, widgets) \/ TemplateDisturbed(r, t, widgets)
    \/ \E d \in DashboardIds, name \in Names, layout \in Layouts :
          \/ \E widgets \in WidgetLists : Create(r, d, name, widgets, layout)
          \/ \E t \in TemplateIds \cup {None}, selected \in WidgetLists :
                CreateViaWizard(r, d, name, t, selected, layout)
    \/ \E t \in TemplateIds \cup {None}, selected \in WidgetLists :
          WizardRefused(r, t, selected)
    \/ \E d \in DashboardIds : Delete(r, d) \/ DeleteDisturbed(r, d)
    \/ \E d \in DashboardIds, name \in Names \cup {None},
          widgets \in WidgetLists \cup {None}, layout \in Layouts \cup {None} :
          Update(r, d, name, widgets, layout)
    \/ \E d \in DashboardIds : \E number \in Numbers(d) \cup {0} : Rollback(r, d, number)

NextCall(r) ==
    \/ ReadTarget(r)
    \/ TargetNotFound(r)
    \/ SelectDashboard(r)
    \/ WriteDashboard(r)
    \/ SelectNumber(r)
    \/ InsertVersion(r)
    \/ Audit(r)

Disturbed(r) == RequestFails(r) \/ ReturnsUnstored(r) \/ RaisesStored(r)

(* The application answers once on_startup of a process has ended. *)
Serving == \E p \in Processes : seeding[p].pc = "seeded"

Starting(p) ==
    \/ SeedCount(p)
    \/ SeedCountTemplates(p)
    \/ SeedCommit(p)
    \/ SeedFails(p)

DashNext ==
    \/ \E r \in Requests : (Serving /\ Change(r)) \/ NextCall(r) \/ Disturbed(r)
    \/ \E p \in Processes : Starting(p)

DashSpec == DashInit /\ [][DashNext]_dashVars

----------------------------------------------------------------------------
(* Two handlers may give one number to two versions, since nothing is held between *)
(* _next_dashboard_version and the INSERT; but the numbers of a dashboard never have *)
(* a gap, so that every number up to the last can be rolled back to.                 *)
NumbersWithoutGaps ==
    \A d \in DashboardIds :
       /\ 0 \notin Numbers(d)
       /\ \A n \in Numbers(d) : 1..n \subseteq Numbers(d)

(* The name and widgets of a dashboard can be found in its history: one of its     *)
(* versions has them, or a handler is about to append it, or has ended without the *)
(* version because a store call of its own raised or was disturbed.  The layout is *)
(* in no version.                                                                  *)
LiveWidgetsAreVersioned ==
    \A d \in DashboardIds : dashboards[d] # None =>
       \/ \E v \in VersionsOf(d) :
             v.name = dashboards[d].name /\ v.widgets = dashboards[d].widgets
       \/ \E r \in Requests :
             /\ req[r].dashboard = d /\ req[r].pc \in {"number", "insert", "unsaved", "lost"}
             /\ req[r].name = dashboards[d].name /\ req[r].widgets = dashboards[d].widgets

(* A rollback appends what a version of the number that was asked for holds, whatever *)
(* the other handlers write between its four reads and its writes.                    *)
RollbackRestores ==
    \A v \in versions : v.from # 0 =>
       \E w \in VersionsOf(v.dashboard) :
          /\ w.number = v.from
          /\ w.name = v.name /\ w.widgets = v.widgets

(* What the trail says of handlers that were not left with less, or more, than that *)
Told == {e \in trail : req[e.by].pc # "lost"}

(* The trail names a creation, an update or a rollback only when its version is there, *)
(* and of two concurrent deletions of one dashboard it names one; but for handlers     *)
(* whose own write was disturbed.                                                      *)
TrailIsTrue ==
    /\ \A e \in Told : e.op \in Versioned =>
          \E v \in versions : v.by = e.by /\ v.dashboard = e.dashboard
    /\ \A e, f \in Told : e.op = "delete" /\ f.op = "delete" /\ e.dashboard = f.dashboard
          => e = f

(* A dashboard that was deleted does not come back: not by the UPDATE of a handler that *)
(* read it before, nor by the seed of a start-up.                                       *)
NoDashboardReturns ==
    [][\A d \in DashboardIds :
          dashboards[d] = None /\ VersionsOf(d) # {} => dashboards'[d] = None]_dashVars

(* A start-up changes no row that is there: it adds rows or it fails. *)
SeedingOnlyAdds ==
    [][(\E p \in Processes : seeding'[p] # seeding[p]) =>
          /\ \A d \in DashboardIds :
                dashboards[d] # None => dashboards'[d] = dashboards[d]
          /\ versions \subseteq versions'
          /\ \A t \in TemplateIds : templates[t] # None => templates'[t] = templates[t]
      ]_dashVars
=============================================================================
