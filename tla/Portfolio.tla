----------------------------- MODULE Portfolio ------------------------------
(***************************************************************************)
(* What a bundle of the dashboard shows (_build_bundle of                  *)
(* routes/analytics.py) and what it is made of: base data merged from all  *)
(* data sources, or, for a scoped request while there is none that is      *)
(* fresh, lists fetched for it alone; and the Count API, asked when the    *)
(* bundle is built.  Data sources fail and change meanwhile.               *)
(***************************************************************************)
EXTENDS Figures

CONSTANTS
    Sources,
    Catalog,            \* the applications of every source
    Contents,           \* initial [issues, scans] of the sources, as the API sends them
    Users,              \* [admin, groups]
    Filters,            \* what a request selects; an empty set or NoDate selects all
    ListLosses,         \* sets of <<list, source>> that the first fetches of a scope lose
    IssueLosses,        \* sets of applications whose lists of issues raise
    Today,
    None,
    MaxContentChanges   \* bound on changes of the sources

ASSUME PortfolioAssumption ==
    /\ \A app \in Catalog : app.source \in Sources
    /\ \A f \in Filters : f.sources \subseteq Sources
    /\ Today \in Nat \ {NoDate} /\ MaxContentChanges \in Nat

FilterParts == {"groups", "apps", "names", "technologies", "vulnerabilities", "scanTypes",
                "scanStatuses", "from", "to", "sources"}

(* Empty words are dropped from a request's lists and from a user's groups. *)
ASSUME RequestAssumption ==
    /\ \A user \in Users : Missing \notin user.groups
    /\ \A f \in Filters : /\ DOMAIN f = FilterParts
                         /\ Missing \notin f.groups \cup f.names
                         /\ f.from \in Nat /\ f.to \in Nat

(* An item says of its application what the catalog says of it, or nothing. *)
AtHome(r) ==
    \E app \in Catalog :
       /\ r.app = app.id /\ r.source = app.source
       /\ r.group \in {app.group, Missing} /\ r.appName \in {app.name, Missing}

IssueParts ==
    {"id", "app", "source", "group", "appName", "severity", "status", "words", "vulnerability",
     "fixGroup", "correlation", "opened", "closed", "updated", "days"}

(* Ids are unique, those of applications across sources. *)
ASSUME ContentsAssumption ==
    /\ IsFiniteSet(Catalog) /\ \A a, b \in Catalog : a.id = b.id => a = b
    /\ \A a \in Catalog : a.created \in Nat
    /\ \A c \in Contents :
          /\ IsFiniteSet(c.issues) /\ IsFiniteSet(c.scans)
          /\ \A r \in c.issues \cup c.scans : AtHome(r)
          /\ \A r, s \in c.issues : r.id = s.id => r = s
          /\ \A r \in c.issues :
                /\ IssueParts \subseteq DOMAIN r
                /\ {r.opened, r.closed, r.updated, r.days} \subseteq Nat
          /\ \A r \in c.scans : r.created \in Nat

VARIABLES
    content,            \* the issues and scans the sources hold
    fetch,              \* what the sources have held since a fetch of base data began
    base,               \* _BASE_DATA_CACHE's payload while it is fresh
    missed,             \* the issues it lacks; None where the sources changed meanwhile
    request,            \* a scoped request between its two fetches
    view,               \* the bundle that was built
    contentChanges

portVars == <<content, fetch, base, missed, request, view, contentChanges>>

PortInit ==
    /\ content \in Contents
    /\ fetch = None /\ base = None /\ missed = None /\ request = None /\ view = None
    /\ contentChanges = 0

----------------------------------------------------------------------------
(* What the sources answer when they hold c *)

IssuesOf(c, apps) == {MappedIssue(raw) : raw \in {r \in c.issues : r.app \in apps}}

ScansOf(c, sources) == {MappedScan(raw) : raw \in {r \in c.scans : r.source \in sources}}

IdsOf(apps) == {app.id : app \in apps}

(* /api/v4/Apps counts the issues and the scans of each application. *)
CountedApp(c, app) ==
    LET mine == {r \in c.issues : r.app = app.id}
        Severe(words) == HowMany(mine, LAMBDA r : r.severity \in words)
        InStatus(word) == HowMany(mine, LAMBDA r : r.status = word)
    IN  [id |-> app.id, source |-> app.source, group |-> app.group, name |-> app.name,
         created |-> app.created, total |-> Cardinality(mine),
         critical |-> Severe({"critical"}), high |-> Severe({"high"}),
         medium |-> Severe({"medium"}), low |-> Severe({"low"}),
         open |-> InStatus("open"), new |-> InStatus("new"),
         progress |-> InStatus("inprogress"),
         scans |-> HowMany(c.scans, LAMBDA r : r.app = app.id)]

AppsOf(c, sources) == {CountedApp(c, app) : app \in {a \in Catalog : a.source \in sources}}

GroupsOf(sources) == {[id |-> a.group, source |-> a.source] : a \in {b \in Catalog : b.source \in sources}}

----------------------------------------------------------------------------
(* aggregate_base_data *)

Combined(stats) ==
    [figure \in {"total", "critical", "high", "medium", "low", "active", "resolved",
                 "scans", "running", "failed"} |->
        SumFunction([s \in DOMAIN stats |-> stats[s][figure]])]

(* Each list is fetched on its own, at some moment of the fetch.  A source has three for  *)
(* itself (of which "issues" is the organisation's) and one for each of its applications. *)
Reads == ({"apps", "scans", "issues"} \X Sources) \cup IdsOf(Catalog)

HeldIn(c, s) == {r \in c.issues : r.source = s}

(* list_issues: an application whose list raises has no issues; where none has any, the *)
(* organisation's list is asked.                                                        *)
ListedIssues(at, s, lost) ==
    LET ids == IdsOf({a \in Catalog : a.source = s}) \ lost
        listed == UNION {{r \in at[id].issues : r.app = id} : id \in ids}
    IN  IF listed # {} THEN listed ELSE HeldIn(at[<<"issues", s>>], s)

(* It raises without a single issue. *)
WithIssues(at, sources, lost) == {s \in sources : ListedIssues(at, s, lost) # {}}

ListsMerged_Partly(at, sources, lost) ==
    LET apps == [s \in Sources |-> AppsOf(at[<<"apps", s>>], {s})]
        scans == [s \in Sources |-> ScansOf(at[<<"scans", s>>], {s})]
    IN  [issues |-> UNION {{MappedIssue(r) : r \in ListedIssues(at, s, lost)} : s \in sources},
         scans |-> UNION {scans[s] : s \in sources},
         apps |-> UNION {apps[s] : s \in Sources},
         groups |-> GroupsOf(sources),
         stats |-> Combined([s \in Sources |-> AppStatistics(apps[s], scans[s])])]

ListsMerged(at, sources, lost) ==
    LET apps == [s \in sources |-> AppsOf(at[<<"apps", s>>], {s})]
        scans == [s \in sources |-> ScansOf(at[<<"scans", s>>], {s})]
    IN  [issues |-> UNION {{MappedIssue(r) : r \in ListedIssues(at, s, lost)} : s \in sources},
         scans |-> UNION {scans[s] : s \in sources},
         apps |-> UNION {apps[s] : s \in sources},
         groups |-> GroupsOf(sources),
         stats |-> Combined([s \in sources |-> AppStatistics(apps[s], scans[s])])]

(* What the applications of these sources count and their lists do not have *)
MissedIssues(at, sources, lost) ==
    UNION {{MappedIssue(r) : r \in HeldIn(content, s) \ ListedIssues(at, s, lost)} :
              s \in sources}

Now == [read \in Reads |-> content]

Fetched(sources) == ListsMerged(Now, WithIssues(Now, sources, {}), {})

(* Base data that is fresh is not fetched; a forced fetch finds it as if it had expired, as *)
(* nothing that is modelled here reads it until the fetch has ended.                        *)
StartFetch ==
    /\ view = None /\ request = None /\ fetch = None /\ base = None
    /\ fetch' = {content}
    /\ UNCHANGED <<content, base, missed, request, view, contentChanges>>

(* A source of which one other list raises is skipped altogether; nothing marks the result. *)
(* A fetch while a request is answered changes nothing the request reads, and is left out.  *)
FetchBase(down, lost, at) ==
    LET sources == WithIssues(at, Sources \ down, lost)
    IN  /\ view = None /\ request = None /\ fetch # None
        /\ base' = ListsMerged(at, sources, lost)
        /\ missed' = IF fetch = {content} THEN MissedIssues(at, sources, lost) ELSE None
        /\ fetch' = None
        /\ UNCHANGED <<content, request, view, contentChanges>>

BaseExpires ==
    /\ view = None /\ base # None
    /\ base' = None /\ missed' = None
    /\ UNCHANGED <<content, fetch, request, view, contentChanges>>

----------------------------------------------------------------------------
(* Scope *)

Scoped(f) == f.groups \cup f.apps \cup f.names # {}

OnData(f) ==
    \/ f.technologies \cup f.vulnerabilities \cup f.scanTypes \cup f.scanStatuses # {}
    \/ f.from # NoDate \/ f.to # NoDate

Selected(f) == IF f.sources = {} THEN Sources ELSE f.sources

(* filter_by_asset_group: what has no group is for administrators only. *)
Permitted(user, items) == {x \in items : user.admin \/ x.group \in user.groups}

PermittedGroups(user, groups) == {g \in groups : user.admin \/ g.id \in user.groups}

OfSources(f, items) == {x \in items : x.source \in Selected(f)}

(* _resolve_scope_filters: a group that is not the user's is refused with 403. *)
MayAsk(user, f) == user.admin \/ f.groups \subseteq user.groups

CatalogApps_Either(f, apps) ==
    {a \in apps : /\ f.groups = {} \/ a.group \in f.groups
                  /\ \/ f.apps \cup f.names = {}
                     \/ a.id \in f.apps
                     \/ a.name \in f.names}

(* _apply_scope_filters_to_catalog *)
CatalogApps(f, apps) ==
    {a \in apps : /\ f.groups = {} \/ a.group \in f.groups
                  /\ f.apps = {} \/ a.id \in f.apps
                  /\ f.names = {} \/ a.name \in f.names}

CatalogGroups(f, groups) == {g \in groups : f.groups = {} \/ g.id \in f.groups}

(* The applications that were asked for belong to the scope whatever their name or group. *)
ScopedApps(f, apps) == IF Scoped(f) THEN f.apps \cup IdsOf(apps) ELSE f.apps

----------------------------------------------------------------------------
(* The part of _build_bundle that both paths share *)

InScopeOf(f, apps, issues) ==
    IF Scoped(f) THEN {i \in issues : i.app \in ScopedApps(f, apps)} ELSE issues

(* Of the scope's applications and groups those that still have an issue or a scan *)
Effective(f, apps, groups, scans, issues) ==
    IF ~OnData(f) THEN [apps |-> apps, groups |-> groups]
    ELSE LET shown == scans \cup issues
             left == {a \in apps : \E x \in shown : x.app = a.id}
         IN  [apps |-> left,
              groups |-> {g \in groups : \E x \in left \cup shown : x.group = g.id}]

Statistics(f, scans, issues, appStats, counted) ==
    LET bySeverity == BySeverity(issues)
        listed == HowMany(issues, LAMBDA i : ~IsActive(i))
        resolved == IF Scoped(f) THEN listed ELSE Max({listed, counted})
        total == IF OnData(f) THEN Cardinality(issues) ELSE appStats.total
    IN  [total |-> total, resolved |-> resolved, active |-> Max({0, total - resolved}),
         critical |-> IF OnData(f) THEN bySeverity.critical ELSE appStats.critical,
         high |-> IF OnData(f) THEN bySeverity.high ELSE appStats.high,
         medium |-> IF OnData(f) THEN bySeverity.medium ELSE appStats.medium,
         low |-> IF OnData(f)
                 THEN total - bySeverity.critical - bySeverity.high - bySeverity.medium
                 ELSE appStats.low,
         scans |-> IF OnData(f) THEN Cardinality(scans) ELSE appStats.scans,
         running |-> appStats.running, failed |-> appStats.failed,
         technologies |-> ByTechnology(scans, issues)]

(* The base data has statistics of its own, for the request that selects nothing. *)
Precomputed(f, lists) == ~Scoped(f) /\ f.sources = {} /\ lists.stats # None

(* lists: what the user may see of the base data or of what was fetched for the request *)
Bundle(f, lists, counted) ==
    LET apps == CatalogApps(f, lists.apps)
        groups == CatalogGroups(f, lists.groups)
        scope == ScopedApps(f, apps)
        inScope == InScopeOf(f, apps, lists.issues)
        scans == FilteredScans(lists.scans, f, scope)
        options == FilteredIssues(lists.scans, inScope, f, scope)
        issues == OfDimensions(scans, options, f)
        effective == Effective(f, apps, groups, scans, issues)
        appStats == IF Precomputed(f, lists) THEN lists.stats
                    ELSE AppStatistics(effective.apps, scans)
    IN  [scans |-> scans, options |-> options, issues |-> issues, apps |-> apps,
         summaryApps |-> effective.apps, summaryGroups |-> effective.groups,
         appStats |-> appStats,
         statistics |-> Statistics(f, scans, issues, appStats, counted)]

(* aggregate_issue_counts: the sources that answer, each for all its issues; it is asked *)
(* for what the user may not see too, and not at all for a scope or a filter.            *)
Counted(f, answering) ==
    IF Scoped(f) \/ OnData(f) THEN 0
    ELSE HowMany(content.issues, LAMBDA r : r.status = "fixed" /\ r.source \in answering)

MayAnswer(f) == IF Scoped(f) \/ OnData(f) THEN {{}} ELSE SUBSET Selected(f)

Shows(user, f, path, lists, whole, lacking) ==
    \E answering \in MayAnswer(f) :
       view' = [user |-> user, filter |-> f, path |-> path, whole |-> whole, missed |-> lacking,
                bundle |-> Bundle(f, lists, Counted(f, answering))]

----------------------------------------------------------------------------
(* The warm path *)

Visible(user, f, lists) ==
    [issues |-> Permitted(user, OfSources(f, lists.issues)),
     scans |-> Permitted(user, OfSources(f, lists.scans)),
     apps |-> Permitted(user, OfSources(f, lists.apps)),
     groups |-> PermittedGroups(user, OfSources(f, lists.groups)),
     stats |-> lists.stats]

BuildWarm(user, f) ==
    /\ view = None /\ base # None /\ request = None /\ fetch = None /\ MayAsk(user, f)
    /\ Shows(user, f, "warm", Visible(user, f, base), base = Fetched(Sources), missed)
    /\ UNCHANGED <<content, fetch, base, missed, request, contentChanges>>

----------------------------------------------------------------------------
(* The cold path.  Each list of each source may be lost, with a line in the log. *)

Kept(lost, list, sources) == {s \in sources : <<list, s>> \notin lost}

ColdCatalog(user, f, lost) ==
    /\ view = None /\ base = None /\ request = None /\ fetch = None
    /\ Scoped(f) /\ MayAsk(user, f)
    /\ request' = [user |-> user, filter |-> f, whole |-> lost = {}, at |-> contentChanges,
                   apps |-> Permitted(user, AppsOf(content, Kept(lost, "apps", Selected(f)))),
                   groups |-> PermittedGroups(user, GroupsOf(Kept(lost, "groups", Selected(f)))),
                   scans |-> Permitted(user, ScansOf(content, Kept(lost, "scans", Selected(f))))]
    /\ UNCHANGED <<content, fetch, base, missed, view, contentChanges>>

AskedFor_Catalog(f, apps) == IdsOf(CatalogApps(f, apps))

(* The issues of every application of the scope are asked of every source. *)
AskedFor(f, apps) == ScopedApps(f, CatalogApps(f, apps))

(* An application's issues are [] where its list raises, and where the source does not *)
(* know the application.                                                               *)
ColdIssues(lostApps) ==
    /\ request # None
    /\ LET f == request.filter
           apps == {a \in AppsOf(content, Selected(f)) :
                       a.id \in AskedFor(f, request.apps) \ lostApps}
           steady == request.at = contentChanges
       IN  Shows(request.user, f, "cold",
                 [issues |-> Permitted(request.user, IssuesOf(content, IdsOf(apps))),
                  scans |-> request.scans, apps |-> request.apps, groups |-> request.groups,
                  stats |-> None],
                 request.whole /\ lostApps = {} /\ steady,
                 IF steady THEN IssuesOf(content, lostApps) ELSE None)
    /\ request' = None
    /\ UNCHANGED <<content, fetch, base, missed, contentChanges>>

----------------------------------------------------------------------------
(* The sources change *)

Changes(issues, scans) ==
    /\ view = None /\ contentChanges < MaxContentChanges
    /\ content' = [issues |-> issues, scans |-> scans]
    /\ fetch' = IF fetch = None THEN None ELSE fetch \cup {content'}
    /\ contentChanges' = contentChanges + 1
    /\ UNCHANGED <<base, missed, request, view>>

IssueFixed(raw) ==
    /\ raw.status \notin Resolved
    /\ Changes((content.issues \ {raw})
                  \cup {[raw EXCEPT !.status = "fixed", !.updated = Today]}, content.scans)

IssueRemoved(raw) == Changes(content.issues \ {raw}, content.scans)

ScanRemoved(raw) == Changes(content.issues, content.scans \ {raw})

----------------------------------------------------------------------------
SourceChanges ==
    \/ \E raw \in content.issues : IssueFixed(raw) \/ IssueRemoved(raw)
    \/ \E raw \in content.scans : ScanRemoved(raw)

Building ==
    \E user \in Users, f \in Filters :
       \/ BuildWarm(user, f)
       \/ \E lost \in ListLosses : ColdCatalog(user, f, lost)

PortNext ==
    \/ StartFetch
    \/ fetch # None /\ \E down \in SUBSET Sources, lost \in IssueLosses, at \in [Reads -> fetch] :
          FetchBase(down, lost, at)
    \/ BaseExpires
    \/ Building
    \/ \E lostApps \in IssueLosses : ColdIssues(lostApps)
    \/ SourceChanges

PortSpec == PortInit /\ [][PortNext]_portVars

----------------------------------------------------------------------------
(* The charts that are counted by the sources alone.  A call that fails counts 0. *)

Answers(sources, lost, call) == {s \in sources : <<s, call>> \notin lost}

HeldBy(sources) == {r \in content.issues : r.source \in sources}

(* aggregate_risk_heatmap: an issue counts whose technology is said by its whole name. *)
RiskHeatmap(sources, lost) ==
    [l \in Levels |-> [t \in Technologies |->
        HowMany(HeldBy(Answers(sources, lost, <<"cell", l, t>>)),
                LAMBDA r : r.severity = l /\ r.words = {t})]]

StatusWord == [Open |-> "open", Fixed |-> "fixed", InProgress |-> "inprogress", Noise |-> "noise"]

(* aggregate_status_distribution *)
CountedStatuses(sources, lost) ==
    [s \in DOMAIN StatusWord |->
        HowMany(HeldBy(Answers(sources, lost, <<"status", s>>)),
                LAMBDA r : r.status = StatusWord[s])]

(* aggregate_top_apps: every source is asked for the applications of all *)
TopApps(sources, lost) ==
    [id \in IdsOf({a \in Catalog : a.source \in Answers(sources, lost, <<"list", "apps">>)}) |->
        HowMany(HeldBy(Answers(sources, lost, <<"app", id>>)), LAMBDA r : r.app = id)]

----------------------------------------------------------------------------
Built == view # None

(* Issues a request's scope may hold, in any of the states the sources were in *)
Possible(apps) == {r \in UNION {c.issues : c \in Contents} : r.app \in apps}

(* Names and groups are those of the application where the API sends them at all. *)
Attributed(user, f, apps) ==
    \A r \in Possible(apps) : /\ user.admin \/ r.group # Missing
                              /\ f.names = {} \/ r.appName # Missing

(* What is counted and what is listed are of the same moment and the same applications: the *)
(* sources did not change between two lists, a scope's figures are counted from its own     *)
(* applications, and no issue is listed of one that was asked for but is not in the selected *)
(* groups.  Lists may have been lost, base data may be old.                                 *)
Coherent ==
    LET f == view.filter
    IN  /\ ~OnData(f) /\ view.missed # None
        /\ IF Scoped(f)
           THEN /\ f.apps \subseteq IdsOf(view.bundle.apps)
                /\ Attributed(view.user, f, ScopedApps(f, view.bundle.apps))
           ELSE view.user.admin

(* Issues the Count API may count as fixed that the view does not list as resolved: fixed    *)
(* since the lists were fetched, in a list that was lost, or in a source that was skipped    *)
FixedElsewhere(f, b) ==
    {r \in content.issues :
       /\ r.status = "fixed" /\ r.source \in Selected(f)
       /\ ~ \E i \in b.issues : i.id = r.id /\ ~IsActive(i)}

OfApps(issues, ids) == {i \in issues : i.app \in ids}

ActiveOf(issues) == {i \in issues : IsActive(i)}

ResolvedOf(issues) == {i \in issues : ~IsActive(i)}

OpenWords == {"open", "new", "inprogress"}

OpenOf(issues) == {i \in issues : i.status \in OpenWords}

(* What the statistics say of the issues of the view, and of some that it does not list *)
StatisticsSay(b, unlisted, moved) ==
    LET active == Cardinality(ActiveOf(b.issues)) + Cardinality(unlisted)
        resolved == Cardinality(ResolvedOf(b.issues))
    IN  /\ b.statistics.total = Cardinality(b.issues) + Cardinality(unlisted)
        /\ b.appStats.active = Cardinality(OpenOf(b.issues)) + Cardinality(OpenOf(unlisted))
        /\ b.statistics.resolved \in resolved .. (resolved + moved)
        /\ b.statistics.active \in (active - moved) .. active

(* The statistics, put together from the counts of /api/v4/Apps, the loaded issues and the   *)
(* Count API (calculate_statistics_from_apps, aggregate_issue_counts, _build_bundle), say    *)
(* what the issues of the view say, and of issues it does not list only this: those of an    *)
(* application whose list raised are counted, all of them as active; and no more issues are  *)
(* moved from active to resolved than have been fixed elsewhere.                             *)
ActiveIsCounted ==
    Built /\ Coherent =>
       LET b == view.bundle
           moved == IF Scoped(view.filter) THEN 0
                    ELSE Cardinality(FixedElsewhere(view.filter, b))
       IN  StatisticsSay(b, OfApps(view.missed, IdsOf(b.apps)), moved)

(* A scoped request answered without base data shows what it shows with it, for every        *)
(* filter and user: which path _build_bundle takes depends only on the age of the cache.     *)
(* Only a source without any issue is missing from base data and not from the request.       *)
WarmIsCold ==
    Built /\ view.path = "cold" /\ view.whole
          /\ WithIssues(Now, Selected(view.filter), {}) = Selected(view.filter) =>
       view.bundle =
          Bundle(view.filter, Visible(view.user, view.filter, Fetched(Sources)), 0)

Without(f, part) == [f EXCEPT ![part] = IF part \in {"from", "to"} THEN NoDate ELSE {}]

(* Each filter narrows a view: a request without it shows all that was shown, except that    *)
(* an item without a group passes a filter on groups where its application is asked for by   *)
(* its id, whatever the group of the application, and that the technology of an issue that   *)
(* does not state it depends on the filtered scans.                                          *)
FiltersNarrow ==
    Built /\ view.path = "warm" =>
       \A part \in DOMAIN view.filter :
          LET f == view.filter
              wider == Bundle(Without(f, part), Visible(view.user, Without(f, part), base), 0)
              Ungrouped(x) == /\ part = "apps" /\ f.groups # {} /\ x.group = Missing
                              /\ \A app \in Catalog : app.id = x.app => app.group \notin f.groups
          IN  /\ \A s \in view.bundle.scans : s \in wider.scans \/ Ungrouped(s)
              /\ \A i \in view.bundle.issues :
                    \/ i \in wider.issues
                    \/ Ungrouped(i)
                    \/ f.technologies # {} /\ NormalizedTechnology(i.words) = "UNKNOWN"

----------------------------------------------------------------------------
(* FiguresAgree, in parts *)

SumOf(rows) == SumFunction([k \in DOMAIN rows |-> SumFunction(rows[k])])

CountsAgree(f, b) ==
    LET options == FilterOptions(b.scans, b.options)
        heat == Heatmap(b.scans, b.issues)
        stats == b.statistics
    IN  /\ SumFunction(options.technologies) + options.unclassified = Cardinality(b.options)
        /\ f.technologies \cup f.vulnerabilities = {} =>
              b.issues = b.options /\ stats.technologies = options.technologies
        /\ \A t \in Technologies :
              SumFunction([l \in Levels |-> heat[l][t]]) <= stats.technologies[t]
        /\ ~(\E i \in b.issues : i.severity = "unknown") =>
              SumOf(heat) = SumFunction(stats.technologies)
        /\ StatusDistribution(b.issues).Fixed = HowMany(b.issues, LAMBDA i : ~IsActive(i))
        /\ Kpi(b.issues).closed <= stats.resolved
        /\ OnData(f) => stats.critical + stats.high + stats.medium + stats.low = stats.total
        /\ SumFunction(CountsBy(b.scans, LAMBDA s : s.type)) = Cardinality(b.scans)

(* An issue belongs to one fix group, and a group to one severity. *)
GroupsAgree(b) ==
    LET p == Prioritization(b.issues)
    IN  /\ p.findings = p.raw
        /\ SumFunction(p.dominated) = p.groups
        /\ \A l \in Severities : p.dominated[l] <= p.findings[l]
        /\ p.criticalHotspots = Kpi(b.issues).critical
        /\ p.correlatedRisk <= Kpi(b.issues).critical + Kpi(b.issues).high

(* However the days are grouped, each dated item is in one row. *)
SeriesAgree(b) ==
    LET opened == HowMany(b.issues, LAMBDA i : i.opened # NoDate)
        made == HowMany(b.scans, LAMBDA s : s.created # NoDate)
        series == FindingsSeries(b.issues, "week", Today)
        rising == Cumulative(series)
    IN  /\ \A period \in {"week", "month", "year"} :
              SumOf(FindingsSeries(b.issues, period, Today)) = opened
        /\ rising[Max(DOMAIN rising)] = opened
        /\ \A period \in {"day", "week", "month"}, mode \in {"derived", "native", "hybrid"} :
              SumOf(ScanSeries(b.scans, b.issues, period, mode, Today)) = made
        /\ LET mttr == Mttr(b.issues)
           IN  \A m \in DOMAIN mttr :
                  /\ mttr[m].count = AverageResolve(b.issues)[m].count
                  /\ mttr[m].days <= AverageResolve(b.issues)[m].days

(* A stricter rule finds no fewer offenders, and the rules that say the same find the same. *)
WorkbenchAgrees(b) ==
    LET By(rule, threshold) == Compliance(b.scans, b.issues, b.apps, rule, threshold, Today)
        strict == By("any_open", "high")
        usual == By("critical_high", "high")
        license == License("unknown", b.scans)
        onboarded == Onboarded(b.scans, b.issues, b.apps, Today)
    IN  /\ strict = By("custom", "low") /\ usual = By("custom", "high")
        /\ \A m \in DOMAIN strict :
              /\ strict[m].nonCompliant >= usual[m].nonCompliant
              /\ {i.app : i \in b.issues} \subseteq IdsOf(b.apps) =>
                    strict[m].compliant + strict[m].nonCompliant = strict[m].total
        /\ SumFunction(onboarded) <= Cardinality(b.apps)
        /\ \A t \in Technologies :
              /\ license[t].row.peak <= license[t].row.scans
              /\ license[t].row.apps <= license[t].row.scans
              /\ license[t].units <= license[t].row.scans

(* What the sources count themselves is in the lists, which also know the technology of     *)
(* issues that do not state it and words the Count API is not asked for.                     *)
ChartsAgree(f, b) ==
    LET sources == Selected(f)
        heat == Heatmap(b.scans, b.issues)
        statuses == StatusDistribution(b.issues)
    IN  \A lost \in {{}, {<<s, <<"status", "Open">> >> : s \in sources}} :
          /\ \A l \in Levels, t \in Technologies : RiskHeatmap(sources, lost)[l][t] <= heat[l][t]
          /\ \A s \in DOMAIN statuses : CountedStatuses(sources, lost)[s] <= statuses[s]
          /\ \A a \in b.apps : TopApps(sources, lost)[a.id] = a.total

(* The figures of one view, which different functions compute from the same lists, do not    *)
(* contradict each other.                                                                    *)
FiguresAgree ==
    Built =>
       LET f == view.filter
           b == view.bundle
       IN  /\ CountsAgree(f, b)
           /\ GroupsAgree(b)
           /\ SeriesAgree(b)
           /\ WorkbenchAgrees(b)
           /\ view.whole /\ view.user.admin /\ ~Scoped(f) /\ ~OnData(f) => ChartsAgree(f, b)
=============================================================================
