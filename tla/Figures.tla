------------------------------ MODULE Figures -------------------------------
(***************************************************************************)
(* What asoc_read_service.py computes from lists of issues, scans and      *)
(* applications: how it reads the words the API uses, how it filters, and  *)
(* the figures of a view.  A list is a set of records with an identity;    *)
(* a free text is the set of the words the code looks for in it; a date is *)
(* the number of its day, 0 where there is none, and periods have a fixed  *)
(* length.  Rounding, labels and the order of rows are left out.           *)
(***************************************************************************)
EXTENDS Integers, FiniteSets, FiniteSetsExt, Functions

NoDate == 0

Missing == ""       \* an attribute the API did not send

Technologies == {"DAST", "SAST", "SCA", "IAST"}

Levels == {"critical", "high", "medium", "low"}

Severities == Levels \cup {"unknown"}

SeverityRank == [critical |-> 4, high |-> 3, medium |-> 2, low |-> 1, unknown |-> 0]

HowMany(S, P(_)) == Cardinality({x \in S : P(x)})

----------------------------------------------------------------------------
(* Words of the API *)

SeverityWords ==
    [critical |-> {"critical", "4", "sev4", "sev-4", "veryhigh"},
     high     |-> {"high", "3", "sev3", "sev-3"},
     medium   |-> {"medium", "moderate", "2", "sev2", "sev-2"},
     low      |-> {"low", "1", "sev1", "sev-1", "info", "informational", "0"}]

NormalizedSeverity(word) ==
    LET levels == {l \in Levels : word \in SeverityWords[l]}
    IN  IF levels = {} THEN "unknown" ELSE CHOOSE l \in levels : TRUE

(* The first that occurs decides: a name that says scan says SCA. *)
TechnologyWords ==
    <<[is |-> "DAST", words |-> {"DAST", "DYNAMIC"}],
      [is |-> "SAST", words |-> {"SAST", "STATIC"}],
      [is |-> "SCA",  words |-> {"SCA"}],
      [is |-> "IAST", words |-> {"IAST"}]>>

NormalizedTechnology(words) ==
    LET hits == {n \in DOMAIN TechnologyWords : TechnologyWords[n].words \cap words # {}}
    IN  IF hits = {} THEN "UNKNOWN" ELSE TechnologyWords[Min(hits)].is

(* In a name only the technologies themselves count. *)
ScanType(typeWords, nameWords) ==
    LET byType == NormalizedTechnology(typeWords)
        byName == NormalizedTechnology(nameWords \cap Technologies)
    IN  IF byType # "UNKNOWN" THEN byType
        ELSE IF byName # "UNKNOWN" THEN byName
        ELSE "OTHER"

ScanStatusWords ==
    [completed |-> {"completed", "complete", "finished", "done", "ready",
                    "finishedwithwarning", "readywithissues"},
     failed    |-> {"failed", "error", "aborted", "canceled", "cancelled"},
     running   |-> {"running", "inprogress", "in progress"},
     pending   |-> {"pending", "queued", "scheduled"}]

ScanStatus(word) ==
    LET known == {s \in DOMAIN ScanStatusWords : word \in ScanStatusWords[s]}
    IN  IF known # {} THEN CHOOSE s \in known : TRUE
        ELSE IF word = Missing THEN "unknown" ELSE word

Resolved == {"closed", "fixed", "resolved"}

IsActive(issue) == issue.status \notin Resolved

(* _map_issue_items: an issue that is resolved without a date was so at its last update. *)
MappedIssue(raw) ==
    [id |-> raw.id, source |-> raw.source, app |-> raw.app, appName |-> raw.appName,
     group |-> raw.group, severity |-> NormalizedSeverity(raw.severity),
     status |-> raw.status, words |-> raw.words, vulnerability |-> raw.vulnerability,
     fixGroup |-> raw.fixGroup, correlation |-> raw.correlation, opened |-> raw.opened,
     closed |-> IF raw.closed = NoDate /\ raw.status \in Resolved THEN raw.updated
                ELSE raw.closed,
     days |-> raw.days]

MappedScan(raw) ==
    [id |-> raw.id, source |-> raw.source, app |-> raw.app, appName |-> raw.appName,
     group |-> raw.group, type |-> ScanType(raw.typeWords, raw.nameWords),
     status |-> ScanStatus(raw.status), severity |-> NormalizedSeverity(raw.severity),
     created |-> raw.created]

----------------------------------------------------------------------------
(* The technology of an issue *)

TypedScans(scans, app) == {s \in scans : s.app = app /\ s.type \in Technologies}

Priority == [DAST |-> 4, SAST |-> 3, SCA |-> 2, IAST |-> 1]

(* The technology most scans of the application have; of several the one of the higher *)
(* priority.                                                                           *)
PrimaryTechnology(scans, app) ==
    LET Scanned(t) == HowMany(TypedScans(scans, app), LAMBDA s : s.type = t)
    IN  CHOOSE t \in Technologies : \A u \in Technologies \ {t} :
           \/ Scanned(t) > Scanned(u)
           \/ Scanned(t) = Scanned(u) /\ Priority[t] > Priority[u]

ResolvedTechnology(issue, scans) ==
    LET explicit == NormalizedTechnology(issue.words)
    IN  IF explicit # "UNKNOWN" THEN explicit
        ELSE IF issue.app = Missing \/ TypedScans(scans, issue.app) = {} THEN "UNKNOWN"
        ELSE PrimaryTechnology(scans, issue.app)

----------------------------------------------------------------------------
(* Filters.  The empty set selects everything; a part of a name is the set of the names *)
(* that contain it.                                                                     *)

(* An item without a group passes only where applications are selected. *)
InGroups(item, groups, apps) ==
    \/ groups = {}
    \/ item.group \in groups
    \/ item.group = Missing /\ apps # {}

InScope(item, groups, apps, names) ==
    /\ InGroups(item, groups, apps)
    /\ apps = {} \/ item.app \in apps
    /\ names = {} \/ item.appName \in names

InPeriod(day, from, to) ==
    \/ from = NoDate /\ to = NoDate
    \/ day # NoDate /\ (from = NoDate \/ day >= from) /\ (to = NoDate \/ day <= to)

(* apply_filters: with a filter on scans, issues are those of applications that still have *)
(* a scan, whenever it was made.                                                           *)
ScopedScans(scans, f, apps) ==
    {s \in scans : /\ InScope(s, f.groups, apps, f.names)
                   /\ f.scanTypes = {} \/ s.type \in f.scanTypes
                   /\ f.scanStatuses = {} \/ s.status \in f.scanStatuses}

FilteredScans(scans, f, apps) ==
    {s \in ScopedScans(scans, f, apps) : InPeriod(s.created, f.from, f.to)}

FilteredIssues(scans, issues, f, apps) ==
    LET scanned == {s.app : s \in ScopedScans(scans, f, apps)} \ {Missing}
    IN  {i \in issues : /\ InScope(i, f.groups, apps, f.names)
                        /\ f.scanTypes \cup f.scanStatuses # {} => i.app \in scanned
                        /\ InPeriod(i.opened, f.from, f.to)}

(* filter_issues_by_dimensions *)
OfDimensions(scans, issues, f) ==
    {i \in issues :
       /\ f.technologies = {} \/ ResolvedTechnology(i, scans) \in f.technologies
       /\ f.vulnerabilities = {} \/ i.vulnerability \in f.vulnerabilities}

----------------------------------------------------------------------------
(* Counts *)

BySeverity(items) == [l \in Severities |-> HowMany(items, LAMBDA i : i.severity = l)]

ByTechnology(scans, issues) ==
    [t \in Technologies |-> HowMany(issues, LAMBDA i : ResolvedTechnology(i, scans) = t)]

FilterOptions_Explicit(scans, issues) ==
    [technologies |-> ByTechnology(scans, issues),
     unclassified |-> HowMany(issues, LAMBDA i : NormalizedTechnology(i.words) = "UNKNOWN"),
     vulnerabilities |-> [v \in {i.vulnerability : i \in issues} \ {Missing} |->
                             HowMany(issues, LAMBDA i : i.vulnerability = v)]]

(* build_issue_filter_options *)
FilterOptions(scans, issues) ==
    [technologies |-> ByTechnology(scans, issues),
     unclassified |-> HowMany(issues, LAMBDA i : ResolvedTechnology(i, scans) = "UNKNOWN"),
     vulnerabilities |-> [v \in {i.vulnerability : i \in issues} \ {Missing} |->
                             HowMany(issues, LAMBDA i : i.vulnerability = v)]]

(* _counts_by and _scans_grouped_by_application *)
CountsBy(items, Key(_)) ==
    [k \in {Key(x) : x \in items} |-> HowMany(items, LAMBDA x : Key(x) = k)]

(* calculate_statistics_from_apps *)
AppStatistics(apps, scans) ==
    LET Sum(Attribute(_)) == SumFunction([a \in apps |-> Attribute(a)])
        total == Sum(LAMBDA a : a.total)
        active == Sum(LAMBDA a : a.open + a.new + a.progress)
        executed == Sum(LAMBDA a : a.scans)
    IN  [total |-> total, critical |-> Sum(LAMBDA a : a.critical),
         high |-> Sum(LAMBDA a : a.high), medium |-> Sum(LAMBDA a : a.medium),
         low |-> Sum(LAMBDA a : a.low), active |-> active,
         resolved |-> Max({0, total - active}),
         scans |-> IF executed > 0 THEN executed ELSE Cardinality(scans),
         running |-> HowMany(scans, LAMBDA s : s.status \in
                                {"running", "inqueue", "pending", "starting"}),
         failed |-> HowMany(scans, LAMBDA s : s.status \in {"failed", "error"})]

(* The charts of a bundle: without unknown severities and technologies *)
Heatmap(scans, issues) ==
    [l \in Levels |-> ByTechnology(scans, {i \in issues : i.severity = l})]

ChartStatuses ==
    [Open |-> {"open"}, Fixed |-> Resolved, InProgress |-> {"inprogress", "in_progress"},
     Noise |-> {"noise"}]

StatusDistribution(issues) ==
    [s \in DOMAIN ChartStatuses |-> HowMany(issues, LAMBDA i : i.status \in ChartStatuses[s])]

----------------------------------------------------------------------------
(* calculate_prioritization *)

Dominant_Last(counts) ==
    LET present == {l \in Levels : counts[l] > 0}
    IN  IF present = {} THEN "low"
        ELSE CHOOSE l \in present : \A m \in present : SeverityRank[l] >= SeverityRank[m]

Dominant(counts) ==
    LET present == {l \in Levels : counts[l] > 0}
    IN  IF present = {} THEN "unknown"
        ELSE CHOOSE l \in present : \A m \in present : SeverityRank[l] >= SeverityRank[m]

Score(counts) == 5 * counts.critical + 3 * counts.high + 2 * counts.medium + counts.low

Buckets(issues, Key(_)) ==
    [k \in {Key(i) : i \in issues} |-> BySeverity({i \in issues : Key(i) = k})]

Prioritization(issues) ==
    LET groups == Buckets(issues, LAMBDA i : i.fixGroup)
        hotspots == Buckets(issues, LAMBDA i : i.app)
        keys == Buckets(issues, LAMBDA i : i.correlation)
        correlated == {k \in DOMAIN keys : SumFunction(keys[k]) >= 2}
    IN  [raw |-> BySeverity(issues),
         groups |-> Cardinality(DOMAIN groups),
         dominated |-> [l \in Severities |->
            HowMany(DOMAIN groups, LAMBDA g : Dominant(groups[g]) = l)],
         findings |-> [l \in Severities |-> SumFunction([g \in DOMAIN groups |-> groups[g][l]])],
         scores |-> [g \in DOMAIN groups |-> Score(groups[g])],
         criticalHotspots |-> SumFunction([a \in DOMAIN hotspots |-> hotspots[a].critical]),
         correlatedRisk |-> SumFunction([k \in correlated |-> keys[k].critical + keys[k].high])]

----------------------------------------------------------------------------
(* Series.  Without any dated item a series has one empty row, for today. *)

PeriodLength == [day |-> 1, week |-> 7, month |-> 30, year |-> 360]

Bucket(day, period) == day \div PeriodLength[period]

Empty == [l \in Severities |-> 0]

Rows(days, period, today) ==
    LET dated == days \ {NoDate}
    IN  {Bucket(d, period) : d \in IF dated = {} THEN {today} ELSE dated}

Dated(items, Day(_), bucket, period) ==
    {x \in items : Day(x) # NoDate /\ Bucket(Day(x), period) = bucket}

FindingsSeries(issues, period, today) ==
    [b \in Rows({i.opened : i \in issues}, period, today) |->
        BySeverity(Dated(issues, LAMBDA i : i.opened, b, period))]

(* The highest severity of the active issues of a scan's application *)
DerivedSeverity(scan, issues) ==
    IF scan.app = Missing THEN "unknown"
    ELSE Dominant(BySeverity({i \in issues : i.app = scan.app /\ IsActive(i)}))

SeverityOfScan(scan, issues, mode) ==
    IF mode = "derived" \/ (mode = "hybrid" /\ scan.severity = "unknown")
    THEN DerivedSeverity(scan, issues)
    ELSE scan.severity

ScanSeries(scans, issues, period, mode, today) ==
    [b \in Rows({s.created : s \in scans}, period, today) |->
        [l \in Severities |->
            HowMany(Dated(scans, LAMBDA s : s.created, b, period),
                    LAMBDA s : SeverityOfScan(s, issues, mode) = l)]]

(* calculate_mttr and the workbench's average: the days and the number of what was closed *)
DaysToResolve(issue) ==
    IF issue.days > 0 THEN issue.days
    ELSE IF issue.opened # NoDate /\ issue.closed > issue.opened
         THEN issue.closed - issue.opened
         ELSE 0

ResolvedByMonth(issues, Days(_)) ==
    [m \in {Bucket(i.closed, "month") : i \in {j \in issues : j.closed # NoDate}} |->
        LET closed == Dated(issues, LAMBDA i : i.closed, m, "month")
        IN  [days |-> SumFunction([i \in closed |-> Days(i)]), count |-> Cardinality(closed)]]

Mttr(issues) == ResolvedByMonth(issues, LAMBDA i : i.days)

AverageResolve(issues) == ResolvedByMonth(issues, DaysToResolve)

(* calculate_kpi, as numerators: what is "resolved" does not count as closed. *)
Kpi(issues) ==
    [critical |-> BySeverity(issues).critical, high |-> BySeverity(issues).high,
     closed |-> HowMany(issues, LAMBDA i : i.status \in {"fixed", "closed"})]

----------------------------------------------------------------------------
(* calculate_workbench_trends *)

Cumulative(series) ==
    [b \in DOMAIN series |-> SumFunction([c \in {d \in DOMAIN series : d <= b} |-> SumFunction(series[c])])]

Offends(severity, rule, threshold) ==
    CASE rule = "critical_high" -> severity \in {"critical", "high"}
      [] rule = "any_open" -> severity # "unknown"
      [] OTHER -> SeverityRank[severity] >= SeverityRank[threshold]

Months(scans, issues, today) ==
    Rows({s.created : s \in scans} \cup {i.opened : i \in issues}, "month", today)

Compliance(scans, issues, apps, rule, threshold, today) ==
    LET known == Cardinality({a.id : a \in apps})
        Offending(m) == {i.app : i \in {j \in Dated(issues, LAMBDA i : i.opened, m, "month") :
                            j.app # Missing /\ Offends(j.severity, rule, threshold)}}
    IN  [m \in Months(scans, issues, today) |->
            [total |-> known, nonCompliant |-> Cardinality(Offending(m)),
             compliant |-> Max({0, known - Cardinality(Offending(m))})]]

(* An application is onboarded when it was created or else first scanned. *)
OnboardedIn(app, scans) ==
    LET scanned == {s.created : s \in {t \in scans : t.app = app.id}} \ {NoDate}
    IN  IF app.created # NoDate THEN Bucket(app.created, "month")
        ELSE IF scanned # {} THEN Bucket(Min(scanned), "month")
        ELSE -1

Onboarded(scans, issues, apps, today) ==
    LET known == {a \in apps : OnboardedIn(a, scans) # -1}
        months == {OnboardedIn(a, scans) : a \in known}
    IN  IF known = {} THEN [m \in {Max(Months(scans, issues, today))} |-> Cardinality(apps)]
        ELSE [m \in months |->
                 Cardinality({a.id : a \in {b \in known : OnboardedIn(b, scans) = m}})]

(* A tenant that does not say what it pays for is guessed from the scans per application. *)
LicenseModel(said, scans) ==
    LET typed == HowMany(scans, LAMBDA s : s.type \in Technologies)
        apps == Cardinality({s.app : s \in scans} \ {Missing})
    IN  IF said # "unknown" \/ typed = 0 \/ apps = 0 THEN said
        ELSE IF typed >= 4 * apps THEN "per_scan" ELSE "per_application"

License(said, scans) ==
    [t \in Technologies |->
        LET mine == {s \in scans : s.type = t}
            perDay == CountsBy({s \in mine : s.created # NoDate}, LAMBDA s : s.created)
            row == [scans |-> Cardinality(mine),
                    apps |-> Cardinality({s.app : s \in mine} \ {Missing}),
                    peak |-> IF DOMAIN perDay = {} THEN 0
                             ELSE Max({perDay[d] : d \in DOMAIN perDay})]
            model == LicenseModel(said, scans)
        IN  [row |-> row,
             units |-> IF model = "per_application" THEN row.apps
                       ELSE IF model = "per_concurrent" THEN row.peak ELSE row.scans]]
=============================================================================
