-------------------------- MODULE PortfolioProofs ---------------------------
(***************************************************************************)
(* What a bundle shows, for any sources, catalogs, contents, users and     *)
(* filters.                                                                *)
(***************************************************************************)
EXTENDS Portfolio, Counting

\* Lists in which every item has its application, as the catalog has it.
Homely(lists) ==
    /\ \A x \in lists.issues \cup lists.scans : \E a \in lists.apps :
          /\ a.id = x.app /\ a.source = x.source
          /\ x.group \in {a.group, Missing} /\ x.appName \in {a.name, Missing}
    /\ \A a \in lists.apps : \E c \in Catalog :
          a.id = c.id /\ a.source = c.source /\ a.group = c.group /\ a.name = c.name

\* The lists of a wider request.
Within(lists, wider) ==
    /\ lists.issues \subseteq wider.issues /\ lists.scans \subseteq wider.scans
    /\ lists.apps \subseteq wider.apps

ScopeOf(f, lists) == ScopedApps(f, CatalogApps(f, lists.apps))

Exempt(f, part, x) ==
    /\ part = "apps" /\ f.groups # {} /\ x.group = Missing
    /\ \A app \in Catalog : app.id = x.app => app.group \notin f.groups

\* A filter without one of its parts has the others.
LEMMA WithoutOne ==
    ASSUME NEW f \in Filters, NEW part \in FilterParts, NEW other \in FilterParts
    PROVE  Without(f, part)[other] =
              IF other = part THEN IF part \in {"from", "to"} THEN NoDate ELSE {}
              ELSE f[other]
  BY RequestAssumption DEF Without

LEMMA WithoutParts ==
    ASSUME NEW f \in Filters, NEW part \in FilterParts, NEW g, g = Without(f, part)
    PROVE  /\ g.groups = IF part = "groups" THEN {} ELSE f.groups
           /\ g.apps = IF part = "apps" THEN {} ELSE f.apps
           /\ g.names = IF part = "names" THEN {} ELSE f.names
           /\ g.technologies = IF part = "technologies" THEN {} ELSE f.technologies
           /\ g.vulnerabilities = IF part = "vulnerabilities" THEN {} ELSE f.vulnerabilities
           /\ g.scanTypes = IF part = "scanTypes" THEN {} ELSE f.scanTypes
           /\ g.scanStatuses = IF part = "scanStatuses" THEN {} ELSE f.scanStatuses
           /\ g.from = IF part = "from" THEN NoDate ELSE f.from
           /\ g.to = IF part = "to" THEN NoDate ELSE f.to
           /\ g.sources = IF part = "sources" THEN {} ELSE f.sources
<1>1. \A other \in FilterParts : g[other] =
         IF other = part THEN IF part \in {"from", "to"} THEN NoDate ELSE {} ELSE f[other]
  BY WithoutOne
<1>2. /\ g["groups"] = IF part = "groups" THEN {} ELSE f["groups"]
      /\ g["apps"] = IF part = "apps" THEN {} ELSE f["apps"]
      /\ g["names"] = IF part = "names" THEN {} ELSE f["names"]
  BY <1>1 DEF FilterParts
<1>3. /\ g["technologies"] = IF part = "technologies" THEN {} ELSE f["technologies"]
      /\ g["vulnerabilities"] = IF part = "vulnerabilities" THEN {} ELSE f["vulnerabilities"]
      /\ g["scanTypes"] = IF part = "scanTypes" THEN {} ELSE f["scanTypes"]
      /\ g["scanStatuses"] = IF part = "scanStatuses" THEN {} ELSE f["scanStatuses"]
  BY <1>1 DEF FilterParts
<1>4. /\ g["from"] = IF part = "from" THEN NoDate ELSE f["from"]
      /\ g["to"] = IF part = "to" THEN NoDate ELSE f["to"]
      /\ g["sources"] = IF part = "sources" THEN {} ELSE f["sources"]
  BY <1>1 DEF FilterParts
<1> QED
  BY <1>2, <1>3, <1>4

\* An item that passes the filters on its application belongs to the scope of the
\* wider request, if that has one: its application passes there as the item does.
LEMMA ScopeWidens ==
    ASSUME NEW f \in Filters, NEW part \in FilterParts, NEW lists, NEW wider,
           Homely(lists), Homely(wider), Within(lists, wider),
           NEW x \in lists.issues \cup lists.scans,
           InScope(x, f.groups, ScopeOf(f, lists), f.names), ~Exempt(f, part, x),
           NEW g, g = Without(f, part), Scoped(g)
    PROVE  x.app \in ScopeOf(g, wider)
<1>1. /\ g.groups = IF part = "groups" THEN {} ELSE f.groups
      /\ g.apps = IF part = "apps" THEN {} ELSE f.apps
      /\ g.names = IF part = "names" THEN {} ELSE f.names
  BY WithoutParts
<1>2. Scoped(g) /\ Scoped(f)
  BY <1>1 DEF Scoped
<1>3. PICK a \in lists.apps :
        /\ a.id = x.app
        /\ x.group \in {a.group, Missing} /\ x.appName \in {a.name, Missing}
  BY DEF Homely
<1>4. a \in wider.apps
  BY DEF Within
<1>5. PICK c \in Catalog : a.id = c.id /\ a.group = c.group /\ a.name = c.name
  BY DEF Homely
<1>6. Missing \notin f.groups /\ Missing \notin f.names
  BY RequestAssumption
<1>7. x.app \in g.apps \/ a \in CatalogApps(g, wider.apps) => x.app \in ScopeOf(g, wider)
  BY <1>2, <1>3 DEF ScopeOf, ScopedApps, IdsOf
<1>8. f.names = {} \/ a.name \in f.names
  BY <1>3, <1>6 DEF InScope
<1>9. CASE \E b \in CatalogApps(f, lists.apps) : b.id = x.app
  <2>1. PICK b \in lists.apps : b.id = x.app /\ b \in CatalogApps(f, lists.apps)
    BY <1>9 DEF CatalogApps
  <2>2. b \in wider.apps
    BY DEF Within
  <2>3. b \in CatalogApps(g, wider.apps)
    BY <2>1, <2>2, <1>1 DEF CatalogApps
  <2>4. x.app \in IdsOf(CatalogApps(g, wider.apps))
    BY <2>1, <2>3 DEF IdsOf
  <2> QED
    BY <2>4, <1>2 DEF ScopeOf, ScopedApps
<1>10. CASE x.app \in f.apps
  <2>1. CASE part # "apps"
    BY <2>1, <1>10, <1>1, <1>7
  <2>2. CASE part = "apps"
    <3>1. f.groups = {} \/ a.group \in f.groups
      <4>1. CASE x.group = Missing
        <5>1. f.groups = {} \/ \E app \in Catalog : app.id = x.app /\ app.group \in f.groups
          BY <4>1, <2>2 DEF Exempt
        <5>2. \A app \in Catalog : app.id = x.app => app = c
          BY <1>3, <1>5, ContentsAssumption
        <5> QED
          BY <5>1, <5>2, <1>5
      <4>2. CASE x.group # Missing
        BY <4>2, <1>3 DEF InScope, InGroups
      <4> QED
        BY <4>1, <4>2
    <3> QED
      BY <3>1, <2>2, <1>1, <1>4, <1>7, <1>8 DEF CatalogApps
  <2> QED
    BY <2>1, <2>2
<1>11. CASE ScopeOf(f, lists) = {}
  <2>1. f.apps = {}
    BY <1>11, <1>2 DEF ScopeOf, ScopedApps
  <2>2. f.groups = {} \/ x.group \in f.groups
    BY <1>11 DEF InScope, InGroups
  <2>3. f.groups = {} \/ a.group \in f.groups
    BY <2>2, <1>3, <1>6
  <2>4. a \in CatalogApps(f, lists.apps)
    BY <2>1, <2>3, <1>8 DEF CatalogApps
  <2>5. a.id \in ScopeOf(f, lists)
    BY <2>4, <1>2 DEF ScopeOf, ScopedApps, IdsOf
  <2> QED
    BY <2>5, <1>11
<1>12. ScopeOf(f, lists) = {} \/ x.app \in f.apps \/ \E b \in CatalogApps(f, lists.apps) : b.id = x.app
  BY <1>2 DEF InScope, ScopeOf, ScopedApps, IdsOf
<1> QED
  BY <1>9, <1>10, <1>11, <1>12

LEMMA ItemsStayInScope ==
    ASSUME NEW f \in Filters, NEW part \in FilterParts, NEW lists, NEW wider,
           Homely(lists), Homely(wider), Within(lists, wider),
           NEW x \in lists.issues \cup lists.scans,
           InScope(x, f.groups, ScopeOf(f, lists), f.names), ~Exempt(f, part, x),
           NEW g, g = Without(f, part)
    PROVE  InScope(x, g.groups, ScopeOf(g, wider), g.names)
<1>1. /\ g.groups = IF part = "groups" THEN {} ELSE f.groups
      /\ g.apps = IF part = "apps" THEN {} ELSE f.apps
      /\ g.names = IF part = "names" THEN {} ELSE f.names
  BY WithoutParts
<1>2. Scoped(g) => x.app \in ScopeOf(g, wider)
  BY ScopeWidens
<1>3. CASE Scoped(g)
  BY <1>1, <1>2, <1>3 DEF InScope, InGroups
<1>4. CASE ~Scoped(g)
  <2>1. g.groups = {} /\ g.apps = {} /\ g.names = {}
    BY <1>4 DEF Scoped
  <2>2. ScopeOf(g, wider) = {}
    BY <2>1, <1>4 DEF ScopeOf, ScopedApps
  <2> QED
    BY <2>1, <2>2 DEF InScope, InGroups
<1> QED
  BY <1>3, <1>4


\* The scans and the issues of a bundle.
ShownScans(f, lists) == FilteredScans(lists.scans, f, ScopeOf(f, lists))

ShownIssues(f, lists) ==
    OfDimensions(ShownScans(f, lists),
                 FilteredIssues(lists.scans,
                                InScopeOf(f, CatalogApps(f, lists.apps), lists.issues),
                                f, ScopeOf(f, lists)),
                 f)

LEMMA BundleShows ==
    ASSUME NEW f, NEW lists, NEW counted
    PROVE  /\ Bundle(f, lists, counted).scans = ShownScans(f, lists)
           /\ Bundle(f, lists, counted).issues = ShownIssues(f, lists)
  BY DEF Bundle, ShownScans, ShownIssues, ScopeOf

LEMMA ScansStayScoped ==
    ASSUME NEW f \in Filters, NEW part \in FilterParts, NEW lists, NEW wider,
           Homely(lists), Homely(wider), Within(lists, wider),
           NEW g, g = Without(f, part),
           NEW s \in ScopedScans(lists.scans, f, ScopeOf(f, lists)), ~Exempt(f, part, s)
    PROVE  s \in ScopedScans(wider.scans, g, ScopeOf(g, wider))
<1>1. s \in lists.scans /\ s \in wider.scans
  BY DEF ScopedScans, Within
<1>2. InScope(s, f.groups, ScopeOf(f, lists), f.names)
  BY DEF ScopedScans
<1>3. InScope(s, g.groups, ScopeOf(g, wider), g.names)
  BY <1>1, <1>2, ItemsStayInScope
<1>4. /\ g.scanTypes = {} \/ s.type \in g.scanTypes
      /\ g.scanStatuses = {} \/ s.status \in g.scanStatuses
  <2>1. /\ g.scanTypes = IF part = "scanTypes" THEN {} ELSE f.scanTypes
        /\ g.scanStatuses = IF part = "scanStatuses" THEN {} ELSE f.scanStatuses
    BY WithoutParts
  <2> QED
    BY <2>1 DEF ScopedScans
<1> QED
  BY <1>1, <1>3, <1>4 DEF ScopedScans

LEMMA PeriodWidens ==
    ASSUME NEW f \in Filters, NEW part \in FilterParts, NEW g, g = Without(f, part),
           NEW day, InPeriod(day, f.from, f.to)
    PROVE  InPeriod(day, g.from, g.to)
<1>1. /\ g.from = IF part = "from" THEN NoDate ELSE f.from
      /\ g.to = IF part = "to" THEN NoDate ELSE f.to
  BY WithoutParts
<1> QED
  BY <1>1 DEF InPeriod

LEMMA ScansStay ==
    ASSUME NEW f \in Filters, NEW part \in FilterParts, NEW lists, NEW wider,
           Homely(lists), Homely(wider), Within(lists, wider),
           NEW g, g = Without(f, part),
           NEW s \in ShownScans(f, lists), ~Exempt(f, part, s)
    PROVE  s \in ShownScans(g, wider)
<1>1. s \in ScopedScans(lists.scans, f, ScopeOf(f, lists)) /\ InPeriod(s.created, f.from, f.to)
  BY DEF ShownScans, FilteredScans
<1>2. s \in ScopedScans(wider.scans, g, ScopeOf(g, wider))
  BY <1>1, ScansStayScoped
<1>3. InPeriod(s.created, g.from, g.to)
  BY <1>1, PeriodWidens
<1> QED
  BY <1>2, <1>3 DEF ShownScans, FilteredScans

\* Where an item is not exempt, nothing of its application is.
LEMMA SameHomeSameExemption ==
    ASSUME NEW f \in Filters, NEW part \in FilterParts, NEW lists, Homely(lists),
           NEW x \in lists.issues \cup lists.scans, NEW apps,
           InGroups(x, f.groups, apps), ~Exempt(f, part, x), NEW y, y.app = x.app
    PROVE  ~Exempt(f, part, y)
<1> SUFFICES ASSUME part = "apps", f.groups # {}
             PROVE  \E app \in Catalog : app.id = x.app /\ app.group \in f.groups
  BY DEF Exempt
<1>1. PICK a \in lists.apps : a.id = x.app /\ x.group \in {a.group, Missing}
  BY DEF Homely
<1>2. PICK c \in Catalog : a.id = c.id /\ a.group = c.group
  BY DEF Homely
<1>3. CASE x.group = Missing
  BY <1>3 DEF Exempt
<1>4. CASE x.group # Missing
  BY <1>1, <1>2, <1>4 DEF InGroups
<1> QED
  BY <1>3, <1>4

LEMMA IssuesStay ==
    ASSUME NEW f \in Filters, NEW part \in FilterParts, NEW lists, NEW wider,
           Homely(lists), Homely(wider), Within(lists, wider),
           NEW g, g = Without(f, part),
           NEW i \in ShownIssues(f, lists), ~Exempt(f, part, i),
           f.technologies = {} \/ NormalizedTechnology(i.words) # "UNKNOWN"
    PROVE  i \in ShownIssues(g, wider)
<1> DEFINE mine == InScopeOf(f, CatalogApps(f, lists.apps), lists.issues)
           others == InScopeOf(g, CatalogApps(g, wider.apps), wider.issues)
           scanned == {s.app : s \in ScopedScans(lists.scans, f, ScopeOf(f, lists))} \ {Missing}
           rescanned == {s.app : s \in ScopedScans(wider.scans, g, ScopeOf(g, wider))} \ {Missing}
<1>1. i \in FilteredIssues(lists.scans, mine, f, ScopeOf(f, lists))
  BY DEF ShownIssues, OfDimensions
<1>2. /\ i \in mine
      /\ InScope(i, f.groups, ScopeOf(f, lists), f.names)
      /\ f.scanTypes \cup f.scanStatuses # {} => i.app \in scanned
      /\ InPeriod(i.opened, f.from, f.to)
  BY <1>1 DEF FilteredIssues
<1>3. i \in lists.issues /\ i \in wider.issues
  BY <1>2 DEF InScopeOf, Within
<1>4. InScope(i, g.groups, ScopeOf(g, wider), g.names)
  BY <1>2, <1>3, ItemsStayInScope
<1>5. i \in others
  <2>1. Scoped(g) => i.app \in ScopedApps(g, CatalogApps(g, wider.apps))
    BY <1>2, <1>3, ScopeWidens DEF ScopeOf
  <2> QED
    BY <1>3, <2>1 DEF InScopeOf
<1>6. g.scanTypes \cup g.scanStatuses # {} => i.app \in rescanned
  <2> SUFFICES ASSUME g.scanTypes \cup g.scanStatuses # {} PROVE i.app \in rescanned
    OBVIOUS
  <2>1. /\ g.scanTypes = IF part = "scanTypes" THEN {} ELSE f.scanTypes
        /\ g.scanStatuses = IF part = "scanStatuses" THEN {} ELSE f.scanStatuses
    BY WithoutParts
  <2>2. i.app \in scanned
    BY <1>2, <2>1
  <2>3. PICK s \in ScopedScans(lists.scans, f, ScopeOf(f, lists)) : s.app = i.app
    BY <2>2
  <2>4. ~Exempt(f, part, s)
    BY <1>2, <1>3, <2>3, SameHomeSameExemption DEF InScope
  <2>5. s \in ScopedScans(wider.scans, g, ScopeOf(g, wider))
    BY <2>4, ScansStayScoped
  <2> QED
    BY <2>2, <2>3, <2>5
<1>7. InPeriod(i.opened, g.from, g.to)
  BY <1>2, PeriodWidens
<1>8. i \in FilteredIssues(wider.scans, others, g, ScopeOf(g, wider))
  BY <1>4, <1>5, <1>6, <1>7 DEF FilteredIssues
<1>9. /\ g.technologies = {} \/ ResolvedTechnology(i, ShownScans(g, wider)) \in g.technologies
      /\ g.vulnerabilities = {} \/ i.vulnerability \in g.vulnerabilities
  <2>1. /\ g.technologies = IF part = "technologies" THEN {} ELSE f.technologies
        /\ g.vulnerabilities = IF part = "vulnerabilities" THEN {} ELSE f.vulnerabilities
    BY WithoutParts
  <2>2. /\ f.technologies = {} \/ ResolvedTechnology(i, ShownScans(f, lists)) \in f.technologies
        /\ f.vulnerabilities = {} \/ i.vulnerability \in f.vulnerabilities
    BY DEF ShownIssues, OfDimensions
  <2>3. NormalizedTechnology(i.words) # "UNKNOWN" =>
           ResolvedTechnology(i, ShownScans(g, wider)) = ResolvedTechnology(i, ShownScans(f, lists))
    BY DEF ResolvedTechnology
  <2> QED
    BY <2>1, <2>2, <2>3
<1> QED
  BY <1>8, <1>9 DEF ShownIssues, OfDimensions

----------------------------------------------------------------------------
(* Base data is homely, and stays so in what a user and a filter leave of it. *)

LEMMA CountedAppIs ==
    ASSUME NEW at, NEW c
    PROVE  /\ CountedApp(at, c).id = c.id /\ CountedApp(at, c).source = c.source
           /\ CountedApp(at, c).group = c.group /\ CountedApp(at, c).name = c.name
  BY DEF CountedApp

\* The first contents, whose applications issues keep.
Originals == UNION {c.issues : c \in Contents}

ContentOK(c) ==
    /\ IsFiniteSet(c.issues) /\ IsFiniteSet(c.scans)
    /\ \A r \in c.issues \cup c.scans : AtHome(r)
    /\ \A r, s \in c.issues : r.id = s.id => r = s
    /\ \A r \in c.issues :
          /\ IssueParts \subseteq DOMAIN r
          /\ {r.opened, r.closed, r.updated, r.days} \subseteq Nat
          /\ \E q \in Originals : q.app = r.app /\ q.group = r.group /\ q.appName = r.appName
    /\ \A r \in c.scans : r.created \in Nat

ContentInv == ContentOK(content)

\* A fetch meets contents that the sources have had since it began.
FetchInv ==
    fetch # None =>
       content \in fetch /\ IsFiniteSet(fetch) /\ \A c \in fetch : ContentOK(c)

SourcesInv == ContentInv /\ FetchInv

LEMMA ContentInit == content \in Contents => ContentInv
<1> SUFFICES ASSUME content \in Contents PROVE ContentInv
  OBVIOUS
<1>1. \A r \in content.issues : r \in Originals
  BY DEF Originals
<1> QED
  BY <1>1, ContentsAssumption DEF ContentInv, ContentOK

\* What sources that have not changed meanwhile would give of themselves.
WholeLists(sources) ==
    [issues |-> IssuesOf(content, IdsOf(AppsOf(content, sources))),
     scans |-> ScansOf(content, sources),
     apps |-> AppsOf(content, sources), groups |-> GroupsOf(sources),
     stats |-> Combined([s \in sources |->
                           AppStatistics(AppsOf(content, {s}), ScansOf(content, {s}))])]

LEMMA ListsAreHomely ==
    ASSUME ContentInv, NEW sources
    PROVE  Homely(WholeLists(sources))
<1> DEFINE lists == WholeLists(sources)
<1>1. lists.issues = IssuesOf(content, IdsOf(AppsOf(content, sources)))
  BY DEF WholeLists
<1>2. lists.scans = ScansOf(content, sources) /\ lists.apps = AppsOf(content, sources)
  BY DEF WholeLists
<1> HIDE DEF lists
<1>3. \A c \in Catalog : c.source \in sources => CountedApp(content, c) \in lists.apps
  BY <1>2 DEF AppsOf
<1>4. ASSUME NEW raw, AtHome(raw), NEW x,
             x.app = raw.app, x.source = raw.source, x.group = raw.group,
             x.appName = raw.appName,
             \A c \in Catalog : raw.app = c.id => c.source \in sources
      PROVE  \E a \in lists.apps :
                /\ a.id = x.app /\ a.source = x.source
                /\ x.group \in {a.group, Missing} /\ x.appName \in {a.name, Missing}
  <2>1. PICK c \in Catalog : /\ raw.app = c.id /\ raw.source = c.source
                             /\ raw.group \in {c.group, Missing}
                             /\ raw.appName \in {c.name, Missing}
    BY <1>4 DEF AtHome
  <2>2. CountedApp(content, c) \in lists.apps
    BY <1>3, <1>4, <2>1
  <2> QED
    BY <1>4, <2>1, <2>2, CountedAppIs
<1>5. ASSUME NEW x \in lists.issues
      PROVE  \E a \in lists.apps :
                /\ a.id = x.app /\ a.source = x.source
                /\ x.group \in {a.group, Missing} /\ x.appName \in {a.name, Missing}
  <2>1. PICK raw \in content.issues :
           x = MappedIssue(raw) /\ raw.app \in IdsOf(AppsOf(content, sources))
    BY <1>1 DEF IssuesOf
  <2>2. PICK c \in Catalog : c.source \in sources /\ CountedApp(content, c).id = raw.app
    BY <2>1 DEF IdsOf, AppsOf
  <2>3. \A d \in Catalog : raw.app = d.id => d.source \in sources
    BY <2>2, CountedAppIs, ContentsAssumption
  <2>4. x.app = raw.app /\ x.source = raw.source /\ x.group = raw.group /\ x.appName = raw.appName
    BY <2>1 DEF MappedIssue
  <2> QED
    BY <2>3, <2>4, <1>4 DEF ContentInv, ContentOK
<1>6. ASSUME NEW x \in lists.scans
      PROVE  \E a \in lists.apps :
                /\ a.id = x.app /\ a.source = x.source
                /\ x.group \in {a.group, Missing} /\ x.appName \in {a.name, Missing}
  <2>1. PICK raw \in content.scans : x = MappedScan(raw) /\ raw.source \in sources
    BY <1>2 DEF ScansOf
  <2>2. AtHome(raw)
    BY DEF ContentInv, ContentOK
  <2>3. \A d \in Catalog : raw.app = d.id => d.source \in sources
    BY <2>1, <2>2, ContentsAssumption DEF AtHome
  <2>4. x.app = raw.app /\ x.source = raw.source /\ x.group = raw.group /\ x.appName = raw.appName
    BY <2>1 DEF MappedScan
  <2> QED
    BY <2>2, <2>3, <2>4, <1>4
<1>7. ASSUME NEW a \in lists.apps
      PROVE  \E c \in Catalog :
                a.id = c.id /\ a.source = c.source /\ a.group = c.group /\ a.name = c.name
  <2>1. PICK c \in Catalog : a = CountedApp(content, c)
    BY <1>2 DEF AppsOf
  <2> QED
    BY <2>1, CountedAppIs
<1> QED
  BY <1>5, <1>6, <1>7 DEF Homely, lists

\* A list of issues of a source has issues of that source, of some moment of the fetch.
LEMMA ListedAreHeld ==
    ASSUME NEW F, NEW at \in [Reads -> F], \A c \in F : ContentOK(c), NEW s \in Sources, NEW lost
    PROVE  \A r \in ListedIssues(at, s, lost) : r.source = s /\ \E c \in F : r \in c.issues
<1> DEFINE ids == IdsOf({a \in Catalog : a.source = s}) \ lost
           listed == UNION {{r \in at[id].issues : r.app = id} : id \in ids}
<1>1. ASSUME NEW id \in ids
      PROVE  at[id] \in F /\ \E a \in Catalog : a.id = id /\ a.source = s
  BY DEF IdsOf, Reads
<1>2. at[<<"issues", s>>] \in F
  BY DEF Reads
<1>3. ASSUME NEW r \in listed
      PROVE  r.source = s /\ \E c \in F : r \in c.issues
  <2>1. PICK id \in ids : r \in at[id].issues /\ r.app = id
    OBVIOUS
  <2>2. PICK a \in Catalog : a.id = id /\ a.source = s
    BY <1>1
  <2>3. at[id] \in F /\ AtHome(r)
    BY <1>1, <2>1 DEF ContentOK
  <2>4. PICK c \in Catalog : r.app = c.id /\ r.source = c.source
    BY <2>3 DEF AtHome
  <2> QED
    BY <2>1, <2>2, <2>3, <2>4, ContentsAssumption
<1>4. ASSUME NEW r \in HeldIn(at[<<"issues", s>>], s)
      PROVE  r.source = s /\ \E c \in F : r \in c.issues
  BY <1>2 DEF HeldIn
<1>5. ListedIssues(at, s, lost) = IF listed # {} THEN listed ELSE HeldIn(at[<<"issues", s>>], s)
  BY DEF ListedIssues
<1> HIDE DEF listed
<1> QED
  BY <1>3, <1>4, <1>5

LEMMA MergedIs ==
    ASSUME NEW at, NEW sources, NEW lost, NEW lists, lists = ListsMerged(at, sources, lost)
    PROVE  /\ \A x : x \in lists.issues <=>
                      \E s \in sources : \E r \in ListedIssues(at, s, lost) : x = MappedIssue(r)
           /\ \A x : x \in lists.scans <=>
                      \E s \in sources : x \in ScansOf(at[<<"scans", s>>], {s})
           /\ \A x : x \in lists.apps <=>
                      \E s \in sources : x \in AppsOf(at[<<"apps", s>>], {s})
<1>1. lists.issues = UNION {{MappedIssue(r) : r \in ListedIssues(at, s, lost)} : s \in sources}
  BY DEF ListsMerged
<1>2. lists.scans = UNION {ScansOf(at[<<"scans", s>>], {s}) : s \in sources}
  BY DEF ListsMerged
<1>3. lists.apps = UNION {AppsOf(at[<<"apps", s>>], {s}) : s \in sources}
  BY DEF ListsMerged
<1>4. \A x : x \in lists.issues <=>
                \E s \in sources : \E r \in ListedIssues(at, s, lost) : x = MappedIssue(r)
  BY <1>1
<1>5. \A x : x \in lists.scans <=> \E s \in sources : x \in ScansOf(at[<<"scans", s>>], {s})
  BY <1>2
<1>6. \A x : x \in lists.apps <=> \E s \in sources : x \in AppsOf(at[<<"apps", s>>], {s})
  BY <1>3
<1> QED
  BY <1>4, <1>5, <1>6

\* Merged lists are homely whenever each of them was fetched and whatever was lost: what
\* changes in a source is neither its applications nor that of an issue.
LEMMA MergedIsHomely ==
    ASSUME NEW F, NEW at \in [Reads -> F], \A c \in F : ContentOK(c),
           NEW sources \in SUBSET Sources, NEW lost
    PROVE  Homely(ListsMerged(at, sources, lost))
<1> DEFINE lists == ListsMerged(at, sources, lost)
<1>1. /\ \A x : x \in lists.issues <=>
                   \E s \in sources : \E r \in ListedIssues(at, s, lost) : x = MappedIssue(r)
      /\ \A x : x \in lists.scans <=> \E s \in sources : x \in ScansOf(at[<<"scans", s>>], {s})
      /\ \A x : x \in lists.apps <=> \E s \in sources : x \in AppsOf(at[<<"apps", s>>], {s})
  BY MergedIs
<1> HIDE DEF lists
<1>2. ASSUME NEW raw, AtHome(raw), raw.source \in sources, NEW x,
             x.app = raw.app, x.source = raw.source, x.group = raw.group,
             x.appName = raw.appName
      PROVE  \E a \in lists.apps :
                /\ a.id = x.app /\ a.source = x.source
                /\ x.group \in {a.group, Missing} /\ x.appName \in {a.name, Missing}
  <2>1. PICK c \in Catalog : /\ raw.app = c.id /\ raw.source = c.source
                             /\ raw.group \in {c.group, Missing}
                             /\ raw.appName \in {c.name, Missing}
    BY <1>2 DEF AtHome
  <2> DEFINE a == CountedApp(at[<<"apps", c.source>>], c)
  <2>2. a \in AppsOf(at[<<"apps", c.source>>], {c.source})
    BY DEF AppsOf
  <2>3. a.id = c.id /\ a.source = c.source /\ a.group = c.group /\ a.name = c.name
    BY CountedAppIs
  <2> HIDE DEF a
  <2>4. a \in lists.apps
    BY <1>1, <1>2, <2>1, <2>2
  <2> QED
    BY <1>2, <2>1, <2>3, <2>4
<1>3. ASSUME NEW x \in lists.issues
      PROVE  \E a \in lists.apps :
                /\ a.id = x.app /\ a.source = x.source
                /\ x.group \in {a.group, Missing} /\ x.appName \in {a.name, Missing}
  <2>1. PICK s \in sources : \E r \in ListedIssues(at, s, lost) : x = MappedIssue(r)
    BY <1>1
  <2>2. PICK r \in ListedIssues(at, s, lost) : x = MappedIssue(r)
    BY <2>1
  <2>3. r.source = s /\ \E c \in F : r \in c.issues
    BY ListedAreHeld
  <2>4. AtHome(r)
    BY <2>3 DEF ContentOK
  <2>5. x.app = r.app /\ x.source = r.source /\ x.group = r.group /\ x.appName = r.appName
    BY <2>2 DEF MappedIssue
  <2> QED
    BY <1>2, <2>3, <2>4, <2>5
<1>4. ASSUME NEW x \in lists.scans
      PROVE  \E a \in lists.apps :
                /\ a.id = x.app /\ a.source = x.source
                /\ x.group \in {a.group, Missing} /\ x.appName \in {a.name, Missing}
  <2>1. PICK s \in sources : x \in ScansOf(at[<<"scans", s>>], {s})
    BY <1>1
  <2>2. PICK r \in at[<<"scans", s>>].scans : r.source = s /\ x = MappedScan(r)
    BY <2>1 DEF ScansOf
  <2>3. at[<<"scans", s>>] \in F
    BY DEF Reads
  <2>4. AtHome(r)
    BY <2>2, <2>3 DEF ContentOK
  <2>5. x.app = r.app /\ x.source = r.source /\ x.group = r.group /\ x.appName = r.appName
    BY <2>2 DEF MappedScan
  <2> QED
    BY <1>2, <2>2, <2>4, <2>5
<1>5. ASSUME NEW a \in lists.apps
      PROVE  \E c \in Catalog :
                a.id = c.id /\ a.source = c.source /\ a.group = c.group /\ a.name = c.name
  <2>1. PICK s \in sources : a \in AppsOf(at[<<"apps", s>>], {s})
    BY <1>1
  <2>2. PICK c \in Catalog : a = CountedApp(at[<<"apps", s>>], c)
    BY <2>1 DEF AppsOf
  <2> QED
    BY <2>2, CountedAppIs
<1> QED
  BY <1>3, <1>4, <1>5 DEF Homely, lists

LEMMA VisibleIs ==
    ASSUME NEW user, NEW f, NEW lists
    PROVE  /\ Visible(user, f, lists).issues = Permitted(user, OfSources(f, lists.issues))
           /\ Visible(user, f, lists).scans = Permitted(user, OfSources(f, lists.scans))
           /\ Visible(user, f, lists).apps = Permitted(user, OfSources(f, lists.apps))
  BY DEF Visible

\* Who may see an item sees its application.
LEMMA VisibleIsHomely ==
    ASSUME NEW user \in Users, NEW f, NEW lists, Homely(lists)
    PROVE  Homely(Visible(user, f, lists))
<1> DEFINE seen == Visible(user, f, lists)
<1>1. /\ seen.issues = Permitted(user, OfSources(f, lists.issues))
      /\ seen.scans = Permitted(user, OfSources(f, lists.scans))
      /\ seen.apps = Permitted(user, OfSources(f, lists.apps))
  BY VisibleIs
<1> HIDE DEF seen
<1>2. ASSUME NEW x \in seen.issues \cup seen.scans
      PROVE  \E a \in seen.apps :
                /\ a.id = x.app /\ a.source = x.source
                /\ x.group \in {a.group, Missing} /\ x.appName \in {a.name, Missing}
  <2>1. /\ x \in lists.issues \cup lists.scans /\ x.source \in Selected(f)
        /\ user.admin \/ x.group \in user.groups
    BY <1>1 DEF Permitted, OfSources
  <2>2. PICK a \in lists.apps :
           /\ a.id = x.app /\ a.source = x.source
           /\ x.group \in {a.group, Missing} /\ x.appName \in {a.name, Missing}
    BY <2>1 DEF Homely
  <2>3. user.admin \/ a.group \in user.groups
    BY <2>1, <2>2, RequestAssumption
  <2>4. a \in seen.apps
    BY <1>1, <2>1, <2>2, <2>3 DEF Permitted, OfSources
  <2> QED
    BY <2>2, <2>4
<1>3. seen.apps \subseteq lists.apps
  BY <1>1 DEF Permitted, OfSources
<1> QED
  BY <1>2, <1>3 DEF Homely, seen

LEMMA VisibleWidens ==
    ASSUME NEW user, NEW f \in Filters, NEW part \in FilterParts, NEW lists,
           NEW g, g = Without(f, part)
    PROVE  Within(Visible(user, f, lists), Visible(user, g, lists))
<1>1. g.sources = IF part = "sources" THEN {} ELSE f.sources
  BY WithoutParts
<1>2. Selected(f) \subseteq Selected(g)
  BY <1>1, PortfolioAssumption DEF Selected
<1>3. \A items : Permitted(user, OfSources(f, items)) \subseteq Permitted(user, OfSources(g, items))
  BY <1>2 DEF Permitted, OfSources
<1> QED
  BY <1>3, VisibleIs DEF Within

----------------------------------------------------------------------------
(* What was built is a bundle of the base data, which does not change any more. *)

ViewInv ==
    view # None /\ view.path = "warm" =>
       /\ view.user \in Users /\ view.filter \in Filters
       /\ \E n : view.bundle =
                    Bundle(view.filter, Visible(view.user, view.filter, base), n)

NarrowInv ==
    /\ SourcesInv
    /\ base # None => Homely(base)
    /\ view # None /\ view.path = "warm" => base # None
    /\ ViewInv

LEMMA SourcesInit == PortInit => SourcesInv
  BY ContentInit DEF PortInit, SourcesInv, FetchInv

LEMMA NarrowInit == PortInit => NarrowInv
<1> SUFFICES ASSUME PortInit PROVE NarrowInv
  OBVIOUS
<1>1. base = None /\ view = None
  BY DEF PortInit
<1> QED
  BY <1>1, SourcesInit DEF NarrowInv, ViewInv

\* A change of a source takes items away or changes the status of an issue.
LEMMA ChangesKeepContent ==
    ASSUME ContentInv, SourceChanges
    PROVE  ContentInv'
<1>1. ASSUME NEW raw \in content.issues, IssueFixed(raw)
      PROVE  ContentInv'
  <2> DEFINE fixed == [raw EXCEPT !.status = "fixed", !.updated = Today]
             left == content.issues \ {raw}
  <2>1. content'.issues = left \cup {fixed} /\ content'.scans = content.scans
    BY <1>1 DEF IssueFixed, Changes
  <2>2. AtHome(raw) /\ IssueParts \subseteq DOMAIN raw
    BY DEF ContentInv, ContentOK
  <2>3. /\ fixed.id = raw.id /\ fixed.app = raw.app /\ fixed.source = raw.source
        /\ fixed.group = raw.group /\ fixed.appName = raw.appName
    BY <2>2 DEF IssueParts
  <2>4. /\ fixed.opened = raw.opened /\ fixed.closed = raw.closed
        /\ fixed.updated = Today /\ fixed.days = raw.days
    BY <2>2 DEF IssueParts
  <2>5. DOMAIN fixed = DOMAIN raw
    OBVIOUS
  <2> HIDE DEF fixed
  <2>6. AtHome(fixed)
    BY <2>2, <2>3 DEF AtHome
  <2>7. IsFiniteSet(left \cup {fixed})
    BY FS_RemoveElement, FS_AddElement DEF ContentInv, ContentOK
  <2>8. \A r \in content'.issues :
           (r \in content.issues /\ r # raw) \/ r = fixed
    BY <2>1
  <2>9. \A r, s \in content'.issues : r.id = s.id => r = s
    BY <2>3, <2>8 DEF ContentInv, ContentOK
  <2>10. ASSUME NEW r \in content'.issues
         PROVE  /\ IssueParts \subseteq DOMAIN r
                /\ {r.opened, r.closed, r.updated, r.days} \subseteq Nat
                /\ \E q \in Originals : q.app = r.app /\ q.group = r.group /\ q.appName = r.appName
    <3>1. CASE r = fixed
      BY <2>2, <2>3, <2>4, <2>5, <3>1, PortfolioAssumption DEF ContentInv, ContentOK
    <3>2. CASE r \in content.issues
      BY <3>2 DEF ContentInv, ContentOK
    <3> QED
      BY <2>8, <3>1, <3>2
  <2>11. \A r \in content'.issues \cup content'.scans : AtHome(r)
    BY <2>1, <2>6, <2>8 DEF ContentInv, ContentOK
  <2>12. /\ IsFiniteSet(content'.issues) /\ IsFiniteSet(content'.scans)
         /\ \A r \in content'.scans : r.created \in Nat
    BY <2>1, <2>7 DEF ContentInv, ContentOK
  <2> QED
    BY <2>9, <2>10, <2>11, <2>12 DEF ContentInv, ContentOK
<1>2. ASSUME NEW raw \in content.issues, IssueRemoved(raw)
      PROVE  ContentInv'
  <2>1. content'.issues = content.issues \ {raw} /\ content'.scans = content.scans
    BY <1>2 DEF IssueRemoved, Changes
  <2>2. IsFiniteSet(content.issues \ {raw})
    BY FS_RemoveElement DEF ContentInv, ContentOK
  <2> QED
    BY <2>1, <2>2 DEF ContentInv, ContentOK
<1>3. ASSUME NEW raw \in content.scans, ScanRemoved(raw)
      PROVE  ContentInv'
  <2>1. content'.issues = content.issues /\ content'.scans = content.scans \ {raw}
    BY <1>3 DEF ScanRemoved, Changes
  <2>2. IsFiniteSet(content.scans \ {raw})
    BY FS_RemoveElement DEF ContentInv, ContentOK
  <2> QED
    BY <2>1, <2>2 DEF ContentInv, ContentOK
<1> QED
  BY <1>1, <1>2, <1>3 DEF SourceChanges

LEMMA SourcesNext == SourcesInv /\ [PortNext]_portVars => SourcesInv'
<1> SUFFICES ASSUME SourcesInv, [PortNext]_portVars PROVE SourcesInv'
  OBVIOUS
<1>1. content' = content => ContentInv'
  BY DEF SourcesInv, ContentInv, ContentOK
<1>2. content' = content /\ fetch' \in {fetch, None} => FetchInv'
  BY DEF SourcesInv, FetchInv
<1>3. content' = content /\ fetch' \in {fetch, None} => SourcesInv'
  BY <1>1, <1>2 DEF SourcesInv
<1>4. CASE UNCHANGED portVars
  BY <1>3, <1>4 DEF portVars
<1>5. CASE StartFetch
  <2>1. content' = content /\ fetch' = {content}
    BY <1>5 DEF StartFetch
  <2>2. content' \in fetch' /\ IsFiniteSet(fetch') /\ \A c \in fetch' : ContentOK(c)
    BY <2>1, FS_Singleton DEF SourcesInv, ContentInv
  <2> QED
    BY <1>1, <2>1, <2>2 DEF SourcesInv, FetchInv
<1>6. ASSUME NEW down \in SUBSET Sources, NEW lost, NEW at, FetchBase(down, lost, at)
      PROVE  SourcesInv'
  BY <1>3, <1>6 DEF FetchBase
<1>7. CASE BaseExpires
  BY <1>3, <1>7 DEF BaseExpires
<1>8. ASSUME NEW user, NEW f, BuildWarm(user, f)
      PROVE  SourcesInv'
  BY <1>3, <1>8 DEF BuildWarm
<1>9. ASSUME NEW user, NEW f, NEW lost, ColdCatalog(user, f, lost)
      PROVE  SourcesInv'
  BY <1>3, <1>9 DEF ColdCatalog
<1>10. ASSUME NEW lostApps, ColdIssues(lostApps)
       PROVE  SourcesInv'
  BY <1>3, <1>10 DEF ColdIssues
<1>11. CASE SourceChanges
  <2>1. ContentInv'
    BY <1>11, ChangesKeepContent DEF SourcesInv
  <2>2. fetch' = IF fetch = None THEN None ELSE fetch \cup {content'}
    BY <1>11 DEF SourceChanges, IssueFixed, IssueRemoved, ScanRemoved, Changes
  <2>3. ContentOK(content')
    BY <2>1 DEF ContentInv
  <2>4. fetch' # None =>
           content' \in fetch' /\ IsFiniteSet(fetch') /\ \A c \in fetch' : ContentOK(c)
    BY <2>2, <2>3, FS_AddElement DEF SourcesInv, FetchInv
  <2> QED
    BY <2>1, <2>4 DEF SourcesInv, FetchInv
<1> QED
  BY <1>4, <1>5, <1>6, <1>7, <1>8, <1>9, <1>10, <1>11 DEF PortNext, Building

LEMMA NarrowNext == NarrowInv /\ [PortNext]_portVars => NarrowInv'
<1> SUFFICES ASSUME NarrowInv, [PortNext]_portVars PROVE NarrowInv'
  OBVIOUS
<1>1. SourcesInv'
  BY SourcesNext DEF NarrowInv
<1>2. base' = base /\ view' = view => NarrowInv'
  BY <1>1 DEF NarrowInv, ViewInv, Homely
<1>3. CASE UNCHANGED portVars \/ StartFetch \/ SourceChanges
  BY <1>2, <1>3
     DEF portVars, StartFetch, SourceChanges, IssueFixed, IssueRemoved, ScanRemoved, Changes
<1>4. ASSUME fetch # None, NEW down \in SUBSET Sources, NEW lost, NEW at \in [Reads -> fetch],
             FetchBase(down, lost, at)
      PROVE  NarrowInv'
  <2> DEFINE sources == WithIssues(at, Sources \ down, lost)
             lists == ListsMerged(at, sources, lost)
  <2>1. view' = view /\ view = None /\ base' = lists
    BY <1>4 DEF FetchBase
  <2>2. sources \in SUBSET Sources
    BY DEF WithIssues
  <2>3. \A c \in fetch : ContentOK(c)
    BY <1>4 DEF NarrowInv, SourcesInv, FetchInv
  <2> HIDE DEF sources
  <2>4. Homely(lists)
    BY <2>2, <2>3, MergedIsHomely
  <2> QED
    BY <1>1, <2>1, <2>4 DEF NarrowInv, ViewInv, Homely
<1>5. CASE BaseExpires
  BY <1>1, <1>5 DEF BaseExpires, NarrowInv, ViewInv
<1>6. ASSUME NEW user \in Users, NEW f \in Filters, BuildWarm(user, f)
      PROVE  NarrowInv'
  <2>1. base # None /\ base' = base
    BY <1>6 DEF BuildWarm
  <2>2. PICK answering \in MayAnswer(f) :
           view' = [user |-> user, filter |-> f, path |-> "warm",
                    whole |-> base = Fetched(Sources), missed |-> missed,
                    bundle |-> Bundle(f, Visible(user, f, base), Counted(f, answering))]
    BY <1>6 DEF BuildWarm, Shows
  <2>3. /\ view'.user = user /\ view'.filter = f
        /\ view'.bundle = Bundle(f, Visible(user, f, base), Counted(f, answering))
    BY <2>2
  <2>4. ViewInv'
    BY <2>1, <2>3 DEF ViewInv
  <2> QED
    BY <1>1, <2>1, <2>4 DEF NarrowInv, Homely
<1>7. ASSUME NEW user \in Users, NEW f \in Filters, NEW lost \in ListLosses,
             ColdCatalog(user, f, lost)
      PROVE  NarrowInv'
  BY <1>2, <1>7 DEF ColdCatalog
<1>8. ASSUME NEW lostApps \in IssueLosses, ColdIssues(lostApps)
      PROVE  NarrowInv'
  <2>1. PICK u, f, b, whole, lacking :
           view' = [user |-> u, filter |-> f, path |-> "cold", whole |-> whole,
                    missed |-> lacking, bundle |-> b]
    BY <1>8 DEF ColdIssues, Shows
  <2>2. view'.path = "cold" /\ base' = base
    BY <1>8, <2>1 DEF ColdIssues
  <2> QED
    BY <1>1, <2>2 DEF NarrowInv, ViewInv, Homely
<1> QED
  BY <1>3, <1>4, <1>5, <1>6, <1>7, <1>8 DEF PortNext, Building

LEMMA NarrowSafety == PortSpec => []NarrowInv
  BY NarrowInit, NarrowNext, PTL DEF PortSpec

LEMMA NarrowImplies == NarrowInv => FiltersNarrow
<1> SUFFICES ASSUME NarrowInv, Built, view.path = "warm", NEW part \in DOMAIN view.filter,
                    NEW f, f = view.filter, NEW g, g = Without(f, part),
                    NEW wider, wider = Visible(view.user, g, base)
             PROVE  /\ \A s \in view.bundle.scans :
                          s \in Bundle(g, wider, 0).scans \/ Exempt(f, part, s)
                    /\ \A i \in view.bundle.issues :
                          \/ i \in Bundle(g, wider, 0).issues
                          \/ Exempt(f, part, i)
                          \/ f.technologies # {} /\ NormalizedTechnology(i.words) = "UNKNOWN"
  BY DEF FiltersNarrow, Exempt
<1> DEFINE lists == Visible(view.user, f, base)
<1>1. view.user \in Users /\ f \in Filters /\ Homely(base)
  BY DEF NarrowInv, ViewInv, Built
<1>2. PICK n : view.bundle = Bundle(f, lists, n)
  BY DEF NarrowInv, ViewInv, Built
<1>3. part \in FilterParts
  BY <1>1, RequestAssumption
<1>4. Homely(lists) /\ Homely(wider)
  BY <1>1, VisibleIsHomely
<1>5. Within(lists, wider)
  BY <1>1, <1>3, VisibleWidens
<1> HIDE DEF lists
<1>6. ASSUME NEW s \in view.bundle.scans, ~Exempt(f, part, s)
      PROVE  s \in Bundle(g, wider, 0).scans
  <2>1. s \in ShownScans(f, lists)
    BY <1>2, <1>6, BundleShows
  <2>2. s \in ShownScans(g, wider)
    BY <2>1, <1>1, <1>3, <1>4, <1>5, <1>6, ScansStay
  <2> QED
    BY <2>2, BundleShows
<1>7. ASSUME NEW i \in view.bundle.issues, ~Exempt(f, part, i),
             f.technologies = {} \/ NormalizedTechnology(i.words) # "UNKNOWN"
      PROVE  i \in Bundle(g, wider, 0).issues
  <2>1. i \in ShownIssues(f, lists)
    BY <1>2, <1>7, BundleShows
  <2>2. i \in ShownIssues(g, wider)
    BY <2>1, <1>1, <1>3, <1>4, <1>5, <1>7, IssuesStay
  <2> QED
    BY <2>2, BundleShows
<1> QED
  BY <1>6, <1>7

(* _build_bundle over base data: a request without one of its filters shows all that was     *)
(* shown, save what that filter let through on purpose.                                      *)
THEOREM FiltersOnlyNarrow == PortSpec => []FiltersNarrow
  BY NarrowSafety, NarrowImplies, PTL

----------------------------------------------------------------------------
(* Fetched of sources that do not change, lists are whole but for what was lost. *)

HavingIssues(sources) == {s \in sources : \E r \in content.issues : r.source = s}

\* Every list is of this moment.
OfNow(at) == at \in [Reads -> {content}]

\* Two parts of a whole
Splits(whole, part, rest) == part \cup rest = whole /\ part \cap rest = {}

LEMMA NowIsListed ==
    ASSUME ContentInv, NEW at, OfNow(at), NEW s \in Sources, NEW lost
    PROVE  /\ ListedIssues(at, s, lost) \subseteq HeldIn(content, s)
           /\ ListedIssues(at, s, {}) = HeldIn(content, s)
<1> DEFINE ids == IdsOf({a \in Catalog : a.source = s}) \ {}
           listed == UNION {{r \in at[id].issues : r.app = id} : id \in ids}
<1>1. \A c \in {content} : ContentOK(c)
  BY DEF ContentInv
<1>2. ASSUME NEW some, NEW r \in ListedIssues(at, s, some)
      PROVE  r \in HeldIn(content, s)
  <2>1. r.source = s /\ \E c \in {content} : r \in c.issues
    <3>1. PICK F : F = {content}
      OBVIOUS
    <3>2. at \in [Reads -> F] /\ \A c \in F : ContentOK(c)
      BY <1>1, <3>1 DEF OfNow
    <3>3. \A q \in ListedIssues(at, s, some) : q.source = s /\ \E c \in F : q \in c.issues
      BY <3>2, ListedAreHeld
    <3> QED
      BY <1>2, <3>1, <3>3
  <2> QED
    BY <2>1 DEF HeldIn
<1>3. ListedIssues(at, s, {}) = IF listed # {} THEN listed ELSE HeldIn(at[<<"issues", s>>], s)
  BY DEF ListedIssues
<1>4. ASSUME NEW r \in HeldIn(content, s)
      PROVE  r \in listed
  <2>1. r \in content.issues /\ r.source = s
    BY DEF HeldIn
  <2>2. PICK c \in Catalog : r.app = c.id /\ r.source = c.source
    BY <2>1 DEF ContentInv, ContentOK, AtHome
  <2>3. r.app \in ids /\ r.app \in Reads
    BY <2>1, <2>2 DEF IdsOf, Reads
  <2>4. r \in {q \in at[r.app].issues : q.app = r.app}
    BY <2>1, <2>3 DEF OfNow
  <2> QED
    BY <2>3, <2>4
<1>5. at[<<"issues", s>>] = content
  BY DEF Reads, OfNow
<1> HIDE DEF listed
<1>6. ListedIssues(at, s, {}) = HeldIn(content, s)
  BY <1>2, <1>3, <1>4, <1>5
<1> QED
  BY <1>2, <1>6

LEMMA NowIsWhole ==
    ASSUME ContentInv, NEW at, OfNow(at), NEW sources \in SUBSET Sources, NEW lost,
           NEW lists, lists = ListsMerged(at, sources, lost),
           NEW lacking, lacking = MissedIssues(at, sources, lost)
    PROVE  /\ lists.scans = ScansOf(content, sources) /\ lists.apps = AppsOf(content, sources)
           /\ lists.groups = GroupsOf(sources) /\ lists.stats = WholeLists(sources).stats
           /\ Splits(WholeLists(sources).issues, lists.issues, lacking)
           /\ lost = {} => lists.issues = WholeLists(sources).issues
<1> DEFINE whole == WholeLists(sources).issues
<1>1. /\ \A x : x \in lists.issues <=>
                   \E s \in sources : \E r \in ListedIssues(at, s, lost) : x = MappedIssue(r)
      /\ \A x : x \in lists.scans <=> \E s \in sources : x \in ScansOf(at[<<"scans", s>>], {s})
      /\ \A x : x \in lists.apps <=> \E s \in sources : x \in AppsOf(at[<<"apps", s>>], {s})
  <2>1. \A x : x \in lists.issues <=>
                  \E s \in sources : \E r \in ListedIssues(at, s, lost) : x = MappedIssue(r)
    BY MergedIs
  <2>2. \A x : x \in lists.scans <=> \E s \in sources : x \in ScansOf(at[<<"scans", s>>], {s})
    BY MergedIs
  <2>3. \A x : x \in lists.apps <=> \E s \in sources : x \in AppsOf(at[<<"apps", s>>], {s})
    BY MergedIs
  <2> QED
    BY <2>1, <2>2, <2>3
<1>2. \A s \in sources : at[<<"scans", s>>] = content /\ at[<<"apps", s>>] = content
  BY DEF Reads, OfNow
<1>3. lists.scans = ScansOf(content, sources)
  <2>1. \A x : x \in ScansOf(content, sources) <=> \E s \in sources : x \in ScansOf(content, {s})
    BY DEF ScansOf
  <2> QED
    BY <1>1, <1>2, <2>1
<1>4. lists.apps = AppsOf(content, sources)
  <2>1. \A x : x \in AppsOf(content, sources) <=> \E s \in sources : x \in AppsOf(content, {s})
    BY DEF AppsOf
  <2> QED
    BY <1>1, <1>2, <2>1
<1>5. lists.groups = GroupsOf(sources) /\ lists.stats = WholeLists(sources).stats
  <2> DEFINE apps == [s \in sources |-> AppsOf(at[<<"apps", s>>], {s})]
             scans == [s \in sources |-> ScansOf(at[<<"scans", s>>], {s})]
  <2>1. lists.groups = GroupsOf(sources)
        /\ lists.stats = Combined([s \in sources |-> AppStatistics(apps[s], scans[s])])
    BY DEF ListsMerged
  <2>2. [s \in sources |-> AppStatistics(apps[s], scans[s])]
           = [s \in sources |-> AppStatistics(AppsOf(content, {s}), ScansOf(content, {s}))]
    BY <1>2
  <2> HIDE DEF apps, scans
  <2> QED
    BY <2>1, <2>2 DEF WholeLists
<1>6. \A x : x \in whole <=> \E s \in sources : \E r \in HeldIn(content, s) : x = MappedIssue(r)
  <2>1. whole = IssuesOf(content, IdsOf(AppsOf(content, sources)))
    BY DEF WholeLists
  <2>2. ASSUME NEW r \in content.issues
        PROVE  r.app \in IdsOf(AppsOf(content, sources)) <=> r.source \in sources
    <3>1. PICK c \in Catalog : r.app = c.id /\ r.source = c.source
      BY DEF ContentInv, ContentOK, AtHome
    <3>2. \A d \in Catalog : d.id = r.app => d = c
      BY <3>1, ContentsAssumption
    <3> QED
      BY <3>1, <3>2, CountedAppIs DEF IdsOf, AppsOf
  <2> HIDE DEF whole
  <2> QED
    BY <2>1, <2>2 DEF IssuesOf, HeldIn
<1>7. \A x : x \in lacking <=> \E s \in sources :
                 \E r \in HeldIn(content, s) \ ListedIssues(at, s, lost) : x = MappedIssue(r)
  BY DEF MissedIssues
<1> HIDE DEF whole
<1>8. lists.issues \cup lacking = whole
  <2>1. \A s \in sources : ListedIssues(at, s, lost) \subseteq HeldIn(content, s)
    BY NowIsListed
  <2> QED
    BY <1>1, <1>6, <1>7, <2>1
<1>9. lists.issues \cap lacking = {}
  <2> SUFFICES ASSUME NEW x, x \in lists.issues, x \in lacking PROVE FALSE
    OBVIOUS
  <2>1. PICK s \in sources : \E r \in ListedIssues(at, s, lost) : x = MappedIssue(r)
    BY <1>1
  <2>2. PICK r \in ListedIssues(at, s, lost) : x = MappedIssue(r)
    BY <2>1
  <2>3. PICK t \in sources :
           \E q \in HeldIn(content, t) \ ListedIssues(at, t, lost) : x = MappedIssue(q)
    BY <1>7
  <2>4. PICK q \in HeldIn(content, t) \ ListedIssues(at, t, lost) : x = MappedIssue(q)
    BY <2>3
  <2>5. r \in HeldIn(content, s)
    BY NowIsListed
  <2>6. r.id = q.id
    BY <2>2, <2>4 DEF MappedIssue
  <2>7. r = q
    BY <2>4, <2>5, <2>6 DEF HeldIn, ContentInv, ContentOK
  <2>8. s = t
    BY <2>4, <2>5, <2>7 DEF HeldIn
  <2> QED
    BY <2>2, <2>4, <2>7, <2>8
<1>10. lost = {} => lists.issues = whole
  <2> SUFFICES ASSUME lost = {} PROVE lists.issues = whole
    OBVIOUS
  <2>1. \A s \in sources : ListedIssues(at, s, lost) = HeldIn(content, s)
    BY NowIsListed
  <2>2. \A x : x \in lists.issues <=> x \in whole
    BY <1>1, <1>6, <2>1
  <2> QED
    BY <2>2
<1> QED
  BY <1>3, <1>4, <1>5, <1>8, <1>9, <1>10 DEF whole, Splits

LEMMA FetchedIsWhole ==
    ASSUME ContentInv, NEW sources \in SUBSET Sources
    PROVE  /\ WithIssues(Now, sources, {}) = HavingIssues(sources)
           /\ Fetched(sources) = WholeLists(HavingIssues(sources))
<1>1. OfNow(Now)
  BY DEF Now, OfNow
<1>2. WithIssues(Now, sources, {}) = HavingIssues(sources)
  <2>1. \A s \in sources : ListedIssues(Now, s, {}) = HeldIn(content, s)
    BY <1>1, NowIsListed
  <2> QED
    BY <2>1 DEF WithIssues, HavingIssues, HeldIn
<1> DEFINE some == HavingIssues(sources)
           lists == ListsMerged(Now, some, {})
           whole == WholeLists(some)
<1>3. Fetched(sources) = lists
  BY <1>2 DEF Fetched
<1>4. some \in SUBSET Sources
  BY DEF HavingIssues
<1>5. lists = [issues |-> lists.issues, scans |-> lists.scans, apps |-> lists.apps,
               groups |-> lists.groups, stats |-> lists.stats]
  BY DEF ListsMerged
<1>6. whole = [issues |-> whole.issues, scans |-> whole.scans, apps |-> whole.apps,
               groups |-> whole.groups, stats |-> whole.stats]
  BY DEF WholeLists
<1>7. /\ whole.scans = ScansOf(content, some) /\ whole.apps = AppsOf(content, some)
      /\ whole.groups = GroupsOf(some)
  BY DEF WholeLists
<1>8. /\ lists.scans = ScansOf(content, some) /\ lists.apps = AppsOf(content, some)
      /\ lists.groups = GroupsOf(some) /\ lists.stats = WholeLists(some).stats
      /\ lists.issues = WholeLists(some).issues
  <2> HIDE DEF some
  <2> QED
    BY <1>1, <1>4, NowIsWhole
<1>9. whole.issues = WholeLists(some).issues /\ whole.stats = WholeLists(some).stats
  OBVIOUS
<1> HIDE DEF lists, whole
<1>10. lists = whole
  BY <1>5, <1>6, <1>7, <1>8, <1>9
<1> QED
  BY <1>2, <1>3, <1>10 DEF whole

----------------------------------------------------------------------------
(* Warm is cold *)

\* What a scoped request that loses nothing fetches.
ColdApps(user, f) == Permitted(user, AppsOf(content, Selected(f)))

ColdLists(user, f) ==
    [issues |-> Permitted(user, IssuesOf(content, IdsOf({a \in AppsOf(content, Selected(f)) :
                                                   a.id \in AskedFor(f, ColdApps(user, f))}))),
     scans |-> Permitted(user, ScansOf(content, Selected(f))),
     apps |-> ColdApps(user, f),
     groups |-> PermittedGroups(user, GroupsOf(Selected(f))),
     stats |-> None]

\* A scoped bundle is made of four things.
LEMMA BundleOf ==
    ASSUME NEW f, Scoped(f), NEW one, NEW other,
           one.apps = other.apps, one.groups = other.groups, one.scans = other.scans,
           InScopeOf(f, CatalogApps(f, one.apps), one.issues)
              = InScopeOf(f, CatalogApps(f, other.apps), other.issues)
    PROVE  Bundle(f, one, 0) = Bundle(f, other, 0)
<1>1. ~Precomputed(f, one) /\ ~Precomputed(f, other)
  BY DEF Precomputed
<1> QED
  BY <1>1 DEF Bundle

LEMMA SelectedOfMore ==
    ASSUME NEW f, NEW sources, Selected(f) \subseteq sources
    PROVE  /\ OfSources(f, AppsOf(content, sources)) = AppsOf(content, Selected(f))
           /\ OfSources(f, GroupsOf(sources)) = GroupsOf(Selected(f))
           /\ OfSources(f, ScansOf(content, sources)) = ScansOf(content, Selected(f))
<1>1. OfSources(f, AppsOf(content, sources)) = AppsOf(content, Selected(f))
  BY CountedAppIs DEF OfSources, AppsOf
<1>2. OfSources(f, GroupsOf(sources)) = GroupsOf(Selected(f))
  BY DEF OfSources, GroupsOf
<1>3. OfSources(f, ScansOf(content, sources)) = ScansOf(content, Selected(f))
  <2>1. \A raw : MappedScan(raw).source = raw.source
    BY DEF MappedScan
  <2> QED
    BY <2>1 DEF OfSources, ScansOf
<1> QED
  BY <1>1, <1>2, <1>3

LEMMA ScopeIssuesAgree ==
    ASSUME ContentInv, NEW user, NEW f, Scoped(f), NEW sources, Selected(f) \subseteq sources,
           NEW apps
    PROVE  InScopeOf(f, CatalogApps(f, apps),
                     Permitted(user, IssuesOf(content, IdsOf({a \in AppsOf(content, Selected(f)) :
                                                        a.id \in AskedFor(f, apps)}))))
           = InScopeOf(f, CatalogApps(f, apps),
                       Permitted(user, OfSources(f, IssuesOf(content, IdsOf(AppsOf(content, sources))))))
<1> DEFINE asked == AskedFor(f, apps)
           fetched == IssuesOf(content, IdsOf({a \in AppsOf(content, Selected(f)) : a.id \in asked}))
           cached == IssuesOf(content, IdsOf(AppsOf(content, sources)))
<1>1. \A raw : MappedIssue(raw).source = raw.source /\ MappedIssue(raw).app = raw.app
  BY DEF MappedIssue
<1>2. ASSUME NEW raw \in content.issues
      PROVE  (\E a \in AppsOf(content, Selected(f)) : a.id = raw.app)
             <=> raw.source \in Selected(f) /\ (\E a \in AppsOf(content, sources) : a.id = raw.app)
  <2>1. PICK c \in Catalog : raw.app = c.id /\ raw.source = c.source
    BY DEF ContentInv, ContentOK, AtHome
  <2>2. \A d \in Catalog : d.id = raw.app => d = c
    BY <2>1, ContentsAssumption
  <2>3. \A some : (\E a \in AppsOf(content, some) : a.id = raw.app) <=> c.source \in some
    BY <2>1, <2>2, CountedAppIs DEF AppsOf
  <2> QED
    BY <2>1, <2>3
<1>3. ASSUME NEW i, i.app \in asked
      PROVE  i \in fetched <=> i \in OfSources(f, cached)
  <2>1. i \in fetched <=> \E raw \in content.issues :
                             /\ i = MappedIssue(raw) /\ raw.app \in asked
                             /\ \E a \in AppsOf(content, Selected(f)) : a.id = raw.app
    BY DEF IssuesOf, IdsOf
  <2>2. i \in OfSources(f, cached) <=> \E raw \in content.issues :
                             /\ i = MappedIssue(raw) /\ i.source \in Selected(f)
                             /\ \E a \in AppsOf(content, sources) : a.id = raw.app
    BY DEF OfSources, IssuesOf, IdsOf
  <2> QED
    BY <1>1, <1>2, <1>3, <2>1, <2>2
<1> HIDE DEF fetched, cached
<1>4. ASSUME NEW issues
      PROVE  InScopeOf(f, CatalogApps(f, apps), issues) = {i \in issues : i.app \in asked}
  BY DEF InScopeOf, AskedFor
<1>5. {i \in Permitted(user, fetched) : i.app \in asked}
      = {i \in Permitted(user, OfSources(f, cached)) : i.app \in asked}
  BY <1>3 DEF Permitted
<1> QED
  BY <1>4, <1>5 DEF fetched, cached

LEMMA BundleIsCold ==
    ASSUME ContentInv, NEW user, NEW f \in Filters, Scoped(f),
           NEW sources, Selected(f) \subseteq sources
    PROVE  Bundle(f, ColdLists(user, f), 0) = Bundle(f, Visible(user, f, WholeLists(sources)), 0)
<1> DEFINE cold == ColdLists(user, f)
           warm == Visible(user, f, WholeLists(sources))
<1>1. Selected(f) \subseteq sources
  OBVIOUS
<1>2. /\ warm.issues = Permitted(user, OfSources(f, IssuesOf(content, IdsOf(AppsOf(content, sources)))))
      /\ warm.scans = Permitted(user, OfSources(f, ScansOf(content, sources)))
      /\ warm.apps = Permitted(user, OfSources(f, AppsOf(content, sources)))
      /\ warm.groups = PermittedGroups(user, OfSources(f, GroupsOf(sources)))
  BY DEF Visible, WholeLists
<1>3. /\ cold.issues = Permitted(user, IssuesOf(content, IdsOf({a \in AppsOf(content, Selected(f)) :
                                                   a.id \in AskedFor(f, ColdApps(user, f))})))
      /\ cold.scans = Permitted(user, ScansOf(content, Selected(f)))
      /\ cold.apps = ColdApps(user, f)
      /\ cold.groups = PermittedGroups(user, GroupsOf(Selected(f)))
  BY DEF ColdLists
<1> HIDE DEF cold, warm
<1>4. warm.scans = cold.scans /\ warm.apps = cold.apps /\ warm.groups = cold.groups
  BY <1>1, <1>2, <1>3, SelectedOfMore DEF ColdApps
<1>5. InScopeOf(f, CatalogApps(f, cold.apps), cold.issues)
      = InScopeOf(f, CatalogApps(f, warm.apps), warm.issues)
  BY <1>1, <1>2, <1>3, <1>4, ScopeIssuesAgree
<1> QED
  BY <1>4, <1>5, BundleOf DEF warm, cold

LEMMA WarmBundleIsCold ==
    ASSUME ContentInv, NEW user, NEW f \in Filters, Scoped(f),
           HavingIssues(Selected(f)) = Selected(f)
    PROVE  Bundle(f, ColdLists(user, f), 0) = Bundle(f, Visible(user, f, Fetched(Sources)), 0)
<1>1. Selected(f) \subseteq HavingIssues(Sources)
  BY PortfolioAssumption DEF Selected, HavingIssues
<1>2. Fetched(Sources) = WholeLists(HavingIssues(Sources))
  BY FetchedIsWhole
<1> QED
  BY <1>1, <1>2, BundleIsCold

RequestIsCold ==
    \E user, f :
       /\ user = request.user /\ f = request.filter
       /\ request.apps = ColdApps(user, f)
       /\ request.groups = PermittedGroups(user, GroupsOf(Selected(f)))
       /\ request.scans = Permitted(user, ScansOf(content, Selected(f)))

\* A request that lost nothing, and has not been overtaken by a change of a source, has the
\* lists as they are; a view that was built of it keeps what it shows.
RequestInv ==
    request # None =>
       /\ view = None
       /\ Scoped(request.filter) /\ request.filter \in Filters /\ request.user \in Users
       /\ request.at \in Nat /\ request.at <= contentChanges
       /\ request.at = contentChanges =>
             request.apps \subseteq ColdApps(request.user, request.filter)
       /\ request.whole /\ request.at = contentChanges => RequestIsCold

ColdViewInv ==
    view # None /\ view.path = "cold" /\ view.whole =>
       \E user, f :
          /\ user = view.user /\ f = view.filter
          /\ Scoped(f) /\ f \in Filters /\ user \in Users
          /\ view.bundle = Bundle(f, ColdLists(user, f), 0)

\* Of a view whose lists are of one moment it is known which applications and issues it lacks.
Lacks(user, f, seen, lost) ==
    /\ seen.apps \subseteq ColdApps(user, f)
    /\ seen.issues =
          Permitted(user, IssuesOf(content, IdsOf({a \in AppsOf(content, Selected(f)) :
                                                     a.id \in AskedFor(f, seen.apps) \ lost})))

PartViewInv ==
    view # None /\ view.path = "cold" /\ view.missed # None =>
       \E user, f, seen, lost :
          /\ user = view.user /\ f = view.filter
          /\ Scoped(f) /\ f \in Filters /\ user \in Users
          /\ view.bundle = Bundle(f, seen, 0) /\ view.missed = IssuesOf(content, lost)
          /\ Lacks(user, f, seen, lost)

ColdInv ==
    /\ SourcesInv
    /\ contentChanges \in Nat
    /\ RequestInv
    /\ ColdViewInv
    /\ PartViewInv

LEMMA ColdInit == PortInit => ColdInv
<1> SUFFICES ASSUME PortInit PROVE ColdInv
  OBVIOUS
<1>1. request = None /\ view = None /\ contentChanges = 0
  BY DEF PortInit
<1> QED
  BY <1>1, SourcesInit DEF ColdInv, RequestInv, ColdViewInv, PartViewInv

\* What the sources answer depends on the content only.
LEMMA SameContentSameAnswers ==
    ASSUME content' = content
    PROVE  /\ \A S : AppsOf(content, S)' = AppsOf(content, S)
           /\ \A S : ScansOf(content, S)' = ScansOf(content, S)
           /\ \A S : IssuesOf(content, S)' = IssuesOf(content, S)
           /\ ContentInv => ContentInv'
<1>1. \A app : CountedApp(content, app)' = CountedApp(content, app)
  BY DEF CountedApp, HowMany
<1>2. \A S : AppsOf(content, S)' = AppsOf(content, S)
  BY <1>1 DEF AppsOf
<1>3. \A S : ScansOf(content, S)' = ScansOf(content, S)
  BY DEF ScansOf
<1>4. \A S : IssuesOf(content, S)' = IssuesOf(content, S)
  BY DEF IssuesOf
<1>5. ContentInv => ContentInv'
  BY DEF ContentInv, ContentOK
<1> QED
  BY <1>2, <1>3, <1>4, <1>5

LEMMA SameContentSameLists ==
    ASSUME content' = content, NEW user, NEW f
    PROVE  /\ ColdApps(user, f)' = ColdApps(user, f)
           /\ ColdLists(user, f)' = ColdLists(user, f)
<1>1. ColdApps(user, f)' = ColdApps(user, f)
  BY SameContentSameAnswers DEF ColdApps
<1>2. AskedFor(f, ColdApps(user, f))' = AskedFor(f, ColdApps(user, f))
  BY <1>1 DEF AskedFor
<1>3. ColdLists(user, f)' = ColdLists(user, f)
  BY <1>1, <1>2, SameContentSameAnswers DEF ColdLists
<1> QED
  BY <1>1, <1>3

LEMMA ColdNext == ColdInv /\ [PortNext]_portVars => ColdInv'
<1> SUFFICES ASSUME ColdInv, [PortNext]_portVars PROVE ColdInv'
  OBVIOUS
<1>1. content' = content => /\ \A user, f : ColdApps(user, f)' = ColdApps(user, f)
                            /\ \A user, f : ColdLists(user, f)' = ColdLists(user, f)
                            /\ \A S : ScansOf(content, S)' = ScansOf(content, S)
                            /\ \A user, f, seen, lost :
                                  Lacks(user, f, seen, lost) => Lacks(user, f, seen, lost)'
  <2>1. content' = content =>
           /\ \A S : AppsOf(content, S)' = AppsOf(content, S)
           /\ \A S : ScansOf(content, S)' = ScansOf(content, S)
           /\ \A S : IssuesOf(content, S)' = IssuesOf(content, S)
    BY SameContentSameAnswers
  <2>2. content' = content => /\ \A user, f : ColdApps(user, f)' = ColdApps(user, f)
                              /\ \A user, f : ColdLists(user, f)' = ColdLists(user, f)
    BY SameContentSameLists
  <2> QED
    BY <2>1, <2>2 DEF Lacks
<1>2. SourcesInv' /\ ContentInv
  BY SourcesNext DEF ColdInv, SourcesInv
<1>3. content' = content /\ view' = view => ColdViewInv' /\ PartViewInv'
  <2>1. content' = content /\ view' = view => ColdViewInv'
    BY <1>1 DEF ColdInv, ColdViewInv, Bundle
  <2>2. content' = content /\ view' = view => PartViewInv'
    BY <1>1, SameContentSameAnswers DEF ColdInv, PartViewInv, Bundle
  <2> QED
    BY <2>1, <2>2
<1>4. content' = content /\ contentChanges' = contentChanges /\ view' = view /\ request' = request
         => RequestInv'
  <2>1. content' = content /\ request' = request /\ RequestIsCold => RequestIsCold'
    BY <1>1 DEF RequestIsCold, GroupsOf
  <2>2. content' = content /\ request' = request =>
           ColdApps(request.user, request.filter)' = ColdApps(request.user, request.filter)
    BY <1>1
  <2> QED
    BY <2>1, <2>2 DEF ColdInv, RequestInv
<1>5. CASE UNCHANGED portVars \/ StartFetch \/ BaseExpires
  BY <1>2, <1>3, <1>4, <1>5 DEF ColdInv, portVars, StartFetch, BaseExpires
<1>6. ASSUME NEW down \in SUBSET Sources, NEW lost, NEW at, FetchBase(down, lost, at)
      PROVE  ColdInv'
  BY <1>2, <1>3, <1>4, <1>6 DEF ColdInv, FetchBase
<1>7. ASSUME NEW user \in Users, NEW f \in Filters, BuildWarm(user, f)
      PROVE  ColdInv'
  <2>1. PICK answering \in MayAnswer(f) :
           view' = [user |-> user, filter |-> f, path |-> "warm",
                    whole |-> base = Fetched(Sources), missed |-> missed,
                    bundle |-> Bundle(f, Visible(user, f, base), Counted(f, answering))]
    BY <1>7 DEF BuildWarm, Shows
  <2>2. view'.path # "cold"
    BY <2>1
  <2>3. request' = request /\ request = None /\ content' = content /\ contentChanges' = contentChanges
    BY <1>7 DEF BuildWarm
  <2> QED
    BY <1>2, <2>2, <2>3 DEF ColdInv, ColdViewInv, PartViewInv, RequestInv
<1>8. ASSUME NEW user \in Users, NEW f \in Filters, NEW lost \in ListLosses,
             ColdCatalog(user, f, lost)
      PROVE  ColdInv'
  <2>1. /\ view = None /\ view' = view /\ Scoped(f)
        /\ content' = content /\ contentChanges' = contentChanges
    BY <1>8 DEF ColdCatalog
  <2>2. /\ request'.user = user /\ request'.filter = f /\ request'.at = contentChanges
        /\ request'.whole => lost = {}
        /\ request'.apps = Permitted(user, AppsOf(content, Kept(lost, "apps", Selected(f))))
        /\ request'.groups = PermittedGroups(user, GroupsOf(Kept(lost, "groups", Selected(f))))
        /\ request'.scans = Permitted(user, ScansOf(content, Kept(lost, "scans", Selected(f))))
    BY <1>8 DEF ColdCatalog
  <2>3. lost = {} => \A list, S : Kept(lost, list, S) = S
    BY DEF Kept
  <2>4. request'.whole => /\ request'.apps = ColdApps(user, f)'
                          /\ request'.groups = PermittedGroups(user, GroupsOf(Selected(f)))
                          /\ request'.scans = Permitted(user, ScansOf(content, Selected(f))')
    BY <1>1, <2>1, <2>2, <2>3 DEF ColdApps
  <2>5. request'.apps \subseteq ColdApps(user, f)'
    <3>1. AppsOf(content, Kept(lost, "apps", Selected(f))) \subseteq AppsOf(content, Selected(f))
      BY DEF AppsOf, Kept
    <3>2. request'.apps \subseteq ColdApps(user, f)
      BY <2>2, <3>1 DEF ColdApps, Permitted
    <3> QED
      BY <1>1, <2>1, <3>2
  <2>6. request' # None =>
           /\ view' = None
           /\ Scoped(request'.filter) /\ request'.filter \in Filters /\ request'.user \in Users
           /\ request'.at \in Nat /\ request'.at <= contentChanges'
           /\ (ColdApps(request.user, request.filter))' = ColdApps(user, f)'
    BY <2>1, <2>2 DEF ColdInv
  <2>7. request'.whole => RequestIsCold'
    BY <2>2, <2>4 DEF RequestIsCold
  <2>8. RequestInv'
    BY <2>5, <2>6, <2>7 DEF RequestInv
  <2> QED
    BY <1>2, <1>3, <2>1, <2>8 DEF ColdInv
<1>9. ASSUME NEW lostApps \in IssueLosses, ColdIssues(lostApps)
      PROVE  ColdInv'
  <2>1. request # None /\ request' = None /\ content' = content /\ contentChanges' = contentChanges
    BY <1>9 DEF ColdIssues
  <2>2. PICK user, f : user = request.user /\ f = request.filter
    OBVIOUS
  <2>3. Scoped(f) /\ f \in Filters /\ user \in Users
    BY <2>1, <2>2 DEF ColdInv, RequestInv
  <2> DEFINE asked == {a \in AppsOf(content, Selected(f)) :
                          a.id \in AskedFor(f, request.apps) \ lostApps}
             lists == [issues |-> Permitted(user, IssuesOf(content, IdsOf(asked))),
                       scans |-> request.scans, apps |-> request.apps,
                       groups |-> request.groups, stats |-> None]
             steady == request.at = contentChanges
             whole == request.whole /\ lostApps = {} /\ steady
             lacking == IF steady THEN IssuesOf(content, lostApps) ELSE None
  <2>4. Shows(user, f, "cold", lists, whole, lacking)
    BY <1>9, <2>2 DEF ColdIssues
  <2>5. \A answering : Counted(f, answering) = 0
    BY <2>3 DEF Counted
  <2> HIDE DEF lists, whole, lacking
  <2>6. view' = [user |-> user, filter |-> f, path |-> "cold", whole |-> whole,
                 missed |-> lacking, bundle |-> Bundle(f, lists, 0)]
    BY <2>4, <2>5 DEF Shows
  <2>7. /\ view'.user = user /\ view'.filter = f /\ view'.bundle = Bundle(f, lists, 0)
        /\ view'.whole => whole
        /\ view'.missed = lacking
    BY <2>6
  <2>8. whole => lists = ColdLists(user, f)
    <3> SUFFICES ASSUME whole PROVE lists = ColdLists(user, f)
      OBVIOUS
    <3>1. /\ request.apps = ColdApps(user, f)
          /\ request.groups = PermittedGroups(user, GroupsOf(Selected(f)))
          /\ request.scans = Permitted(user, ScansOf(content, Selected(f)))
      BY <2>1, <2>2 DEF ColdInv, RequestInv, RequestIsCold, whole
    <3>2. asked = {a \in AppsOf(content, Selected(f)) : a.id \in AskedFor(f, ColdApps(user, f))}
      BY <3>1 DEF whole
    <3> QED
      BY <3>1, <3>2 DEF lists, ColdLists
  <2>9. view'.whole => view'.bundle = Bundle(f, ColdLists(user, f)', 0)
    BY <1>1, <2>1, <2>7, <2>8
  <2>10. ColdViewInv'
    <3>1. view'.whole => view'.bundle = Bundle(f, ColdLists(user, f), 0)'
      BY <2>9 DEF Bundle
    <3> QED
      BY <2>3, <2>7, <3>1 DEF ColdViewInv
  <2>11. PartViewInv'
    <3> SUFFICES ASSUME view'.missed # None PROVE PartViewInv'
      BY DEF PartViewInv
    <3>1. steady /\ lacking = IssuesOf(content, lostApps)
      BY <2>7 DEF lacking
    <3>2. PICK seen : seen = lists
      OBVIOUS
    <3>3. /\ seen.apps = request.apps
          /\ seen.issues = Permitted(user, IssuesOf(content, IdsOf(asked)))
      BY <3>2 DEF lists
    <3>4. Lacks(user, f, seen, lostApps)'
      <4>1. Lacks(user, f, seen, lostApps)
        BY <2>1, <2>2, <3>1, <3>3 DEF Lacks, ColdInv, RequestInv
      <4> QED
        BY <1>1, <2>1, <4>1
    <3>5. view'.missed = IssuesOf(content, lostApps)'
      BY <2>1, <2>7, <3>1, SameContentSameAnswers
    <3> QED
      BY <2>3, <2>7, <3>2, <3>4, <3>5 DEF PartViewInv
  <2> QED
    BY <1>2, <2>1, <2>10, <2>11 DEF ColdInv, RequestInv
<1>10. CASE SourceChanges
  <2>1. view = None /\ view' = view /\ request' = request /\ contentChanges' = contentChanges + 1
    BY <1>10 DEF SourceChanges, IssueFixed, IssueRemoved, ScanRemoved, Changes
  <2>2. RequestInv'
    BY <2>1 DEF ColdInv, RequestInv
  <2> QED
    BY <1>2, <2>1, <2>2 DEF ColdInv, ColdViewInv, PartViewInv
<1> QED
  BY <1>5, <1>6, <1>7, <1>8, <1>9, <1>10 DEF PortNext, Building

LEMMA ColdSafety == PortSpec => []ColdInv
  BY ColdInit, ColdNext, PTL DEF PortSpec

(* _build_bundle with and without base data: a scoped request whose own fetches lose nothing *)
(* is answered as it would be from fresh base data, for every user, filter and content.      *)
THEOREM PathsAgree == PortSpec => []WarmIsCold
<1>1. ColdInv => WarmIsCold
  <2> SUFFICES ASSUME ColdInv, Built, view.path = "cold", view.whole,
                      WithIssues(Now, Selected(view.filter), {}) = Selected(view.filter)
               PROVE  view.bundle =
                         Bundle(view.filter, Visible(view.user, view.filter, Fetched(Sources)), 0)
    BY DEF WarmIsCold
  <2>1. PICK user, f : /\ user = view.user /\ f = view.filter /\ Scoped(f) /\ f \in Filters
                       /\ user \in Users
                       /\ view.bundle = Bundle(f, ColdLists(user, f), 0)
    BY DEF ColdInv, ColdViewInv, Built
  <2>2. ContentInv /\ HavingIssues(Selected(f)) = Selected(f)
    BY <2>1, FetchedIsWhole, PortfolioAssumption DEF ColdInv, SourcesInv, Selected
  <2>3. Bundle(f, ColdLists(user, f), 0) = Bundle(f, Visible(user, f, Fetched(Sources)), 0)
    BY <2>1, <2>2, WarmBundleIsCold
  <2> QED
    BY <2>1, <2>3
<1> QED
  BY <1>1, ColdSafety, PTL

----------------------------------------------------------------------------
(* The statistics *)

\* Lists in which an application counts the issues that are listed for it.
Tallied(lists) ==
    /\ IsFiniteSet(lists.issues) /\ IsFiniteSet(lists.apps)
    /\ Homely(lists)
    /\ \A a, b \in lists.apps : a.id = b.id => a = b
    /\ \A a \in lists.apps :
          /\ a.total = Cardinality(OfApps(lists.issues, {a.id}))
          /\ a.open + a.new + a.progress = Cardinality(OpenOf(OfApps(lists.issues, {a.id})))
    /\ \A i \in lists.issues :
          \E q \in Originals : q.app = i.app /\ q.group = i.group /\ q.appName = i.appName

LEMMA MappedKeeps ==
    \A raw : LET i == MappedIssue(raw)
             IN  /\ i.id = raw.id /\ i.app = raw.app /\ i.source = raw.source
                 /\ i.group = raw.group /\ i.appName = raw.appName
                 /\ i.status = raw.status
BY DEF MappedIssue

\* Issues are mapped one to one.
LEMMA MappedCount ==
    ASSUME ContentInv, NEW R \in SUBSET content.issues
    PROVE  LET mapped == {MappedIssue(r) : r \in R}
           IN  IsFiniteSet(mapped) /\ Cardinality(mapped) = Cardinality(R)
<1> DEFINE f == [r \in R |-> MappedIssue(r)]
           mapped == {MappedIssue(r) : r \in R}
<1>1. IsFiniteSet(R)
  BY FS_Subset DEF ContentInv, ContentOK
<1>2. \A r, s \in R : f[r] = f[s] => r = s
  <2> SUFFICES ASSUME NEW r \in R, NEW s \in R, MappedIssue(r) = MappedIssue(s) PROVE r = s
    OBVIOUS
  <2>1. r.id = s.id
    BY MappedKeeps
  <2> QED
    BY <2>1 DEF ContentInv, ContentOK
<1>3. DOMAIN f = R /\ {f[r] : r \in R} = mapped
  OBVIOUS
<1> HIDE DEF f
<1>4. IsFiniteSet({f[r] : r \in R}) /\ Cardinality({f[r] : r \in R}) = Cardinality(R)
  BY <1>1, <1>2, <1>3, ImageSize
<1> QED
  BY <1>3, <1>4

\* Three counts of different words are one count of all three.
LEMMA ThreeWords ==
    ASSUME NEW S, IsFiniteSet(S)
    PROVE  Cardinality({r \in S : r.status = "open"}) + Cardinality({r \in S : r.status = "new"})
              + Cardinality({r \in S : r.status = "inprogress"})
           = Cardinality({r \in S : r.status \in OpenWords})
<1> DEFINE all == {r \in S : r.status \in OpenWords}
           open == {r \in S : r.status = "open"}
           new == {r \in S : r.status = "new"}
           progress == {r \in S : r.status = "inprogress"}
<1>1. IsFiniteSet(all)
  BY PartSize
<1>2. /\ open \in SUBSET all /\ new \in SUBSET (all \ open) /\ progress = (all \ open) \ new
  BY DEF OpenWords
<1> HIDE DEF all, open, new, progress
<1>3. IsFiniteSet(all \ open)
  BY <1>1, PartSize
<1>4. Cardinality(open) + Cardinality(all \ open) = Cardinality(all)
  BY <1>1, <1>2, PartSize
<1>5. Cardinality(new) + Cardinality((all \ open) \ new) = Cardinality(all \ open)
  BY <1>2, <1>3, PartSize
<1>6. /\ Cardinality(open) \in Nat /\ Cardinality(new) \in Nat /\ Cardinality(progress) \in Nat
      /\ Cardinality(all) \in Nat /\ Cardinality(all \ open) \in Nat
  BY <1>1, <1>2, <1>3, PartSize
<1>7. Cardinality(open) + Cardinality(new) + Cardinality(progress) = Cardinality(all)
  BY <1>2, <1>4, <1>5, <1>6
<1> QED
  BY <1>7 DEF all, open, new, progress

LEMMA ListsAreTallied ==
    ASSUME ContentInv, NEW sources
    PROVE  Tallied(WholeLists(sources))
<1> DEFINE lists == WholeLists(sources)
<1>1. lists.issues = IssuesOf(content, IdsOf(AppsOf(content, sources))) /\ lists.apps = AppsOf(content, sources)
  BY DEF WholeLists
<1>2. Homely(lists)
  BY ListsAreHomely
<1> HIDE DEF lists
<1>3. IsFiniteSet(lists.issues)
  <2> DEFINE R == {r \in content.issues : r.app \in IdsOf(AppsOf(content, sources))}
  <2>1. R \in SUBSET content.issues
    OBVIOUS
  <2>2. lists.issues = {MappedIssue(r) : r \in R}
    BY <1>1 DEF IssuesOf
  <2> HIDE DEF R
  <2> QED
    BY <2>1, <2>2, MappedCount
<1>4. IsFiniteSet(lists.apps)
  <2> DEFINE some == {a \in Catalog : a.source \in sources}
             f == [a \in some |-> CountedApp(content, a)]
  <2>1. IsFiniteSet(some)
    BY ContentsAssumption, FS_Subset
  <2>2. lists.apps = {f[a] : a \in some}
    BY <1>1 DEF AppsOf
  <2>3. DOMAIN f = some
    OBVIOUS
  <2> HIDE DEF some, f
  <2> QED
    BY <2>1, <2>2, <2>3, ImageSize
<1>5. ASSUME NEW a \in lists.apps
      PROVE  /\ a.total = Cardinality(OfApps(lists.issues, {a.id}))
             /\ a.open + a.new + a.progress = Cardinality(OpenOf(OfApps(lists.issues, {a.id})))
  <2>1. PICK c \in Catalog : c.source \in sources /\ a = CountedApp(content, c)
    BY <1>1 DEF AppsOf
  <2> DEFINE mine == {r \in content.issues : r.app = c.id}
             opened == {r \in mine : r.status \in OpenWords}
  <2>2. /\ a.id = c.id /\ a.total = Cardinality(mine)
        /\ a.open = Cardinality({r \in mine : r.status = "open"})
        /\ a.new = Cardinality({r \in mine : r.status = "new"})
        /\ a.progress = Cardinality({r \in mine : r.status = "inprogress"})
    BY <2>1 DEF CountedApp, HowMany
  <2>3. mine \in SUBSET content.issues /\ opened \in SUBSET content.issues
    OBVIOUS
  <2>4. c.id \in IdsOf(AppsOf(content, sources))
    BY <1>1, <2>1, <2>2 DEF IdsOf
  <2>5. OfApps(lists.issues, {a.id}) = {MappedIssue(r) : r \in mine}
    BY <1>1, <2>2, <2>4, MappedKeeps DEF OfApps, IssuesOf
  <2>6. OpenOf(OfApps(lists.issues, {a.id})) = {MappedIssue(r) : r \in opened}
    BY <2>5, MappedKeeps DEF OpenOf
  <2>7. IsFiniteSet(mine)
    BY FS_Subset DEF ContentInv, ContentOK
  <2>8. a.open + a.new + a.progress = Cardinality(opened)
    <3> HIDE DEF mine
    <3> QED
      BY <2>2, <2>7, ThreeWords
  <2> HIDE DEF mine, opened
  <2> QED
    BY <2>2, <2>3, <2>5, <2>6, <2>8, MappedCount
<1>6. ASSUME NEW i \in lists.issues
      PROVE  \E q \in Originals : q.app = i.app /\ q.group = i.group /\ q.appName = i.appName
  <2>1. PICK raw \in content.issues : i = MappedIssue(raw)
    BY <1>1 DEF IssuesOf
  <2> QED
    BY <2>1, MappedKeeps DEF ContentInv, ContentOK
<1>7. \A a, b \in lists.apps : a.id = b.id => a = b
  BY <1>1, CountedAppIs, ContentsAssumption DEF AppsOf
<1> QED
  BY <1>2, <1>3, <1>4, <1>5, <1>6, <1>7 DEF Tallied, lists

\* The sums over applications count their issues.
LEMMA AppsAddUp ==
    ASSUME NEW lists, Tallied(lists), NEW apps \in SUBSET lists.apps, NEW scans
    PROVE  /\ AppStatistics(apps, scans).total = Cardinality(OfApps(lists.issues, IdsOf(apps)))
           /\ AppStatistics(apps, scans).active
                 = Cardinality(OpenOf(OfApps(lists.issues, IdsOf(apps))))
<1> DEFINE mine == [a \in apps |-> OfApps(lists.issues, {a.id})]
           opened == [a \in apps |-> OpenOf(OfApps(lists.issues, {a.id}))]
<1>1. IsFiniteSet(apps) /\ IsFiniteSet(lists.issues)
  BY FS_Subset DEF Tallied
<1>2. \A a, b \in apps : a.id = b.id => a = b
  BY DEF Tallied
<1>3. mine \in [apps -> SUBSET lists.issues] /\ opened \in [apps -> SUBSET lists.issues]
  BY DEF OfApps, OpenOf
<1>4. \A a, b \in apps : a # b => mine[a] \cap mine[b] = {} /\ opened[a] \cap opened[b] = {}
  BY <1>2 DEF OfApps, OpenOf
<1>5. /\ UNION {mine[a] : a \in apps} = OfApps(lists.issues, IdsOf(apps))
      /\ UNION {opened[a] : a \in apps} = OpenOf(OfApps(lists.issues, IdsOf(apps)))
  BY DEF OfApps, OpenOf, IdsOf
<1>6. /\ [a \in apps |-> a.total] = [a \in apps |-> Cardinality(mine[a])]
      /\ [a \in apps |-> a.open + a.new + a.progress] = [a \in apps |-> Cardinality(opened[a])]
  BY DEF Tallied
<1>7. /\ AppStatistics(apps, scans).total = SumFunction([a \in apps |-> a.total])
      /\ AppStatistics(apps, scans).active
            = SumFunction([a \in apps |-> a.open + a.new + a.progress])
  BY DEF AppStatistics
<1> HIDE DEF mine, opened
<1>8. /\ SumFunction([a \in apps |-> Cardinality(mine[a])])
            = Cardinality(UNION {mine[a] : a \in apps})
      /\ SumFunction([a \in apps |-> Cardinality(opened[a])])
            = Cardinality(UNION {opened[a] : a \in apps})
  BY <1>1, <1>3, <1>4, SumOfParts
<1> QED
  BY <1>5, <1>6, <1>7, <1>8

Rest(issues, lost) == issues \ lost

\* What a scoped request sees of lists of which these issues are lost
SeesScope(user, f, all, seen, lost, b) ==
    /\ Tallied(all) /\ Scoped(f) /\ ~OnData(f)
    /\ seen.apps \subseteq Permitted(user, OfSources(f, all.apps))
    /\ seen.issues \subseteq all.issues \ lost
    /\ \A i \in Permitted(user, OfSources(f, all.issues)) \ lost :
          i.app \in ScopeOf(f, seen) => i \in seen.issues
    /\ f.apps \subseteq IdsOf(b.apps) /\ Attributed(user, f, ScopedApps(f, b.apps))

\* A scope that selects only applications of its own has all issues of these but for what
\* was lost: what an issue says of its application, it says as the catalog does.
LEMMA ScopeIsWhole ==
    ASSUME NEW user \in Users, NEW f \in Filters, NEW all, NEW seen, NEW lost,
           NEW n, NEW b, b = Bundle(f, seen, n), SeesScope(user, f, all, seen, lost, b)
    PROVE  /\ b.apps \subseteq all.apps /\ b.summaryApps = b.apps
           /\ b.issues = OfApps(Rest(all.issues, lost), IdsOf(b.apps))
<1>0. /\ Tallied(all) /\ Scoped(f) /\ ~OnData(f)
      /\ seen.apps \subseteq Permitted(user, OfSources(f, all.apps))
      /\ seen.issues \subseteq all.issues \ lost
      /\ \A i \in Permitted(user, OfSources(f, all.issues)) \ lost :
            i.app \in ScopeOf(f, seen) => i \in seen.issues
      /\ f.apps \subseteq IdsOf(b.apps) /\ Attributed(user, f, ScopedApps(f, b.apps))
  BY DEF SeesScope
<1> USE <1>0
<1> DEFINE scope == ScopedApps(f, CatalogApps(f, seen.apps))
<1>1. scope = ScopeOf(f, seen)
  BY DEF ScopeOf
<1>2. b.apps = CatalogApps(f, seen.apps) /\ b.summaryApps = b.apps
  BY DEF Bundle, Effective
<1>3. scope = IdsOf(b.apps)
  BY <1>2 DEF ScopedApps
<1>4. b.issues = {i \in seen.issues : i.app \in scope /\ InScope(i, f.groups, scope, f.names)}
  <2>1. b.issues = ShownIssues(f, seen)
    BY BundleShows
  <2>2. /\ f.technologies = {} /\ f.vulnerabilities = {}
        /\ f.scanTypes \cup f.scanStatuses = {} /\ f.from = NoDate /\ f.to = NoDate
    BY DEF OnData
  <2>3. InScopeOf(f, CatalogApps(f, seen.apps), seen.issues) = {i \in seen.issues : i.app \in scope}
    BY DEF InScopeOf
  <2>4. ShownIssues(f, seen) =
           FilteredIssues(seen.scans, {i \in seen.issues : i.app \in scope}, f, scope)
    BY <2>2, <2>3 DEF ShownIssues, ScopeOf, OfDimensions
  <2>5. \A issues : FilteredIssues(seen.scans, issues, f, scope)
                       = {i \in issues : InScope(i, f.groups, scope, f.names)}
    BY <2>2 DEF FilteredIssues, InPeriod
  <2> QED
    BY <2>1, <2>4, <2>5
<1> HIDE DEF scope
<1>5. b.apps \in SUBSET all.apps
  BY <1>2 DEF CatalogApps, Permitted, OfSources
<1>6. ASSUME NEW i \in all.issues \ lost, i.app \in scope
      PROVE  i \in seen.issues /\ InScope(i, f.groups, scope, f.names)
  <2>1. PICK a \in b.apps : a.id = i.app
    BY <1>3, <1>6 DEF IdsOf
  <2>2. /\ a.source = i.source /\ i.group \in {a.group, Missing}
        /\ i.appName \in {a.name, Missing}
    <3>1. PICK c \in all.apps : /\ c.id = i.app /\ c.source = i.source
                                  /\ i.group \in {c.group, Missing}
                                  /\ i.appName \in {c.name, Missing}
      BY DEF Tallied, Homely
    <3> QED
      BY <1>5, <2>1, <3>1 DEF Tallied
  <2>3. /\ a.source \in Selected(f)
        /\ user.admin \/ a.group \in user.groups
        /\ f.groups = {} \/ a.group \in f.groups
        /\ f.names = {} \/ a.name \in f.names
    BY <1>2 DEF CatalogApps, Permitted, OfSources
  <2>4. PICK q \in Originals : q.app = i.app /\ q.group = i.group /\ q.appName = i.appName
    BY DEF Tallied
  <2>5. q \in Possible(ScopedApps(f, b.apps))
    BY <1>2, <1>6, <2>4 DEF Possible, Originals, scope
  <2>6. (user.admin \/ i.group # Missing) /\ (f.names = {} \/ i.appName # Missing)
    BY <2>4, <2>5 DEF Attributed
  <2>7. i \in seen.issues
    <3>1. user.admin \/ i.group \in user.groups
      BY <2>2, <2>3, <2>6
    <3>2. i \in Permitted(user, OfSources(f, all.issues)) \ lost
      BY <2>2, <2>3, <3>1 DEF OfSources, Permitted
    <3> QED
      BY <1>1, <1>6, <3>2
  <2>8. InScope(i, f.groups, scope, f.names)
    BY <1>6, <2>2, <2>3, <2>6 DEF InScope, InGroups
  <2> QED
    BY <2>7, <2>8
<1>7. b.issues = OfApps(all.issues \ lost, scope)
  BY <1>4, <1>6 DEF OfApps
<1> QED
  BY <1>2, <1>3, <1>5, <1>7 DEF Rest

\* Issues that are active and those that are not
LEMMA ActiveOrResolved ==
    ASSUME NEW issues, IsFiniteSet(issues)
    PROVE  /\ HowMany(issues, IsActive) \in Nat
           /\ HowMany(issues, LAMBDA i : ~IsActive(i)) \in Nat
           /\ HowMany(issues, IsActive) + HowMany(issues, LAMBDA i : ~IsActive(i))
                 = Cardinality(issues)
           /\ Cardinality(OpenOf(issues))
                 = HowMany(issues, LAMBDA i : i.status \in {"open", "new", "inprogress"})
<1> DEFINE active == {i \in issues : IsActive(i)}
<1>1. active \in SUBSET issues /\ issues \ active = {i \in issues : ~IsActive(i)}
  OBVIOUS
<1> HIDE DEF active
<1>2. /\ Cardinality(active) \in Nat /\ Cardinality(issues \ active) \in Nat
      /\ Cardinality(active) + Cardinality(issues \ active) = Cardinality(issues)
  BY <1>1, PartSize
<1> QED
  BY <1>1, <1>2 DEF HowMany, active, OpenOf, OpenWords

LEMMA MaxOfTwo ==
    ASSUME NEW a \in Int, NEW b \in Int
    PROVE  Max({a, b}) = IF a >= b THEN a ELSE b
BY DEF Max

\* Two parts of a set of issues
LEMMA PartsAddUp ==
    ASSUME NEW all, IsFiniteSet(all), NEW one, NEW other, Splits(all, one, other)
    PROVE  /\ IsFiniteSet(one) /\ IsFiniteSet(other)
           /\ Cardinality(one) \in Nat /\ Cardinality(other) \in Nat
           /\ Cardinality(all) = Cardinality(one) + Cardinality(other)
           /\ Cardinality(OpenOf(all)) = Cardinality(OpenOf(one)) + Cardinality(OpenOf(other))
<1>1. one \in SUBSET all /\ other = all \ one
  BY DEF Splits
<1>2. /\ OpenOf(one) \in SUBSET OpenOf(all) /\ OpenOf(other) = OpenOf(all) \ OpenOf(one)
      /\ OpenOf(all) \in SUBSET all
  BY <1>1 DEF OpenOf
<1>3. IsFiniteSet(OpenOf(all))
  BY <1>2, FS_Subset
<1>4. /\ IsFiniteSet(one) /\ IsFiniteSet(other)
      /\ Cardinality(one) \in Nat /\ Cardinality(other) \in Nat
      /\ Cardinality(all) = Cardinality(one) + Cardinality(other)
  BY <1>1, PartSize, FS_Subset
<1>5. Cardinality(OpenOf(all)) = Cardinality(OpenOf(one)) + Cardinality(OpenOf(other))
  BY <1>2, <1>3, PartSize
<1> QED
  BY <1>4, <1>5

\* The applications of a bundle count what is listed and the unlisted, and the Count API counts
\* so many more as resolved.
LEMMA CountsGiveAgreement ==
    ASSUME NEW f, ~OnData(f), NEW n \in Nat, NEW moved \in Nat, NEW b,
           b.statistics = Statistics(f, b.scans, b.issues, b.appStats, n), NEW unlisted, NEW all, IsFiniteSet(all),
           Splits(all, b.issues, unlisted),
           b.appStats.total = Cardinality(all),
           b.appStats.active = Cardinality(OpenOf(all)),
           ~Scoped(f) => n <= Cardinality(ResolvedOf(b.issues)) + moved
    PROVE  StatisticsSay(b, unlisted, moved)
<1> DEFINE listed == Cardinality(ResolvedOf(b.issues))
           open == Cardinality(ActiveOf(b.issues))
           more == Cardinality(unlisted)
           stats == b.statistics
<1>1. stats = Statistics(f, b.scans, b.issues, b.appStats, n)
  OBVIOUS
<1>2. /\ stats.total = b.appStats.total
      /\ stats.resolved = IF Scoped(f) THEN listed ELSE Max({listed, n})
      /\ stats.active = Max({0, stats.total - stats.resolved})
  BY <1>1 DEF Statistics, HowMany, ResolvedOf
<1>3. /\ IsFiniteSet(b.issues) /\ more \in Nat /\ Cardinality(b.issues) \in Nat
      /\ b.appStats.total = Cardinality(b.issues) + more
      /\ b.appStats.active = Cardinality(OpenOf(b.issues)) + Cardinality(OpenOf(unlisted))
  BY PartsAddUp
<1>4. listed \in Nat /\ open \in Nat /\ open + listed = Cardinality(b.issues)
  BY <1>3, ActiveOrResolved DEF HowMany, ActiveOf, ResolvedOf
<1>5. ~Scoped(f) => n <= listed + moved
  OBVIOUS
<1> HIDE DEF listed, open, more, stats
<1>6. stats.resolved \in listed .. (listed + moved)
  BY <1>2, <1>4, <1>5, MaxOfTwo
<1>7. stats.total = open + listed + more
  BY <1>2, <1>3, <1>4
<1>8. stats.total - stats.resolved \in (open + more - moved) .. (open + more)
  BY <1>3, <1>4, <1>6, <1>7
<1>9. stats.active \in (open + more - moved) .. (open + more)
  <2>1. PICK d \in Int : d = stats.total - stats.resolved
    BY <1>3, <1>4, <1>6, <1>7
  <2>2. d \in (open + more - moved) .. (open + more) /\ open + more >= 0
    BY <1>3, <1>4, <1>8, <2>1
  <2>3. stats.active = Max({0, d})
    BY <1>2, <2>1
  <2>4. Max({0, d}) = IF d >= 0 THEN d ELSE 0
    BY <2>1, MaxOfTwo
  <2>5. open + more - moved <= open + more /\ open + more - moved \in Int
    BY <1>3, <1>4
  <2> QED
    BY <2>2, <2>3, <2>4, <2>5, <1>3, <1>4
<1>10. stats.total = Cardinality(b.issues) + more
  BY <1>2, <1>3
<1> QED
  BY <1>3, <1>4, <1>6, <1>9, <1>10 DEF StatisticsSay, listed, open, more, stats

LEMMA ScopedAgreement ==
    ASSUME NEW user \in Users, NEW f \in Filters, NEW all, NEW seen, NEW lost,
           NEW n \in Nat, NEW b, b = Bundle(f, seen, n), SeesScope(user, f, all, seen, lost, b),
           OfApps(lost, IdsOf(all.apps)) \subseteq all.issues
    PROVE  StatisticsSay(b, OfApps(lost, IdsOf(b.apps)), 0)
<1>0. Tallied(all) /\ Scoped(f) /\ ~OnData(f)
  BY DEF SeesScope
<1> USE <1>0
<1> DEFINE mine == OfApps(all.issues, IdsOf(b.apps))
           unlisted == OfApps(lost, IdsOf(b.apps))
<1>1. /\ b.apps \subseteq all.apps /\ b.summaryApps = b.apps
      /\ b.issues = OfApps(Rest(all.issues, lost), IdsOf(b.apps))
  BY ScopeIsWhole
<1>2. b.appStats = AppStatistics(b.apps, b.scans)
  <2>1. ~Precomputed(f, seen)
    BY DEF Precomputed
  <2>2. b.appStats = AppStatistics(b.summaryApps, b.scans)
    BY <2>1 DEF Bundle
  <2> QED
    BY <1>1, <2>2
<1>3. /\ b.appStats.total = Cardinality(mine)
      /\ b.appStats.active = Cardinality(OpenOf(mine))
  BY <1>1, <1>2, AppsAddUp
<1>4. IsFiniteSet(mine)
  BY FS_Subset DEF Tallied, OfApps
<1>5. Splits(mine, b.issues, unlisted)
  <2>1. unlisted \subseteq all.issues
    BY <1>1 DEF OfApps, IdsOf
  <2> QED
    BY <1>1, <2>1 DEF OfApps, Rest, Splits
<1> HIDE DEF mine, unlisted
<1>6. b.statistics = Statistics(f, b.scans, b.issues, b.appStats, n)
  BY DEF Bundle
<1>7. StatisticsSay(b, unlisted, 0)
  BY <1>3, <1>4, <1>5, <1>6, CountsGiveAgreement
<1> QED
  BY <1>7 DEF unlisted

\* The statistics that were counted source by source are those of all sources.
LEMMA SourcesAddUp ==
    ASSUME ContentInv, NEW sources, IsFiniteSet(sources),
           NEW lists, lists = WholeLists(sources)
    PROVE  /\ lists.stats.total = Cardinality(lists.issues)
           /\ lists.stats.active = Cardinality(OpenOf(lists.issues))
<1> DEFINE mine == [s \in sources |-> OfApps(lists.issues, IdsOf(AppsOf(content, {s})))]
           opened == [s \in sources |-> OpenOf(mine[s])]
           stats == [s \in sources |-> AppStatistics(AppsOf(content, {s}), ScansOf(content, {s}))]
<1>1. Tallied(lists) /\ lists.apps = AppsOf(content, sources)
  BY ListsAreTallied DEF WholeLists
<1>2. IsFiniteSet(lists.issues)
  BY <1>1 DEF Tallied
<1>3. \A s \in sources : AppsOf(content, {s}) \subseteq lists.apps
  BY <1>1 DEF AppsOf
<1>4. /\ lists.stats.total = SumFunction([s \in sources |-> stats[s].total])
      /\ lists.stats.active = SumFunction([s \in sources |-> stats[s].active])
  <2>1. lists.stats = Combined(stats)
    BY DEF WholeLists
  <2>2. DOMAIN stats = sources
    OBVIOUS
  <2> HIDE DEF stats
  <2> QED
    BY <2>1, <2>2 DEF Combined
<1>5. ASSUME NEW s \in sources
      PROVE  stats[s].total = Cardinality(mine[s]) /\ stats[s].active = Cardinality(opened[s])
  <2>1. AppsOf(content, {s}) \in SUBSET lists.apps
    BY <1>3
  <2>2. stats[s] = AppStatistics(AppsOf(content, {s}), ScansOf(content, {s}))
    OBVIOUS
  <2>3. mine[s] = OfApps(lists.issues, IdsOf(AppsOf(content, {s}))) /\ opened[s] = OpenOf(mine[s])
    OBVIOUS
  <2> HIDE DEF stats, mine, opened
  <2> QED
    BY <1>1, <2>1, <2>2, <2>3, AppsAddUp
<1>6. mine \in [sources -> SUBSET lists.issues] /\ opened \in [sources -> SUBSET lists.issues]
  BY DEF OfApps, OpenOf
<1>7. ASSUME NEW s \in sources, NEW i
      PROVE  /\ i \in mine[s] <=> i \in lists.issues /\ \E a \in AppsOf(content, {s}) : a.id = i.app
             /\ i \in opened[s] <=> i \in mine[s] /\ i.status \in OpenWords
  BY DEF OfApps, OpenOf, IdsOf
<1>8. ASSUME NEW s \in sources, NEW t \in sources, s # t
      PROVE  mine[s] \cap mine[t] = {} /\ opened[s] \cap opened[t] = {}
  <2>1. ASSUME NEW i, i \in mine[s], i \in mine[t] PROVE FALSE
    <3> HIDE DEF mine, opened
    <3>1. PICK a \in AppsOf(content, {s}) : a.id = i.app
      BY <1>7, <2>1
    <3>2. PICK c \in AppsOf(content, {t}) : c.id = i.app
      BY <1>7, <2>1
    <3>3. a = c
      BY <1>1, <1>3, <3>1, <3>2 DEF Tallied
    <3>4. a.source = s /\ c.source = t
      BY CountedAppIs DEF AppsOf
    <3> QED
      BY <1>8, <3>3, <3>4
  <2> HIDE DEF mine, opened
  <2> QED
    BY <1>7, <2>1
<1>9. /\ UNION {mine[s] : s \in sources} = lists.issues
      /\ UNION {opened[s] : s \in sources} = OpenOf(lists.issues)
  <2>1. ASSUME NEW i \in lists.issues
        PROVE  \E s \in sources : i \in mine[s]
    <3>1. PICK a \in lists.apps : a.id = i.app
      BY <1>1 DEF Tallied, Homely
    <3>2. PICK c \in Catalog : c.source \in sources /\ a = CountedApp(content, c)
      BY <1>1 DEF AppsOf
    <3>3. a \in AppsOf(content, {c.source})
      BY <3>2 DEF AppsOf
    <3> HIDE DEF mine
    <3> QED
      BY <1>7, <3>1, <3>2, <3>3
  <2> HIDE DEF mine, opened
  <2>2. \A i : i \in UNION {mine[s] : s \in sources} <=> \E s \in sources : i \in mine[s]
    OBVIOUS
  <2>3. \A i : i \in UNION {opened[s] : s \in sources} <=> \E s \in sources : i \in opened[s]
    OBVIOUS
  <2>4. \A i : i \in UNION {mine[s] : s \in sources} <=> i \in lists.issues
    BY <1>7, <2>1, <2>2
  <2>5. \A i : i \in UNION {opened[s] : s \in sources} <=> i \in OpenOf(lists.issues)
    BY <1>7, <2>1, <2>3 DEF OpenOf
  <2> QED
    BY <2>4, <2>5
<1>10. /\ [s \in sources |-> stats[s].total] = [s \in sources |-> Cardinality(mine[s])]
       /\ [s \in sources |-> stats[s].active] = [s \in sources |-> Cardinality(opened[s])]
  <2> HIDE DEF stats, mine, opened
  <2> QED
    BY <1>5
<1> HIDE DEF stats, mine, opened
<1>11. SumFunction([s \in sources |-> Cardinality(mine[s])])
          = Cardinality(UNION {mine[s] : s \in sources})
  BY <1>2, <1>6, <1>8, SumOfParts
<1>12. SumFunction([s \in sources |-> Cardinality(opened[s])])
          = Cardinality(UNION {opened[s] : s \in sources})
  BY <1>2, <1>6, <1>8, SumOfParts
<1> QED
  BY <1>4, <1>9, <1>10, <1>11, <1>12

\* Only sources with issues have a part in complete base data, and it has all issues.
LEMMA AllIssuesFetched ==
    ASSUME ContentInv
    PROVE  /\ Fetched(Sources).issues = {MappedIssue(r) : r \in content.issues}
           /\ Fetched(Sources).apps = AppsOf(content, HavingIssues(Sources))
<1>1. Fetched(Sources) = WholeLists(HavingIssues(Sources))
  BY FetchedIsWhole
<1>2. ASSUME NEW r \in content.issues
      PROVE  r.app \in IdsOf(AppsOf(content, HavingIssues(Sources)))
  <2>1. PICK c \in Catalog : r.app = c.id /\ r.source = c.source
    BY DEF ContentInv, ContentOK, AtHome
  <2>2. c.source \in HavingIssues(Sources)
    BY <2>1, PortfolioAssumption DEF HavingIssues
  <2>3. CountedApp(content, c) \in AppsOf(content, HavingIssues(Sources))
    BY <2>2 DEF AppsOf
  <2> QED
    BY <2>1, <2>3, CountedAppIs DEF IdsOf
<1>3. Fetched(Sources).issues = IssuesOf(content, IdsOf(AppsOf(content, HavingIssues(Sources))))
  BY <1>1 DEF WholeLists
<1>4. Fetched(Sources).apps = AppsOf(content, HavingIssues(Sources))
  BY <1>1 DEF WholeLists
<1> QED
  BY <1>2, <1>3, <1>4 DEF IssuesOf

\* The issues that the applications of these lists count, of which some are not listed
Completes(all, lists, lacking) ==
    /\ Tallied(all) /\ all.apps = lists.apps
    /\ lists.issues \cup lacking = all.issues /\ lists.issues \cap lacking = {}
    /\ lists.stats.total = Cardinality(all.issues)
    /\ lists.stats.active = Cardinality(OpenOf(all.issues))

\* Base data that was fetched while the sources did not change lacks what was lost.
LEMMA FetchCompletes ==
    ASSUME ContentInv, NEW at, OfNow(at), NEW others, others \subseteq Sources, NEW lost,
           NEW sources, sources = WithIssues(at, others, lost)
    PROVE  Completes(WholeLists(sources), ListsMerged(at, sources, lost),
                     MissedIssues(at, sources, lost))
<1> DEFINE lists == ListsMerged(at, sources, lost)
           lacking == MissedIssues(at, sources, lost)
           all == WholeLists(sources)
<1>1. sources \in SUBSET Sources
  BY DEF WithIssues
<1>2. IsFiniteSet(sources)
  <2> DEFINE f == [r \in content.issues |-> r.source]
             S == {f[r] : r \in content.issues}
  <2>1. DOMAIN f = content.issues /\ IsFiniteSet(content.issues)
    BY DEF ContentInv, ContentOK
  <2>2. ASSUME NEW s \in sources PROVE s \in S
    <3>1. s \in Sources /\ ListedIssues(at, s, lost) # {}
      BY DEF WithIssues
    <3>2. ListedIssues(at, s, lost) \subseteq HeldIn(content, s)
      BY <3>1, NowIsListed
    <3> QED
      BY <3>1, <3>2 DEF HeldIn
  <2> HIDE DEF f
  <2>3. IsFiniteSet(S)
    BY <2>1, ImageSize
  <2> QED
    BY <2>2, <2>3, FS_Subset
<1>3. /\ lists.apps = AppsOf(content, sources) /\ lists.stats = all.stats
      /\ lists.issues \cup lacking = all.issues /\ lists.issues \cap lacking = {}
  <2>0. lists = ListsMerged(at, sources, lost) /\ lacking = MissedIssues(at, sources, lost)
    OBVIOUS
  <2>a. all.issues = WholeLists(sources).issues /\ all.stats = WholeLists(sources).stats
    OBVIOUS
  <2> HIDE DEF lists, lacking, all
  <2>1. lists.apps = AppsOf(content, sources)
    BY <1>1, <2>0, NowIsWhole
  <2>2. lists.stats = all.stats
    BY <1>1, <2>0, <2>a, NowIsWhole
  <2>3. Splits(all.issues, lists.issues, lacking)
    BY <1>1, <2>0, <2>a, NowIsWhole
  <2> QED
    BY <2>1, <2>2, <2>3 DEF Splits
<1>4. all.apps = AppsOf(content, sources)
  BY DEF WholeLists
<1>5. Tallied(all)
  BY ListsAreTallied
<1>6. /\ all.stats.total = Cardinality(all.issues)
      /\ all.stats.active = Cardinality(OpenOf(all.issues))
  BY <1>2, SourcesAddUp
<1> HIDE DEF lists, lacking, all
<1>7. Completes(all, lists, lacking)
  BY <1>3, <1>4, <1>5, <1>6 DEF Completes
<1> QED
  BY <1>7 DEF lists, lacking, all

\* What the Count API counts as fixed is listed as resolved or has been fixed elsewhere.
LEMMA CountedAreListed ==
    ASSUME ContentInv, NEW f, NEW answering \in SUBSET Selected(f), NEW b, IsFiniteSet(b.issues)
    PROVE  /\ Cardinality(FixedElsewhere(f, b)) \in Nat
           /\ Counted(f, answering) \in Nat
           /\ Counted(f, answering) <= Cardinality(ResolvedOf(b.issues))
                                          + Cardinality(FixedElsewhere(f, b))
<1> DEFINE fixed == {r \in content.issues : r.status = "fixed" /\ r.source \in answering}
           resolved == {i \in b.issues : ~IsActive(i)}
           elsewhere == FixedElsewhere(f, b)
           away == fixed \cap elsewhere
           here == fixed \ away
           found == [r \in here |-> CHOOSE i \in resolved : i.id = r.id]
           T == {found[r] : r \in here}
<1>1. Counted(f, answering) = 0 \/ Counted(f, answering) = Cardinality(fixed)
  BY DEF Counted, HowMany
<1>2. ResolvedOf(b.issues) = resolved
  BY DEF ResolvedOf
<1>3. IsFiniteSet(content.issues) /\ \A r, s \in content.issues : r.id = s.id => r = s
  BY DEF ContentInv, ContentOK
<1>4. /\ fixed \in SUBSET content.issues /\ elsewhere \in SUBSET content.issues
      /\ away \in SUBSET elsewhere /\ away \in SUBSET fixed /\ resolved \in SUBSET b.issues
  BY DEF FixedElsewhere
<1>5. \A r \in here : \E i \in resolved : i.id = r.id
  BY DEF FixedElsewhere
<1>6. \A r \in here : r \in content.issues /\ found[r] \in resolved /\ found[r].id = r.id
  <2> HIDE DEF resolved
  <2> QED
    BY <1>4, <1>5
<1>7. DOMAIN found = here
  OBVIOUS
<1>8. here = fixed \ away
  OBVIOUS
<1> HIDE DEF fixed, resolved, elsewhere, away, here, found
<1>9. \A r, s \in here : found[r] = found[s] => r = s
  BY <1>3, <1>6
<1>10. /\ IsFiniteSet(fixed) /\ IsFiniteSet(elsewhere) /\ IsFiniteSet(resolved)
       /\ Cardinality(fixed) \in Nat /\ Cardinality(elsewhere) \in Nat
       /\ Cardinality(resolved) \in Nat
  BY <1>3, <1>4, PartSize
<1>11. /\ Cardinality(away) \in Nat /\ Cardinality(away) <= Cardinality(elsewhere)
       /\ IsFiniteSet(here) /\ Cardinality(here) \in Nat
       /\ Cardinality(away) + Cardinality(here) = Cardinality(fixed)
  <2>1. Cardinality(away) \in Nat /\ Cardinality(away) <= Cardinality(elsewhere)
    BY <1>4, <1>10, PartSize
  <2>2. /\ Cardinality(here) \in Nat
        /\ Cardinality(away) + Cardinality(here) = Cardinality(fixed)
    BY <1>4, <1>8, <1>10, PartSize
  <2>3. here \in SUBSET fixed
    BY <1>8
  <2>4. IsFiniteSet(here)
    BY <1>10, <2>3, PartSize
  <2> QED
    BY <2>1, <2>2, <2>4
<1>12. Cardinality(T) = Cardinality(here)
  BY <1>7, <1>9, <1>11, ImageSize
<1>13. T \in SUBSET resolved
  BY <1>6
<1> HIDE DEF T
<1>14. Cardinality(T) <= Cardinality(resolved)
  BY <1>10, <1>13, PartSize
<1>15. Cardinality(fixed) <= Cardinality(resolved) + Cardinality(elsewhere)
  BY <1>10, <1>11, <1>12, <1>14
<1> QED
  BY <1>1, <1>2, <1>10, <1>15 DEF elsewhere

LEMMA UnscopedAgreement ==
    ASSUME ContentInv, NEW user \in Users, user.admin, NEW f \in Filters,
           ~Scoped(f), ~OnData(f), NEW answering \in SUBSET Selected(f),
           NEW lists, NEW lacking, NEW all, Completes(all, lists, lacking),
           NEW b, b = Bundle(f, Visible(user, f, lists), Counted(f, answering))
    PROVE  StatisticsSay(b, OfApps(lacking, IdsOf(b.apps)), Cardinality(FixedElsewhere(f, b)))
<1> DEFINE seen == Visible(user, f, lists)
           n == Counted(f, answering)
           mine == OfApps(all.issues, IdsOf(b.apps))
           unlisted == OfApps(lacking, IdsOf(b.apps))
           moved == Cardinality(FixedElsewhere(f, b))
<1>1. /\ Tallied(all) /\ all.apps = lists.apps
      /\ lists.issues \cup lacking = all.issues /\ lists.issues \cap lacking = {}
      /\ lists.stats.total = Cardinality(all.issues)
      /\ lists.stats.active = Cardinality(OpenOf(all.issues))
  BY DEF Completes
<1>2. /\ seen.issues = OfSources(f, lists.issues)
      /\ seen.apps = OfSources(f, lists.apps) /\ seen.stats = lists.stats
  BY VisibleIs DEF Permitted, Visible
<1>3. /\ f.groups = {} /\ f.apps = {} /\ f.names = {}
      /\ f.technologies = {} /\ f.vulnerabilities = {}
      /\ f.scanTypes \cup f.scanStatuses = {} /\ f.from = NoDate /\ f.to = NoDate
  BY DEF OnData, Scoped
<1> HIDE DEF seen
<1>4. b.apps = seen.apps /\ b.summaryApps = b.apps
  BY <1>3 DEF Bundle, Effective, CatalogApps, seen
<1>5. b.issues = seen.issues
  <2>1. b.issues = ShownIssues(f, seen)
    BY BundleShows DEF seen
  <2>2. ScopeOf(f, seen) = {}
    BY <1>3 DEF ScopeOf, ScopedApps
  <2>3. ShownIssues(f, seen) = FilteredIssues(seen.scans, seen.issues, f, {})
    BY <1>3, <2>2 DEF ShownIssues, InScopeOf, OfDimensions
  <2>4. FilteredIssues(seen.scans, seen.issues, f, {}) = seen.issues
    BY <1>3 DEF FilteredIssues, InPeriod, InScope, InGroups
  <2> QED
    BY <2>1, <2>3, <2>4
<1>6. ASSUME NEW i \in all.issues
      PROVE  i.source \in Selected(f) <=> i.app \in IdsOf(b.apps)
  <2>1. PICK a \in all.apps : a.id = i.app /\ a.source = i.source
    BY <1>1 DEF Tallied, Homely
  <2>2. \A c \in all.apps : c.id = i.app => c = a
    BY <1>1, <2>1 DEF Tallied
  <2> QED
    BY <1>1, <1>2, <1>4, <2>1, <2>2 DEF IdsOf, OfSources
<1>7. Splits(mine, b.issues, unlisted)
  BY <1>1, <1>2, <1>5, <1>6 DEF OfApps, OfSources, Splits
<1>8. IsFiniteSet(mine) /\ IsFiniteSet(b.issues)
  <2>1. IsFiniteSet(mine)
    BY <1>1, FS_Subset DEF Tallied, OfApps
  <2> HIDE DEF mine, unlisted
  <2> QED
    BY <1>7, <2>1, PartsAddUp
<1>9. /\ b.appStats.total = Cardinality(mine)
      /\ b.appStats.active = Cardinality(OpenOf(mine))
  <2>1. b.appStats = IF Precomputed(f, seen) THEN lists.stats
                     ELSE AppStatistics(b.summaryApps, b.scans)
    BY <1>2 DEF Bundle, seen
  <2>2. CASE Precomputed(f, seen)
    <3>1. f.sources = {}
      BY <2>2 DEF Precomputed
    <3>2. \A i \in all.issues : i.source \in Sources
      BY <1>1, PortfolioAssumption DEF Tallied, Homely
    <3>3. \A i \in all.issues : i.app \in IdsOf(b.apps)
      BY <1>6, <3>1, <3>2 DEF Selected
    <3>4. mine = all.issues
      BY <3>3 DEF OfApps
    <3> HIDE DEF mine
    <3> QED
      BY <1>1, <2>1, <2>2, <3>4
  <2>3. CASE ~Precomputed(f, seen)
    <3>1. b.apps \in SUBSET all.apps
      BY <1>1, <1>2, <1>4 DEF OfSources
    <3> QED
      BY <1>1, <1>4, <2>1, <2>3, <3>1, AppsAddUp
  <2> QED
    BY <2>2, <2>3
<1>10. n \in Nat /\ moved \in Nat /\ n <= Cardinality(ResolvedOf(b.issues)) + moved
  BY <1>8, CountedAreListed
<1>11. b.statistics = Statistics(f, b.scans, b.issues, b.appStats, n)
  BY DEF Bundle
<1> HIDE DEF n, mine, unlisted, moved
<1>12. StatisticsSay(b, unlisted, moved)
  BY <1>7, <1>8, <1>9, <1>10, <1>11, CountsGiveAgreement
<1> QED
  BY <1>12 DEF unlisted, moved

LEMMA WarmScopedAgreement ==
    ASSUME NEW user \in Users, NEW f \in Filters, NEW n \in Nat, Scoped(f), ~OnData(f),
           NEW lists, NEW lacking, NEW all, Completes(all, lists, lacking),
           NEW b, b = Bundle(f, Visible(user, f, lists), n),
           f.apps \subseteq IdsOf(b.apps), Attributed(user, f, ScopedApps(f, b.apps))
    PROVE  StatisticsSay(b, OfApps(lacking, IdsOf(b.apps)), 0)
<1> DEFINE seen == Visible(user, f, lists)
<1>1. /\ Tallied(all) /\ all.apps = lists.apps
      /\ lists.issues \cup lacking = all.issues /\ lists.issues \cap lacking = {}
  BY DEF Completes
<1>2. /\ seen.issues = Permitted(user, OfSources(f, lists.issues))
      /\ seen.apps = Permitted(user, OfSources(f, lists.apps))
  BY VisibleIs
<1> HIDE DEF seen
<1>3. seen.apps \subseteq Permitted(user, OfSources(f, all.apps))
  BY <1>1, <1>2
<1>4. seen.issues \subseteq all.issues \ lacking
  BY <1>1, <1>2 DEF Permitted, OfSources
<1>5. \A i \in Permitted(user, OfSources(f, all.issues)) \ lacking : i \in seen.issues
  BY <1>1, <1>2 DEF Permitted, OfSources
<1>6. OfApps(lacking, IdsOf(all.apps)) \subseteq all.issues
  BY <1>1 DEF OfApps
<1>7. b = Bundle(f, seen, n)
  BY DEF seen
<1>8. SeesScope(user, f, all, seen, lacking, b)
  BY <1>1, <1>3, <1>4, <1>5 DEF SeesScope
<1> QED
  BY <1>6, <1>7, <1>8, ScopedAgreement

LEMMA ColdAgreement ==
    ASSUME ContentInv, NEW user \in Users, NEW f \in Filters, Scoped(f), ~OnData(f),
           NEW seen, NEW lostApps, Lacks(user, f, seen, lostApps), NEW b, b = Bundle(f, seen, 0),
           f.apps \subseteq IdsOf(b.apps), Attributed(user, f, ScopedApps(f, b.apps))
    PROVE  StatisticsSay(b, OfApps(IssuesOf(content, lostApps), IdsOf(b.apps)), 0)
<1> DEFINE all == WholeLists(Selected(f))
           lost == IssuesOf(content, lostApps)
           apps == AppsOf(content, Selected(f))
<1>1. Tallied(all)
  BY ListsAreTallied
<1>2. all.apps = apps /\ all.issues = IssuesOf(content, IdsOf(apps))
  BY DEF WholeLists
<1>3. OfSources(f, apps) = apps
  BY SelectedOfMore
<1>4. /\ seen.apps \subseteq Permitted(user, apps)
      /\ seen.issues = Permitted(user, IssuesOf(content, IdsOf({a \in apps :
                                              a.id \in AskedFor(f, seen.apps) \ lostApps})))
  BY DEF Lacks, ColdApps
<1>5. \A raw : MappedIssue(raw).app = raw.app
  BY DEF MappedIssue
<1> HIDE DEF all, apps
<1>6. \A i : i \in lost <=> \E r \in content.issues : r.app \in lostApps /\ i = MappedIssue(r)
  BY DEF IssuesOf
<1>7. \A i : i \in all.issues <=>
                \E r \in content.issues : r.app \in IdsOf(apps) /\ i = MappedIssue(r)
  BY <1>2 DEF IssuesOf
<1>8. \A i : i \in seen.issues <=>
         /\ i \in Permitted(user, all.issues)
         /\ i.app \in AskedFor(f, seen.apps) \ lostApps
  <2>1. \A i : i \in IssuesOf(content, IdsOf({a \in apps : a.id \in AskedFor(f, seen.apps) \ lostApps}))
                  <=> /\ i \in all.issues
                      /\ i.app \in AskedFor(f, seen.apps) \ lostApps
    BY <1>5, <1>7 DEF IssuesOf, IdsOf
  <2> QED
    BY <1>4, <2>1 DEF Permitted
<1> HIDE DEF lost
<1>9. seen.issues \subseteq all.issues \ lost
  BY <1>5, <1>6, <1>8 DEF Permitted
<1>10. \A i \in Permitted(user, OfSources(f, all.issues)) \ lost :
          i.app \in ScopeOf(f, seen) => i \in seen.issues
  <2> SUFFICES ASSUME NEW i \in Permitted(user, OfSources(f, all.issues)), i \notin lost,
                      i.app \in ScopeOf(f, seen)
               PROVE  i \in seen.issues
    OBVIOUS
  <2>1. i \in Permitted(user, all.issues)
    BY DEF Permitted, OfSources
  <2>2. i.app \notin lostApps
    BY <1>5, <1>6, <1>7, <2>1 DEF Permitted
  <2>3. i.app \in AskedFor(f, seen.apps)
    BY DEF AskedFor, ScopeOf
  <2> QED
    BY <1>8, <2>1, <2>2, <2>3
<1>11. OfApps(lost, IdsOf(all.apps)) \subseteq all.issues
  BY <1>2, <1>5, <1>6, <1>7 DEF OfApps
<1>12. seen.apps \subseteq Permitted(user, OfSources(f, all.apps))
  BY <1>2, <1>3, <1>4
<1>13. SeesScope(user, f, all, seen, lost, b)
  BY <1>1, <1>9, <1>10, <1>12 DEF SeesScope
<1>14. StatisticsSay(b, OfApps(lost, IdsOf(b.apps)), 0)
  BY <1>11, <1>13, ScopedAgreement
<1> QED
  BY <1>14 DEF lost

\* Where it is known what base data lacks, the rest is what its applications count; a view
\* over it is the bundle of it, and one that is whole was built of what the sources have.
WarmViewIs(user, f) ==
    /\ \E answering \in SUBSET Selected(f) :
          view.bundle = Bundle(f, Visible(user, f, base), Counted(f, answering))
    /\ view.whole => base = Fetched(Sources)
    /\ view.missed = missed

WarmViewInv ==
    view # None /\ view.path # "cold" =>
       \E user \in Users, f \in Filters :
          user = view.user /\ f = view.filter /\ base # None /\ WarmViewIs(user, f)

UnscopedIsWarm == view # None /\ view.path = "cold" => Scoped(view.filter) /\ view.path # "warm"

BaseInv == base # None /\ missed # None => \E all : Completes(all, base, missed)

StatisticsInv ==
    /\ ColdInv
    /\ BaseInv
    /\ WarmViewInv
    /\ UnscopedIsWarm

LEMMA FetchedIsSame ==
    ASSUME content' = content
    PROVE  Fetched(Sources)' = Fetched(Sources)
<1>1. Now' = Now
  BY DEF Now
<1> QED
  BY <1>1 DEF Fetched

LEMMA BundleIsSame ==
    ASSUME content' = content, base' = base, NEW user, NEW f, NEW answering
    PROVE  Bundle(f, Visible(user, f, base), Counted(f, answering))'
              = Bundle(f, Visible(user, f, base), Counted(f, answering))
<1>1. Visible(user, f, base)' = Visible(user, f, base)
  BY DEF Visible
<1>2. Counted(f, answering)' = Counted(f, answering)
  BY DEF Counted, HowMany
<1> QED
  BY <1>1, <1>2 DEF Bundle

LEMMA StatisticsInit == PortInit => StatisticsInv
<1> SUFFICES ASSUME PortInit PROVE StatisticsInv
  OBVIOUS
<1>1. base = None /\ view = None
  BY DEF PortInit
<1> QED
  BY <1>1, ColdInit DEF StatisticsInv, BaseInv, WarmViewInv, UnscopedIsWarm

LEMMA StatisticsNext == StatisticsInv /\ [PortNext]_portVars => StatisticsInv'
<1> SUFFICES ASSUME StatisticsInv, [PortNext]_portVars PROVE StatisticsInv'
  OBVIOUS
<1>1. ColdInv /\ ColdInv' /\ ContentInv
  BY ColdNext DEF StatisticsInv, ColdInv, SourcesInv
<1>2. base' = base /\ missed' = missed => BaseInv'
  BY DEF StatisticsInv, BaseInv
<1>3. view = None /\ view' = view => WarmViewInv' /\ UnscopedIsWarm'
  BY DEF WarmViewInv, UnscopedIsWarm
<1>4. CASE UNCHANGED portVars
  <2>1. /\ content' = content /\ base' = base /\ missed' = missed /\ view' = view
    BY <1>4 DEF portVars
  <2>2. \A user, f, answering :
           Bundle(f, Visible(user, f, base), Counted(f, answering))'
              = Bundle(f, Visible(user, f, base), Counted(f, answering))
    BY <2>1, BundleIsSame
  <2>3. Fetched(Sources)' = Fetched(Sources)
    BY <2>1, FetchedIsSame
  <2>4. \A user, f : WarmViewIs(user, f) => WarmViewIs(user, f)'
    BY <2>1, <2>2, <2>3 DEF WarmViewIs
  <2>5. WarmViewInv' /\ UnscopedIsWarm'
    BY <2>1, <2>4 DEF WarmViewInv, UnscopedIsWarm, StatisticsInv
  <2> QED
    BY <1>1, <1>2, <2>1, <2>5 DEF StatisticsInv
<1>5. ASSUME fetch # None, NEW down \in SUBSET Sources, NEW lost, NEW at \in [Reads -> fetch],
             FetchBase(down, lost, at)
      PROVE  StatisticsInv'
  <2> DEFINE sources == WithIssues(at, Sources \ down, lost)
             lists == ListsMerged(at, sources, lost)
             lacking == MissedIssues(at, sources, lost)
  <2>1. /\ view = None /\ view' = view /\ base' = lists
        /\ missed' = IF fetch = {content} THEN lacking ELSE None
    BY <1>5 DEF FetchBase
  <2>2. fetch = {content} => Completes(WholeLists(sources), lists, lacking)
    <3>1. PICK others : others = Sources \ down
      OBVIOUS
    <3> SUFFICES ASSUME fetch = {content} PROVE Completes(WholeLists(sources), lists, lacking)
      OBVIOUS
    <3>2. OfNow(at) /\ others \subseteq Sources
      BY <1>5, <3>1 DEF OfNow
    <3>3. sources = WithIssues(at, others, lost)
      BY <3>1
    <3> HIDE DEF sources
    <3> QED
      BY <1>1, <3>2, <3>3, FetchCompletes
  <2> HIDE DEF sources, lists, lacking
  <2>3. BaseInv'
    <3> SUFFICES ASSUME missed' # None PROVE \E all : Completes(all, base', missed')
      BY DEF BaseInv
    <3>1. fetch = {content} /\ missed' = lacking
      BY <2>1
    <3>2. PICK all : all = WholeLists(sources)
      OBVIOUS
    <3>3. Completes(all, base', missed')
      BY <2>1, <2>2, <3>1, <3>2
    <3> QED
      BY <3>3
  <2> QED
    BY <1>1, <1>3, <2>1, <2>3 DEF StatisticsInv
<1>6. CASE BaseExpires
  BY <1>1, <1>3, <1>6 DEF BaseExpires, StatisticsInv, BaseInv
<1>7. ASSUME NEW user \in Users, NEW f \in Filters, BuildWarm(user, f)
      PROVE  StatisticsInv'
  <2>1. base # None /\ base' = base /\ missed' = missed /\ content' = content
    BY <1>7 DEF BuildWarm
  <2>2. PICK answering \in MayAnswer(f) :
           view' = [user |-> user, filter |-> f, path |-> "warm",
                    whole |-> base = Fetched(Sources), missed |-> missed,
                    bundle |-> Bundle(f, Visible(user, f, base), Counted(f, answering))]
    BY <1>7 DEF BuildWarm, Shows
  <2>3. answering \in SUBSET Selected(f)
    BY DEF MayAnswer
  <2>4. /\ view'.user = user /\ view'.filter = f /\ view'.path = "warm"
        /\ view'.whole => base = Fetched(Sources)
        /\ view'.missed = missed
        /\ view'.bundle = Bundle(f, Visible(user, f, base), Counted(f, answering))
    BY <2>2
  <2>5. Bundle(f, Visible(user, f, base), Counted(f, answering))'
           = Bundle(f, Visible(user, f, base), Counted(f, answering))
    BY <2>1, BundleIsSame
  <2>6. Fetched(Sources)' = Fetched(Sources)
    BY <2>1, FetchedIsSame
  <2>7. WarmViewIs(user, f)'
    BY <2>1, <2>3, <2>4, <2>5, <2>6 DEF WarmViewIs
  <2>8. WarmViewInv'
    BY <2>1, <2>4, <2>7 DEF WarmViewInv
  <2>9. UnscopedIsWarm'
    BY <2>4 DEF UnscopedIsWarm
  <2> QED
    BY <1>1, <1>2, <2>1, <2>8, <2>9 DEF StatisticsInv
<1>8. ASSUME NEW user \in Users, NEW f \in Filters, NEW lost \in ListLosses,
             ColdCatalog(user, f, lost)
      PROVE  StatisticsInv'
  BY <1>1, <1>2, <1>3, <1>8 DEF ColdCatalog, StatisticsInv
<1>9. ASSUME NEW lostApps \in IssueLosses, ColdIssues(lostApps)
      PROVE  StatisticsInv'
  <2>1. PICK b, whole, lacking :
           view' = [user |-> request.user, filter |-> request.filter, path |-> "cold",
                    whole |-> whole, missed |-> lacking, bundle |-> b]
    BY <1>9 DEF ColdIssues, Shows
  <2>2. base' = base /\ missed' = missed /\ request # None
    BY <1>9 DEF ColdIssues
  <2>3. view'.path = "cold" /\ view'.filter = request.filter
    BY <2>1
  <2>4. Scoped(request.filter)
    BY <1>1, <2>2 DEF ColdInv, RequestInv
  <2> QED
    BY <1>1, <1>2, <2>2, <2>3, <2>4 DEF StatisticsInv, WarmViewInv, UnscopedIsWarm
<1>10. CASE StartFetch \/ SourceChanges
  <2>1. view = None /\ view' = view /\ base' = base /\ missed' = missed
    BY <1>10 DEF StartFetch, SourceChanges, IssueFixed, IssueRemoved, ScanRemoved, Changes
  <2> QED
    BY <1>1, <1>2, <1>3, <2>1 DEF StatisticsInv
<1> QED
  BY <1>4, <1>5, <1>6, <1>7, <1>8, <1>9, <1>10 DEF PortNext, Building

LEMMA StatisticsSafety == PortSpec => []StatisticsInv
  BY StatisticsInit, StatisticsNext, PTL DEF PortSpec

LEMMA CountedIsNatural ==
    ASSUME ContentInv, NEW f, NEW answering
    PROVE  Counted(f, answering) \in Nat
<1> DEFINE fixed == {r \in content.issues : r.status = "fixed" /\ r.source \in answering}
<1>1. Cardinality(fixed) \in Nat
  BY PartSize DEF ContentInv, ContentOK
<1> QED
  BY <1>1 DEF Counted, HowMany

(* The statistics of _build_bundle, whose counts come from /api/v4/Apps, from the issues and *)
(* from the Count API, say what the issues of the view say, on either path and for every     *)
(* catalog, content, user and filter.  Of issues whose list raised they say that these are   *)
(* active, and no more issues become resolved than were fixed since the lists were fetched   *)
(* or in lists that were lost.                                                               *)
THEOREM StatisticsAgree == PortSpec => []ActiveIsCounted
<1>1. StatisticsInv => ActiveIsCounted
  <2> DEFINE f == view.filter
             b == view.bundle
             unlisted == OfApps(view.missed, IdsOf(b.apps))
             moved == IF Scoped(f) THEN 0 ELSE Cardinality(FixedElsewhere(f, b))
  <2>a. ASSUME StatisticsSay(b, unlisted, moved)
        PROVE  ActiveIsCounted
    BY <2>a DEF ActiveIsCounted
  <2>b. ~(Built /\ Coherent) => ActiveIsCounted
    BY DEF ActiveIsCounted
  <2> SUFFICES ASSUME StatisticsInv, Built, Coherent PROVE StatisticsSay(b, unlisted, moved)
    BY <2>a, <2>b
  <2>1. ContentInv /\ ~OnData(f) /\ view.missed # None
    BY DEF StatisticsInv, ColdInv, SourcesInv, Coherent
  <2>2. Scoped(f) => /\ f.apps \subseteq IdsOf(b.apps)
                     /\ Attributed(view.user, f, ScopedApps(f, b.apps))
    BY DEF Coherent
  <2>3. ~Scoped(f) => view.user.admin
    BY DEF Coherent
  <2> HIDE DEF b
  <2>4. CASE view.path = "cold"
    <3>1. PICK user, g, seen, lost :
             /\ user = view.user /\ g = f
             /\ Scoped(g) /\ g \in Filters /\ user \in Users
             /\ b = Bundle(g, seen, 0) /\ view.missed = IssuesOf(content, lost)
             /\ Lacks(user, g, seen, lost)
      BY <2>1, <2>4 DEF Built, StatisticsInv, ColdInv, PartViewInv, b
    <3>2. StatisticsSay(b, OfApps(IssuesOf(content, lost), IdsOf(b.apps)), 0)
      BY <2>1, <2>2, <3>1, ColdAgreement
    <3> QED
      BY <3>1, <3>2
  <2>5. CASE view.path # "cold"
    <3>1. PICK user \in Users, g \in Filters :
             user = view.user /\ g = f /\ base # None /\ WarmViewIs(user, g)
      BY <2>5 DEF Built, StatisticsInv, WarmViewInv
    <3>2. PICK answering \in SUBSET Selected(g) :
             b = Bundle(g, Visible(user, g, base), Counted(g, answering))
      BY <3>1 DEF WarmViewIs, b
    <3>3. view.missed = missed
      BY <3>1 DEF WarmViewIs
    <3>4. PICK all : Completes(all, base, missed)
      BY <2>1, <3>1, <3>3 DEF StatisticsInv, BaseInv
    <3>5. CASE Scoped(g)
      <4>1. Counted(g, answering) \in Nat
        BY <2>1, CountedIsNatural
      <4>2. StatisticsSay(b, OfApps(missed, IdsOf(b.apps)), 0)
        BY <2>1, <2>2, <3>1, <3>2, <3>4, <3>5, <4>1, WarmScopedAgreement
      <4> QED
        BY <3>1, <3>3, <3>5, <4>2
    <3>6. CASE ~Scoped(g)
      <4>1. StatisticsSay(b, OfApps(missed, IdsOf(b.apps)), Cardinality(FixedElsewhere(g, b)))
        BY <2>1, <2>3, <3>1, <3>2, <3>4, <3>6, UnscopedAgreement
      <4> QED
        BY <3>1, <3>3, <3>6, <4>1
    <3> QED
      BY <3>5, <3>6
  <2> QED
    BY <2>4, <2>5
<1> QED
  BY <1>1, StatisticsSafety, PTL

----------------------------------------------------------------------------
(* Figures *)

\* What the lists of the model are: dates are days, severities and technologies are known.
DatedIssues(issues) ==
    /\ IsFiniteSet(issues)
    /\ \A i \in issues :
          i.severity \in Severities /\ i.opened \in Nat /\ i.closed \in Nat /\ i.days \in Nat

DatedScans(scans) ==
    /\ IsFiniteSet(scans)
    /\ \A s \in scans : s.severity \in Severities /\ s.created \in Nat

LEMMA MaxExists ==
    ASSUME NEW N, IsFiniteSet(N), N # {}, N \subseteq Int
    PROVE  Max(N) \in N /\ \A m \in N : m <= Max(N)
<1>1. \E n \in N : \A m \in N : m <= n
  BY GreatestNumber
<1> QED
  BY <1>1 DEF Max

LEMMA SeverityIsKnown == \A word : NormalizedSeverity(word) \in Severities
BY DEF NormalizedSeverity, Severities

LEMMA TechnologyIsKnown ==
    \A words : NormalizedTechnology(words) \in Technologies \cup {"UNKNOWN"}
<1> SUFFICES ASSUME NEW words
             PROVE  NormalizedTechnology(words) \in Technologies \cup {"UNKNOWN"}
  OBVIOUS
<1> DEFINE hits == {n \in DOMAIN TechnologyWords : TechnologyWords[n].words \cap words # {}}
<1>1. DOMAIN TechnologyWords = 1 .. 4
  BY DEF TechnologyWords
<1>2. \A n \in 1 .. 4 : TechnologyWords[n].is \in Technologies
  BY DEF TechnologyWords, Technologies
<1>3. hits \subseteq 1 .. 4 /\ hits \in SUBSET Nat
  BY <1>1
<1>4. NormalizedTechnology(words) = IF hits = {} THEN "UNKNOWN" ELSE TechnologyWords[Min(hits)].is
  BY DEF NormalizedTechnology
<1> HIDE DEF hits
<1>5. ASSUME hits # {} PROVE Min(hits) \in hits
  <2>1. \E n \in hits : \A m \in hits : n <= m
    BY <1>3, <1>5, LeastNumber
  <2> QED
    BY <2>1 DEF Min
<1> QED
  BY <1>2, <1>3, <1>4, <1>5

\* A technology that is said by its whole name is read as itself.
LEMMA WholeName == \A t \in Technologies : NormalizedTechnology({t}) = t
<1> SUFFICES ASSUME NEW t \in Technologies PROVE NormalizedTechnology({t}) = t
  OBVIOUS
<1> DEFINE hits == {n \in DOMAIN TechnologyWords : TechnologyWords[n].words \cap {t} # {}}
<1>1. DOMAIN TechnologyWords = 1 .. 4
  BY DEF TechnologyWords
<1>2. PICK n \in 1 .. 4 : /\ \A m \in 1 .. 4 : t \in TechnologyWords[m].words <=> m = n
                          /\ TechnologyWords[n].is = t
  BY DEF TechnologyWords, Technologies
<1>3. hits = {n}
  BY <1>1, <1>2
<1>4. Min({n}) = n
  BY DEF Min
<1> QED
  BY <1>2, <1>3, <1>4 DEF NormalizedTechnology

LEMMA PrimaryIsKnown ==
    ASSUME NEW scans, IsFiniteSet(scans), NEW app
    PROVE  PrimaryTechnology(scans, app) \in Technologies
<1> DEFINE Scanned(t) == HowMany(TypedScans(scans, app), LAMBDA s : s.type = t)
           Leads(t) == \A u \in Technologies \ {t} :
                          \/ Scanned(t) > Scanned(u)
                          \/ Scanned(t) = Scanned(u) /\ Priority[t] > Priority[u]
<1>1. ASSUME NEW t PROVE Scanned(t) \in Nat
  <2>1. IsFiniteSet(TypedScans(scans, app))
    BY PartSize DEF TypedScans
  <2> QED
    BY <2>1, PartSize DEF HowMany
<1>2. PrimaryTechnology(scans, app) = CHOOSE t \in Technologies : Leads(t)
  BY DEF PrimaryTechnology
<1> HIDE DEF Scanned
<1>3. /\ Scanned("DAST") \in Nat /\ Scanned("SAST") \in Nat
      /\ Scanned("SCA") \in Nat /\ Scanned("IAST") \in Nat
  BY <1>1
<1>4. \E t \in Technologies : Leads(t)
  BY <1>3 DEF Technologies, Priority
<1> HIDE DEF Leads
<1> QED
  BY <1>2, <1>4

LEMMA ResolvedIsKnown ==
    ASSUME NEW scans, IsFiniteSet(scans), NEW i
    PROVE  ResolvedTechnology(i, scans) \in Technologies \cup {"UNKNOWN"}
BY TechnologyIsKnown, PrimaryIsKnown DEF ResolvedTechnology

LEMMA SeveritiesFinite ==
    /\ IsFiniteSet(Levels) /\ IsFiniteSet(Severities) /\ IsFiniteSet(Technologies)
    /\ Severities = {"critical", "high", "medium", "low", "unknown"}
<1>1. IsFiniteSet({"critical"}) /\ IsFiniteSet({"high"}) /\ IsFiniteSet({"medium"})
      /\ IsFiniteSet({"low"}) /\ IsFiniteSet({"unknown"})
      /\ IsFiniteSet({"DAST"}) /\ IsFiniteSet({"SAST"}) /\ IsFiniteSet({"SCA"}) /\ IsFiniteSet({"IAST"})
  BY FS_Singleton
<1>2. IsFiniteSet({"critical"} \cup {"high"} \cup {"medium"} \cup {"low"})
  <2>1. IsFiniteSet({"critical"} \cup {"high"})
    BY <1>1, FS_Union
  <2>2. IsFiniteSet({"critical"} \cup {"high"} \cup {"medium"})
    BY <1>1, <2>1, FS_Union
  <2> QED
    BY <1>1, <2>2, FS_Union
<1>3. Levels = {"critical"} \cup {"high"} \cup {"medium"} \cup {"low"}
  BY DEF Levels
<1>4. IsFiniteSet(Severities)
  BY <1>1, <1>2, <1>3, FS_Union DEF Severities
<1>5. IsFiniteSet({"DAST"} \cup {"SAST"} \cup {"SCA"} \cup {"IAST"})
  <2>1. IsFiniteSet({"DAST"} \cup {"SAST"})
    BY <1>1, FS_Union
  <2>2. IsFiniteSet({"DAST"} \cup {"SAST"} \cup {"SCA"})
    BY <1>1, <2>1, FS_Union
  <2> QED
    BY <1>1, <2>2, FS_Union
<1>6. Technologies = {"DAST"} \cup {"SAST"} \cup {"SCA"} \cup {"IAST"}
  BY DEF Technologies
<1> QED
  BY <1>2, <1>3, <1>4, <1>5, <1>6 DEF Severities, Levels

\* The severity a group counts as is one it has.
LEMMA DominantIs ==
    ASSUME NEW issues, IsFiniteSet(issues), NEW l, l = Dominant(BySeverity(issues))
    PROVE  /\ l \in Severities
           /\ l # "unknown" => \E i \in issues : i.severity = l
           /\ l = "unknown" => \A i \in issues : i.severity \notin Levels
<1> DEFINE counts == BySeverity(issues)
           present == {m \in Levels : counts[m] > 0}
<1>1. ASSUME NEW m \in Levels
      PROVE  m \in present <=> \E i \in issues : i.severity = m
  <2>1. counts[m] = Cardinality({i \in issues : i.severity = m})
    BY DEF BySeverity, HowMany, Severities
  <2>2. IsFiniteSet({i \in issues : i.severity = m})
    BY PartSize
  <2>3. counts[m] \in Nat /\ (counts[m] = 0 <=> {i \in issues : i.severity = m} = {})
    BY <2>1, <2>2, FS_CardinalityType, FS_EmptySet
  <2> HIDE DEF counts
  <2> QED
    BY <2>3
<1>2. l = IF present = {} THEN "unknown"
          ELSE CHOOSE m \in present : \A k \in present : SeverityRank[m] >= SeverityRank[k]
  BY DEF Dominant
<1>3. present # {} =>
         \E m \in present : \A k \in present : SeverityRank[m] >= SeverityRank[k]
  <2>1. present \subseteq {"critical", "high", "medium", "low"}
    BY DEF Levels
  <2>2. /\ SeverityRank["critical"] = 4 /\ SeverityRank["high"] = 3
        /\ SeverityRank["medium"] = 2 /\ SeverityRank["low"] = 1
    BY DEF SeverityRank
  <2> HIDE DEF present
  <2>3. \A k \in present : \/ k = "critical" \/ k = "high" \/ k = "medium" \/ k = "low"
    BY <2>1
  <2>4. CASE "critical" \in present
    BY <2>2, <2>3, <2>4
  <2>5. CASE "critical" \notin present /\ "high" \in present
    BY <2>2, <2>3, <2>5
  <2>6. CASE "critical" \notin present /\ "high" \notin present /\ "medium" \in present
    BY <2>2, <2>3, <2>6
  <2>7. CASE "critical" \notin present /\ "high" \notin present /\ "medium" \notin present
    BY <2>2, <2>3, <2>7
  <2> QED
    BY <2>4, <2>5, <2>6, <2>7
<1>4. present \subseteq Levels
  OBVIOUS
<1> HIDE DEF present, counts
<1>5. present # {} => l \in present
  BY <1>2, <1>3
<1>6. "unknown" \notin Levels
  BY DEF Levels
<1> QED
  BY <1>1, <1>2, <1>4, <1>5, <1>6 DEF Severities

OfSeverity(items, l) == {i \in items : i.severity = l}

LEMMA SeverityCount ==
    ASSUME NEW items
    PROVE  /\ DOMAIN BySeverity(items) = Severities
           /\ \A l \in Severities : BySeverity(items)[l] = Cardinality(OfSeverity(items, l))
           /\ BySeverity(items).critical = Cardinality(OfSeverity(items, "critical"))
           /\ BySeverity(items).high = Cardinality(OfSeverity(items, "high"))
           /\ BySeverity(items).medium = Cardinality(OfSeverity(items, "medium"))
           /\ BySeverity(items).low = Cardinality(OfSeverity(items, "low"))
BY SeveritiesFinite DEF BySeverity, HowMany, OfSeverity

\* Issues have a known severity each.
LEMMA SeveritiesAddUp ==
    ASSUME NEW items, IsFiniteSet(items), \A i \in items : i.severity \in Severities
    PROVE  SumFunction(BySeverity(items)) = Cardinality(items)
<1> DEFINE key == [i \in items |-> i.severity]
<1>1. SumFunction([l \in Severities |-> Cardinality({i \in items : key[i] = l})])
         = Cardinality({i \in items : key[i] \in Severities})
  <2>1. IsFiniteSet(Severities)
    BY SeveritiesFinite
  <2> HIDE DEF key
  <2> QED
    BY <2>1, CountByKey
<1>2. \A l : {i \in items : key[i] = l} = {i \in items : i.severity = l}
  OBVIOUS
<1>3. BySeverity(items) = [l \in Severities |-> Cardinality({i \in items : key[i] = l})]
  BY <1>2 DEF BySeverity, HowMany
<1>4. {i \in items : key[i] \in Severities} = items
  OBVIOUS
<1> QED
  BY <1>1, <1>3, <1>4

Keyed(items, key) ==
    [k \in {key[i] : i \in items} |-> BySeverity({i \in items : key[i] = k})]

LEMMA KeysFinite ==
    ASSUME NEW items, IsFiniteSet(items), NEW key
    PROVE  IsFiniteSet(DOMAIN Keyed(items, key))
<1> DEFINE f == [i \in items |-> key[i]]
<1>1. DOMAIN Keyed(items, key) = {f[i] : i \in items} /\ DOMAIN f = items
  BY DEF Keyed
<1> HIDE DEF f
<1>2. IsFiniteSet({f[i] : i \in items})
  BY <1>1, ImageSize
<1> QED
  BY <1>1, <1>2

\* However issues are keyed, those of one severity add up.
LEMMA KeyedSeverity ==
    ASSUME NEW items, IsFiniteSet(items), NEW key, NEW l \in Severities,
           NEW buckets, buckets = Keyed(items, key)
    PROVE  SumFunction([k \in DOMAIN buckets |-> buckets[k][l]])
              = Cardinality(OfSeverity(items, l))
<1> DEFINE mine == OfSeverity(items, l)
           K == DOMAIN buckets
<1>1. K = {key[i] : i \in items}
  BY DEF Keyed
<1>2. IsFiniteSet(K) /\ IsFiniteSet(mine)
  BY KeysFinite, PartSize DEF OfSeverity
<1>3. ASSUME NEW k \in K
      PROVE  buckets[k][l] = Cardinality({i \in mine : key[i] = k})
  <2>1. buckets[k] = BySeverity({i \in items : key[i] = k})
    BY DEF Keyed
  <2>2. buckets[k][l] = Cardinality(OfSeverity({i \in items : key[i] = k}, l))
    BY <2>1, SeverityCount
  <2>3. OfSeverity({i \in items : key[i] = k}, l) = {i \in mine : key[i] = k}
    BY DEF OfSeverity
  <2> QED
    BY <2>2, <2>3
<1>4. [k \in K |-> buckets[k][l]] = [k \in K |-> Cardinality({i \in mine : key[i] = k})]
  BY <1>3
<1>5. {i \in mine : key[i] \in K} = mine
  BY <1>1 DEF OfSeverity
<1> HIDE DEF mine, K
<1>6. SumFunction([k \in K |-> Cardinality({i \in mine : key[i] = k})])
         = Cardinality({i \in mine : key[i] \in K})
  BY <1>2, CountByKey
<1> QED
  BY <1>2, <1>4, <1>5, <1>6 DEF mine, K

LEMMA GroupsAddUp ==
    ASSUME NEW b, DatedIssues(b.issues)
    PROVE  GroupsAgree(b)
<1> DEFINE issues == b.issues
           p == Prioritization(issues)
           fix == [i \in issues |-> i.fixGroup]
           home == [i \in issues |-> i.app]
           tie == [i \in issues |-> i.correlation]
           groups == Buckets(issues, LAMBDA i : i.fixGroup)
           hotspots == Buckets(issues, LAMBDA i : i.app)
           keys == Buckets(issues, LAMBDA i : i.correlation)
           correlated == {k \in DOMAIN keys : SumFunction(keys[k]) >= 2}
<1>1. IsFiniteSet(issues) /\ \A i \in issues : i.severity \in Severities
  BY DEF DatedIssues
<1>2. /\ groups = [k \in {fix[i] : i \in issues} |-> BySeverity({i \in issues : fix[i] = k})]
      /\ hotspots = [k \in {home[i] : i \in issues} |-> BySeverity({i \in issues : home[i] = k})]
      /\ keys = [k \in {tie[i] : i \in issues} |-> BySeverity({i \in issues : tie[i] = k})]
  <2>1. {fix[i] : i \in issues} = {i.fixGroup : i \in issues}
    OBVIOUS
  <2>2. {home[i] : i \in issues} = {i.app : i \in issues}
    OBVIOUS
  <2>3. {tie[i] : i \in issues} = {i.correlation : i \in issues}
    OBVIOUS
  <2>4. \A k : {i \in issues : fix[i] = k} = {i \in issues : i.fixGroup = k}
    OBVIOUS
  <2>5. \A k : {i \in issues : home[i] = k} = {i \in issues : i.app = k}
    OBVIOUS
  <2>6. \A k : {i \in issues : tie[i] = k} = {i \in issues : i.correlation = k}
    OBVIOUS
  <2> HIDE DEF fix, home, tie
  <2> QED
    BY <2>1, <2>2, <2>3, <2>4, <2>5, <2>6 DEF Buckets
<1>3. /\ p.raw = BySeverity(issues) /\ p.groups = Cardinality(DOMAIN groups)
      /\ p.dominated = [l \in Severities |->
                           Cardinality({g \in DOMAIN groups : Dominant(groups[g]) = l})]
      /\ p.findings = [l \in Severities |-> SumFunction([g \in DOMAIN groups |-> groups[g][l]])]
      /\ p.criticalHotspots = SumFunction([a \in DOMAIN hotspots |-> hotspots[a].critical])
      /\ p.correlatedRisk = SumFunction([k \in correlated |-> keys[k].critical + keys[k].high])
  BY DEF Prioritization, HowMany
<1>4. /\ Kpi(issues).critical = BySeverity(issues).critical
      /\ Kpi(issues).high = BySeverity(issues).high
  BY DEF Kpi
<1> HIDE DEF p, groups, hotspots, keys
<1>5. /\ DOMAIN groups = {fix[i] : i \in issues}
      /\ DOMAIN hotspots = {home[i] : i \in issues}
      /\ DOMAIN keys = {tie[i] : i \in issues}
  BY <1>2
<1>6. groups = Keyed(issues, fix) /\ hotspots = Keyed(issues, home) /\ keys = Keyed(issues, tie)
  <2> HIDE DEF fix, home, tie
  <2> QED
    BY <1>2 DEF Keyed
<1>7. p.findings = p.raw
  <2>1. ASSUME NEW l \in Severities
        PROVE  SumFunction([g \in DOMAIN groups |-> groups[g][l]]) = BySeverity(issues)[l]
    <3> HIDE DEF fix
    <3>1. SumFunction([g \in DOMAIN groups |-> groups[g][l]]) = Cardinality(OfSeverity(issues, l))
      BY <1>1, <1>6, KeyedSeverity
    <3> QED
      BY <3>1, SeverityCount
  <2>2. BySeverity(issues) = [l \in Severities |-> BySeverity(issues)[l]]
    BY DEF BySeverity
  <2> QED
    BY <1>3, <2>1, <2>2
<1>8. IsFiniteSet(DOMAIN groups)
  <2> HIDE DEF fix
  <2> QED
    BY <1>1, <1>6, KeysFinite
<1>9. ASSUME NEW g \in DOMAIN groups
      PROVE  LET l == Dominant(groups[g])
             IN  /\ l \in Severities
                 /\ \E i \in issues : i.fixGroup = g /\ i.severity = l
  <2> DEFINE mine == {i \in issues : fix[i] = g}
             l == Dominant(BySeverity(mine))
  <2>1. groups[g] = BySeverity(mine)
    BY <1>2, <1>5
  <2>2. IsFiniteSet(mine)
    BY <1>1, PartSize
  <2>3. PICK i \in issues : i.fixGroup = g
    BY <1>5
  <2>4. i \in mine /\ \A j \in mine : j \in issues /\ j.fixGroup = g
    BY <2>3
  <2> HIDE DEF mine, l
  <2>5. /\ l \in Severities
        /\ l # "unknown" => \E j \in mine : j.severity = l
        /\ l = "unknown" => \A j \in mine : j.severity \notin Levels
    BY <2>2, DominantIs DEF l
  <2>6. l = "unknown" => i.severity = l
    BY <1>1, <2>3, <2>4, <2>5 DEF Severities
  <2>7. l = Dominant(groups[g])
    BY <2>1 DEF l
  <2> QED
    BY <2>3, <2>4, <2>5, <2>6, <2>7
<1>10. SumFunction(p.dominated) = p.groups
  <2> DEFINE key == [g \in DOMAIN groups |-> Dominant(groups[g])]
  <2>1. SumFunction([l \in Severities |-> Cardinality({g \in DOMAIN groups : key[g] = l})])
           = Cardinality({g \in DOMAIN groups : key[g] \in Severities})
    <3>1. IsFiniteSet(Severities)
      BY SeveritiesFinite
    <3> HIDE DEF key
    <3> QED
      BY <1>8, <3>1, CountByKey
  <2>2. {g \in DOMAIN groups : key[g] \in Severities} = DOMAIN groups
    BY <1>9
  <2>3. \A l : {g \in DOMAIN groups : key[g] = l} = {g \in DOMAIN groups : Dominant(groups[g]) = l}
    OBVIOUS
  <2>4. p.dominated = [l \in Severities |-> Cardinality({g \in DOMAIN groups : key[g] = l})]
    BY <1>3, <2>3
  <2> HIDE DEF key
  <2> QED
    BY <1>3, <2>1, <2>2, <2>4
<1>11. ASSUME NEW l \in Severities
       PROVE  p.dominated[l] <= p.findings[l]
  <2> DEFINE mine == {g \in DOMAIN groups : Dominant(groups[g]) = l}
             one == [g \in mine |-> CHOOSE i \in issues : i.fixGroup = g /\ i.severity = l]
             chosen == {one[g] : g \in mine}
  <2>1. ASSUME NEW g \in mine
        PROVE  one[g] \in issues /\ one[g].fixGroup = g /\ one[g].severity = l
    <3>1. \E i \in issues : i.fixGroup = g /\ i.severity = l
      BY <1>9
    <3> QED
      BY <3>1
  <2>2. IsFiniteSet(mine) /\ DOMAIN one = mine
    BY <1>8, PartSize
  <2>3. p.dominated[l] = Cardinality(mine)
    BY <1>3
  <2>4. p.findings[l] = Cardinality(OfSeverity(issues, l))
    BY <1>3, <1>7, SeverityCount
  <2> HIDE DEF mine, one
  <2>5. Cardinality(chosen) = Cardinality(mine)
    <3>1. \A g, h \in mine : one[g] = one[h] => g = h
      BY <2>1
    <3> QED
      BY <2>2, <3>1, ImageSize
  <2>6. chosen \subseteq OfSeverity(issues, l)
    BY <2>1 DEF OfSeverity
  <2>7. IsFiniteSet(OfSeverity(issues, l))
    BY <1>1, PartSize DEF OfSeverity
  <2>8. Cardinality(chosen) <= Cardinality(OfSeverity(issues, l))
    BY <2>6, <2>7, FS_Subset
  <2> QED
    BY <2>3, <2>4, <2>5, <2>8
<1>12. p.criticalHotspots = Kpi(issues).critical
  <2> HIDE DEF home
  <2>1. "critical" \in Severities
    BY SeveritiesFinite
  <2>2. SumFunction([a \in DOMAIN hotspots |-> hotspots[a]["critical"]])
           = Cardinality(OfSeverity(issues, "critical"))
    BY <1>1, <1>6, <2>1, KeyedSeverity
  <2> QED
    BY <1>3, <1>4, <2>2, SeverityCount
<1>13. p.correlatedRisk <= Kpi(issues).critical + Kpi(issues).high
  <2> DEFINE severe == OfSeverity(issues, "critical") \cup OfSeverity(issues, "high")
             Of(k) == {i \in severe : tie[i] = k}
  <2>1. /\ IsFiniteSet(OfSeverity(issues, "critical")) /\ IsFiniteSet(OfSeverity(issues, "high"))
        /\ OfSeverity(issues, "critical") \cap OfSeverity(issues, "high") = {}
    BY <1>1, PartSize DEF OfSeverity
  <2>2. /\ IsFiniteSet(severe)
        /\ Cardinality(severe) = Cardinality(OfSeverity(issues, "critical"))
                                    + Cardinality(OfSeverity(issues, "high"))
    BY <2>1, FS_Union, FS_EmptySet, FS_CardinalityType
  <2>3. ASSUME NEW k \in DOMAIN keys
        PROVE  keys[k].critical + keys[k].high = Cardinality(Of(k))
    <3> DEFINE mine == {i \in issues : tie[i] = k}
    <3>1. keys[k] = BySeverity(mine)
      BY <1>2, <1>5
    <3>2. /\ keys[k].critical = Cardinality(OfSeverity(mine, "critical"))
          /\ keys[k].high = Cardinality(OfSeverity(mine, "high"))
      BY <3>1, SeverityCount
    <3>3. /\ OfSeverity(mine, "critical") \cup OfSeverity(mine, "high") = Of(k)
          /\ OfSeverity(mine, "critical") \cap OfSeverity(mine, "high") = {}
      BY DEF OfSeverity
    <3>4. IsFiniteSet(OfSeverity(mine, "critical")) /\ IsFiniteSet(OfSeverity(mine, "high"))
      BY <1>1, PartSize DEF OfSeverity
    <3> HIDE DEF mine, Of
    <3>5. Cardinality(OfSeverity(mine, "critical") \cup OfSeverity(mine, "high"))
             = Cardinality(OfSeverity(mine, "critical")) + Cardinality(OfSeverity(mine, "high"))
                  - Cardinality({})
      BY <3>3, <3>4, FS_Union
    <3>6. /\ Cardinality(OfSeverity(mine, "critical")) \in Nat
          /\ Cardinality(OfSeverity(mine, "high")) \in Nat
      BY <3>4, FS_CardinalityType
    <3>7. Cardinality(Of(k)) = keys[k].critical + keys[k].high - 0
      BY <3>2, <3>3, <3>5, FS_EmptySet
    <3> QED
      BY <3>2, <3>6, <3>7
  <2>4. correlated \subseteq DOMAIN keys /\ IsFiniteSet(correlated)
    <3>1. IsFiniteSet(DOMAIN keys)
      <4> HIDE DEF tie
      <4> QED
        BY <1>1, <1>6, KeysFinite
    <3> QED
      BY <3>1, PartSize
  <2>5. [k \in correlated |-> keys[k].critical + keys[k].high]
           = [k \in correlated |-> Cardinality({i \in severe : tie[i] = k})]
    BY <2>3, <2>4
  <2> HIDE DEF severe, correlated, tie
  <2>6. SumFunction([k \in correlated |-> Cardinality({i \in severe : tie[i] = k})])
           = Cardinality({i \in severe : tie[i] \in correlated})
    BY <2>2, <2>4, CountByKey
  <2>7. {i \in severe : tie[i] \in correlated} \subseteq severe
    OBVIOUS
  <2>8. Cardinality({i \in severe : tie[i] \in correlated}) <= Cardinality(severe)
    BY <2>2, <2>7, FS_Subset
  <2> QED
    BY <1>3, <1>4, <2>2, <2>5, <2>6, <2>8, SeverityCount DEF correlated
<1> QED
  BY <1>7, <1>10, <1>11, <1>12, <1>13 DEF GroupsAgree, p

\* The issues that are read as of one technology
OfTechnology(issues, scans, t) == {i \in issues : ResolvedTechnology(i, scans) = t}

LEMMA TechnologyCount ==
    ASSUME NEW scans, NEW issues
    PROVE  /\ DOMAIN ByTechnology(scans, issues) = Technologies
           /\ \A t \in Technologies :
                 ByTechnology(scans, issues)[t] = Cardinality(OfTechnology(issues, scans, t))
BY DEF ByTechnology, HowMany, OfTechnology

Technical(issues, scans) == {i \in issues : ResolvedTechnology(i, scans) \in Technologies}

LEMMA TechnologiesAddUp ==
    ASSUME NEW scans, NEW issues, IsFiniteSet(issues)
    PROVE  SumFunction(ByTechnology(scans, issues)) = Cardinality(Technical(issues, scans))
<1> DEFINE key == [i \in issues |-> ResolvedTechnology(i, scans)]
<1>1. IsFiniteSet(Technologies)
  BY SeveritiesFinite
<1>2. SumFunction([t \in Technologies |-> Cardinality({i \in issues : key[i] = t})])
         = Cardinality({i \in issues : key[i] \in Technologies})
  <2> HIDE DEF key
  <2> QED
    BY <1>1, CountByKey
<1>3. \A t : {i \in issues : key[i] = t} = {i \in issues : ResolvedTechnology(i, scans) = t}
  OBVIOUS
<1>4. ByTechnology(scans, issues) = [t \in Technologies |-> Cardinality({i \in issues : key[i] = t})]
  BY <1>3 DEF ByTechnology, HowMany
<1>5. {i \in issues : key[i] \in Technologies} = Technical(issues, scans)
  BY DEF Technical
<1> HIDE DEF key
<1> QED
  BY <1>2, <1>4, <1>5

\* Options count every issue once.
LEMMA OptionsAddUp ==
    ASSUME NEW scans, IsFiniteSet(scans), NEW issues, IsFiniteSet(issues),
           NEW options, options = FilterOptions(scans, issues)
    PROVE  SumFunction(options.technologies) + options.unclassified = Cardinality(issues)
<1> DEFINE technical == Technical(issues, scans)
<1>1. /\ options.technologies = ByTechnology(scans, issues)
      /\ options.unclassified = Cardinality({i \in issues : ResolvedTechnology(i, scans) = "UNKNOWN"})
  BY DEF FilterOptions, HowMany
<1>2. \A i : ResolvedTechnology(i, scans) \in Technologies \cup {"UNKNOWN"}
  BY ResolvedIsKnown
<1>3. "UNKNOWN" \notin Technologies
  BY DEF Technologies
<1>4. issues \ technical = {i \in issues : ResolvedTechnology(i, scans) = "UNKNOWN"}
  BY <1>2, <1>3 DEF Technical
<1>5. technical \in SUBSET issues
  BY DEF Technical
<1> HIDE DEF technical
<1>6. Cardinality(technical) + Cardinality(issues \ technical) = Cardinality(issues)
  BY <1>5, PartSize
<1> QED
  BY <1>1, <1>4, <1>6, TechnologiesAddUp DEF technical

\* The rows of the heatmap leave out what has no known severity.
LEMMA ColumnsAddUp ==
    ASSUME NEW scans, NEW issues, IsFiniteSet(issues), NEW heat, heat = Heatmap(scans, issues),
           NEW t \in Technologies
    PROVE  SumFunction([l \in Levels |-> heat[l][t]]) <= ByTechnology(scans, issues)[t]
<1> DEFINE mine == OfTechnology(issues, scans, t)
           key == [i \in issues |-> i.severity]
<1>1. IsFiniteSet(mine) /\ IsFiniteSet(Levels)
  BY PartSize, SeveritiesFinite DEF OfTechnology
<1>2. ASSUME NEW l \in Levels
      PROVE  heat[l][t] = Cardinality({i \in mine : key[i] = l})
  <2>1. heat[l] = ByTechnology(scans, {i \in issues : i.severity = l})
    BY DEF Heatmap
  <2>2. heat[l][t] = Cardinality(OfTechnology({i \in issues : i.severity = l}, scans, t))
    BY <2>1, TechnologyCount
  <2>3. OfTechnology({i \in issues : i.severity = l}, scans, t) = {i \in mine : key[i] = l}
    BY DEF OfTechnology
  <2> QED
    BY <2>2, <2>3
<1>3. [l \in Levels |-> heat[l][t]] = [l \in Levels |-> Cardinality({i \in mine : key[i] = l})]
  BY <1>2
<1> HIDE DEF mine, key
<1>4. SumFunction([l \in Levels |-> Cardinality({i \in mine : key[i] = l})])
         = Cardinality({i \in mine : key[i] \in Levels})
  BY <1>1, CountByKey
<1>5. Cardinality({i \in mine : key[i] \in Levels}) <= Cardinality(mine)
  BY <1>1, PartSize
<1>6. ByTechnology(scans, issues)[t] = Cardinality(mine)
  BY TechnologyCount DEF mine
<1> QED
  BY <1>3, <1>4, <1>5, <1>6

LEMMA HeatmapAddsUp ==
    ASSUME NEW scans, NEW issues, IsFiniteSet(issues), NEW heat, heat = Heatmap(scans, issues),
           \A i \in issues : i.severity \in Levels
    PROVE  SumOf(heat) = SumFunction(ByTechnology(scans, issues))
<1> DEFINE technical == Technical(issues, scans)
           key == [i \in issues |-> i.severity]
<1>1. IsFiniteSet(technical) /\ IsFiniteSet(Levels)
  BY PartSize, SeveritiesFinite DEF Technical
<1>2. ASSUME NEW l \in Levels
      PROVE  SumFunction(heat[l]) = Cardinality({i \in technical : key[i] = l})
  <2> DEFINE mine == {i \in issues : i.severity = l}
  <2>1. heat[l] = ByTechnology(scans, mine)
    BY DEF Heatmap
  <2>2. IsFiniteSet(mine)
    BY PartSize
  <2>3. Technical(mine, scans) = {i \in technical : key[i] = l}
    BY DEF Technical
  <2> HIDE DEF mine
  <2> QED
    BY <2>1, <2>2, <2>3, TechnologiesAddUp
<1>3. DOMAIN heat = Levels
  BY DEF Heatmap
<1>4. [l \in DOMAIN heat |-> SumFunction(heat[l])]
         = [l \in Levels |-> Cardinality({i \in technical : key[i] = l})]
  BY <1>2, <1>3
<1>5. {i \in technical : key[i] \in Levels} = technical
  BY DEF Technical
<1> HIDE DEF technical, key
<1>6. SumFunction([l \in Levels |-> Cardinality({i \in technical : key[i] = l})])
         = Cardinality({i \in technical : key[i] \in Levels})
  BY <1>1, CountByKey
<1>7. SumOf(heat) = SumFunction([l \in DOMAIN heat |-> SumFunction(heat[l])])
  BY DEF SumOf
<1>8. SumFunction(ByTechnology(scans, issues)) = Cardinality(technical)
  BY TechnologiesAddUp DEF technical
<1> QED
  BY <1>4, <1>5, <1>6, <1>7, <1>8

LEMMA KindsAddUp ==
    ASSUME NEW scans, IsFiniteSet(scans)
    PROVE  SumFunction(CountsBy(scans, LAMBDA s : s.type)) = Cardinality(scans)
<1> DEFINE key == [s \in scans |-> s.type]
           kinds == {key[s] : s \in scans}
<1>1. IsFiniteSet(kinds) /\ {s \in scans : key[s] \in kinds} = scans
  <2>1. DOMAIN key = scans
    OBVIOUS
  <2> HIDE DEF key
  <2> QED
    BY <2>1, ImageSize
<1>2. kinds = {s.type : s \in scans}
  OBVIOUS
<1>3. \A k : {s \in scans : key[s] = k} = {s \in scans : s.type = k}
  OBVIOUS
<1> HIDE DEF key, kinds
<1>4. CountsBy(scans, LAMBDA s : s.type) = [k \in kinds |-> Cardinality({s \in scans : key[s] = k})]
  BY <1>2, <1>3 DEF CountsBy, HowMany
<1>5. SumFunction([k \in kinds |-> Cardinality({s \in scans : key[s] = k})])
         = Cardinality({s \in scans : key[s] \in kinds})
  BY <1>1, CountByKey
<1> QED
  BY <1>1, <1>4, <1>5

LEMMA CountsAddUp ==
    ASSUME NEW f, NEW lists, NEW n \in Nat, NEW b, b = Bundle(f, lists, n),
           DatedIssues(b.issues), DatedIssues(b.options), DatedScans(b.scans)
    PROVE  CountsAgree(f, b)
<1> DEFINE options == FilterOptions(b.scans, b.options)
           heat == Heatmap(b.scans, b.issues)
           stats == b.statistics
           listed == HowMany(b.issues, LAMBDA i : ~IsActive(i))
<1>1. IsFiniteSet(b.issues) /\ IsFiniteSet(b.options) /\ IsFiniteSet(b.scans)
  BY DEF DatedIssues, DatedScans
<1>2. b.issues = OfDimensions(b.scans, b.options, f)
  BY DEF Bundle
<1>3. stats = Statistics(f, b.scans, b.issues, b.appStats, n)
  BY DEF Bundle
<1>4. /\ stats.technologies = ByTechnology(b.scans, b.issues)
      /\ stats.resolved = IF Scoped(f) THEN listed ELSE Max({listed, n})
      /\ OnData(f) => /\ stats.total = Cardinality(b.issues)
                      /\ stats.critical = BySeverity(b.issues).critical
                      /\ stats.high = BySeverity(b.issues).high
                      /\ stats.medium = BySeverity(b.issues).medium
                      /\ stats.low = stats.total - stats.critical - stats.high - stats.medium
  BY <1>3 DEF Statistics
<1>5. SumFunction(options.technologies) + options.unclassified = Cardinality(b.options)
  BY <1>1, OptionsAddUp
<1>6. f.technologies \cup f.vulnerabilities = {} =>
         b.issues = b.options /\ stats.technologies = options.technologies
  <2> SUFFICES ASSUME f.technologies \cup f.vulnerabilities = {}
               PROVE  b.issues = b.options /\ stats.technologies = options.technologies
    OBVIOUS
  <2>1. f.technologies = {} /\ f.vulnerabilities = {}
    OBVIOUS
  <2>2. b.issues = b.options
    BY <1>2, <2>1 DEF OfDimensions
  <2>3. options.technologies = ByTechnology(b.scans, b.options)
    BY DEF FilterOptions
  <2> QED
    BY <1>4, <2>2, <2>3
<1>7. \A t \in Technologies :
         SumFunction([l \in Levels |-> heat[l][t]]) <= stats.technologies[t]
  <2> HIDE DEF stats
  <2> QED
    BY <1>1, <1>4, ColumnsAddUp
<1>8. ~(\E i \in b.issues : i.severity = "unknown") =>
         SumOf(heat) = SumFunction(stats.technologies)
  <2>1. ~(\E i \in b.issues : i.severity = "unknown") => \A i \in b.issues : i.severity \in Levels
    BY DEF DatedIssues, Severities
  <2> HIDE DEF stats
  <2> QED
    BY <1>1, <1>4, <2>1, HeatmapAddsUp
<1>9. StatusDistribution(b.issues).Fixed = HowMany(b.issues, LAMBDA i : ~IsActive(i))
  <2>1. "Fixed" \in DOMAIN ChartStatuses /\ ChartStatuses["Fixed"] = Resolved
    BY DEF ChartStatuses
  <2>2. {i \in b.issues : i.status \in Resolved} = {i \in b.issues : ~IsActive(i)}
    BY DEF IsActive
  <2> QED
    BY <2>1, <2>2 DEF StatusDistribution, HowMany
<1>10. Kpi(b.issues).closed <= stats.resolved
  <2> DEFINE closed == {i \in b.issues : i.status \in {"fixed", "closed"}}
             resolved == {i \in b.issues : ~IsActive(i)}
  <2>1. Kpi(b.issues).closed = Cardinality(closed) /\ listed = Cardinality(resolved)
    BY DEF Kpi, HowMany
  <2>2. closed \in SUBSET resolved
    BY DEF IsActive, Resolved
  <2>3. IsFiniteSet(resolved) /\ Cardinality(resolved) \in Nat
    BY <1>1, PartSize
  <2> HIDE DEF closed, resolved, listed, stats
  <2>4. Cardinality(closed) <= Cardinality(resolved) /\ Cardinality(closed) \in Nat
    BY <2>2, <2>3, PartSize
  <2>5. stats.resolved >= listed
    BY <1>4, <2>1, <2>3, MaxOfTwo
  <2>6. stats.resolved = listed \/ stats.resolved = n
    BY <1>4, <2>1, <2>3, MaxOfTwo
  <2> QED
    BY <2>1, <2>3, <2>4, <2>5, <2>6
<1>11. OnData(f) => stats.critical + stats.high + stats.medium + stats.low = stats.total
  <2> SUFFICES ASSUME OnData(f)
               PROVE  stats.critical + stats.high + stats.medium + stats.low = stats.total
    OBVIOUS
  <2>1. \A l : IsFiniteSet(OfSeverity(b.issues, l)) /\ Cardinality(OfSeverity(b.issues, l)) \in Nat
    BY <1>1, PartSize DEF OfSeverity
  <2>2. Cardinality(b.issues) \in Nat
    BY <1>1, FS_CardinalityType
  <2> HIDE DEF stats
  <2>3. stats.critical \in Nat /\ stats.high \in Nat /\ stats.medium \in Nat /\ stats.total \in Nat
    BY <1>4, <2>1, <2>2, SeverityCount
  <2>4. stats.low = stats.total - stats.critical - stats.high - stats.medium
    BY <1>4
  <2> QED
    BY <2>3, <2>4
<1>12. SumFunction(CountsBy(b.scans, LAMBDA s : s.type)) = Cardinality(b.scans)
  BY <1>1, KindsAddUp
<1> HIDE DEF options, heat, stats
<1> QED
  BY <1>5, <1>6, <1>7, <1>8, <1>9, <1>10, <1>11, <1>12 DEF CountsAgree, options, heat, stats

LEMMA RowsHold ==
    ASSUME NEW items, IsFiniteSet(items), NEW day, NEW period, NEW today,
           NEW days, days = {day[x] : x \in items}
    PROVE  /\ IsFiniteSet(Rows(days, period, today)) /\ Rows(days, period, today) # {}
           /\ \A x \in items : day[x] # NoDate => Bucket(day[x], period) \in Rows(days, period, today)
<1> DEFINE f == [x \in items |-> day[x]]
           dated == IF days \ {NoDate} = {} THEN {today} ELSE days \ {NoDate}
           g == [d \in dated |-> Bucket(d, period)]
           K == Rows(days, period, today)
<1>1. days = {f[x] : x \in items} /\ DOMAIN f = items
  OBVIOUS
<1>2. IsFiniteSet(days)
  <2> HIDE DEF f
  <2> QED
    BY <1>1, ImageSize
<1>3. IsFiniteSet(dated) /\ dated # {}
  <2>1. IsFiniteSet(days \ {NoDate})
    BY <1>2, PartSize
  <2> QED
    BY <2>1, FS_Singleton
<1>4. K = {g[d] : d \in dated} /\ DOMAIN g = dated
  BY DEF Rows
<1>5. \A x \in items : day[x] # NoDate => day[x] \in dated
  OBVIOUS
<1>6. \A d \in dated : g[d] = Bucket(d, period)
  OBVIOUS
<1> HIDE DEF dated, g, K
<1>7. IsFiniteSet({g[d] : d \in dated})
  BY <1>3, <1>4, ImageSize
<1>8. \A x \in items : day[x] # NoDate => Bucket(day[x], period) \in K
  BY <1>4, <1>5, <1>6
<1>9. IsFiniteSet(K) /\ K # {}
  BY <1>3, <1>4, <1>7
<1> QED
  BY <1>8, <1>9 DEF K

\* Whatever a row splits its items into, the rows hold each dated item once.
LEMMA RowsAddUp ==
    ASSUME NEW items, IsFiniteSet(items), NEW day, NEW period, NEW today,
           NEW series, DOMAIN series = Rows({day[x] : x \in items}, period, today),
           \A k \in DOMAIN series :
              SumFunction(series[k])
                 = Cardinality({x \in items : day[x] # NoDate /\ Bucket(day[x], period) = k})
    PROVE  SumOf(series) = Cardinality({x \in items : day[x] # NoDate})
<1> DEFINE dated == {x \in items : day[x] # NoDate}
           key == [x \in dated |-> Bucket(day[x], period)]
           K == DOMAIN series
<1>1. IsFiniteSet(dated) /\ IsFiniteSet(K)
  <2>1. IsFiniteSet(dated)
    BY PartSize
  <2>2. PICK days : days = {day[x] : x \in items}
    OBVIOUS
  <2>3. IsFiniteSet(Rows(days, period, today))
    BY <2>2, RowsHold
  <2> QED
    BY <2>1, <2>2, <2>3
<1>2. {x \in dated : key[x] \in K} = dated
  BY RowsHold
<1>3. \A k : {x \in dated : key[x] = k}
                = {x \in items : day[x] # NoDate /\ Bucket(day[x], period) = k}
  OBVIOUS
<1> HIDE DEF dated, key
<1>4. [k \in K |-> SumFunction(series[k])] = [k \in K |-> Cardinality({x \in dated : key[x] = k})]
  BY <1>3
<1> HIDE DEF K
<1>5. SumFunction([k \in K |-> Cardinality({x \in dated : key[x] = k})])
         = Cardinality({x \in dated : key[x] \in K})
  BY <1>1, CountByKey
<1>6. SumOf(series) = SumFunction([k \in K |-> SumFunction(series[k])])
  BY DEF SumOf, K
<1> QED
  BY <1>2, <1>4, <1>5, <1>6 DEF dated

LEMMA FindingsAddUp ==
    ASSUME NEW issues, DatedIssues(issues), NEW period, NEW today
    PROVE  SumOf(FindingsSeries(issues, period, today))
              = HowMany(issues, LAMBDA i : i.opened # NoDate)
<1> DEFINE day == [i \in issues |-> i.opened]
           series == FindingsSeries(issues, period, today)
<1>1. IsFiniteSet(issues) /\ \A i \in issues : i.severity \in Severities
  BY DEF DatedIssues
<1>2. {day[i] : i \in issues} = {i.opened : i \in issues}
  OBVIOUS
<1>3. DOMAIN series = Rows({day[i] : i \in issues}, period, today)
  BY <1>2 DEF FindingsSeries
<1>4. ASSUME NEW k \in DOMAIN series
      PROVE  SumFunction(series[k])
                = Cardinality({i \in issues : day[i] # NoDate /\ Bucket(day[i], period) = k})
  <2> DEFINE mine == {i \in issues : day[i] # NoDate /\ Bucket(day[i], period) = k}
  <2>1. series[k] = BySeverity(Dated(issues, LAMBDA i : i.opened, k, period))
    BY DEF FindingsSeries
  <2>2. Dated(issues, LAMBDA i : i.opened, k, period) = mine
    BY DEF Dated
  <2>3. IsFiniteSet(mine) /\ \A i \in mine : i.severity \in Severities
    BY <1>1, PartSize
  <2> HIDE DEF mine, series
  <2>4. SumFunction(BySeverity(mine)) = Cardinality(mine)
    BY <2>3, SeveritiesAddUp
  <2> QED
    BY <2>1, <2>2, <2>4 DEF mine
<1>5. {i \in issues : day[i] # NoDate} = {i \in issues : i.opened # NoDate}
  OBVIOUS
<1> HIDE DEF day, series
<1>6. SumOf(series) = Cardinality({i \in issues : day[i] # NoDate})
  BY <1>1, <1>3, <1>4, RowsAddUp
<1> QED
  BY <1>5, <1>6 DEF HowMany, series

LEMMA ScanSeverityIsKnown ==
    ASSUME NEW issues, IsFiniteSet(issues), NEW s, s.severity \in Severities, NEW mode
    PROVE  SeverityOfScan(s, issues, mode) \in Severities
<1>1. IsFiniteSet({i \in issues : i.app = s.app /\ IsActive(i)})
  BY PartSize
<1>2. DerivedSeverity(s, issues) \in Severities
  BY <1>1, DominantIs DEF DerivedSeverity, Severities
<1> QED
  BY <1>2 DEF SeverityOfScan

LEMMA ScansAddUp ==
    ASSUME NEW issues, IsFiniteSet(issues), NEW scans, DatedScans(scans),
           NEW period, NEW mode, NEW today
    PROVE  SumOf(ScanSeries(scans, issues, period, mode, today))
              = HowMany(scans, LAMBDA s : s.created # NoDate)
<1> DEFINE day == [s \in scans |-> s.created]
           key == [s \in scans |-> SeverityOfScan(s, issues, mode)]
           series == ScanSeries(scans, issues, period, mode, today)
<1>1. IsFiniteSet(scans) /\ \A s \in scans : s.severity \in Severities
  BY DEF DatedScans
<1>2. {day[s] : s \in scans} = {s.created : s \in scans}
  OBVIOUS
<1>3. DOMAIN series = Rows({day[s] : s \in scans}, period, today)
  BY <1>2 DEF ScanSeries
<1>4. ASSUME NEW k \in DOMAIN series
      PROVE  SumFunction(series[k])
                = Cardinality({s \in scans : day[s] # NoDate /\ Bucket(day[s], period) = k})
  <2> DEFINE mine == {s \in scans : day[s] # NoDate /\ Bucket(day[s], period) = k}
  <2>1. Dated(scans, LAMBDA s : s.created, k, period) = mine
    BY DEF Dated
  <2>2. series[k] = [l \in Severities |->
                        HowMany(Dated(scans, LAMBDA s : s.created, k, period),
                                LAMBDA s : SeverityOfScan(s, issues, mode) = l)]
    BY DEF ScanSeries
  <2>3. IsFiniteSet(mine) /\ mine \subseteq scans
    BY <1>1, PartSize
  <2> HIDE DEF mine, series
  <2>4. \A l : {s \in mine : SeverityOfScan(s, issues, mode) = l} = {s \in mine : key[s] = l}
    BY <2>3
  <2>5. series[k] = [l \in Severities |-> Cardinality({s \in mine : key[s] = l})]
    BY <2>1, <2>2, <2>4 DEF HowMany
  <2>6. {s \in mine : key[s] \in Severities} = mine
    BY <1>1, <2>3, ScanSeverityIsKnown
  <2>7. IsFiniteSet(Severities)
    BY SeveritiesFinite
  <2> HIDE DEF key
  <2>8. SumFunction([l \in Severities |-> Cardinality({s \in mine : key[s] = l})])
           = Cardinality({s \in mine : key[s] \in Severities})
    BY <2>3, <2>7, CountByKey
  <2> QED
    BY <2>5, <2>6, <2>8 DEF mine
<1>5. {s \in scans : day[s] # NoDate} = {s \in scans : s.created # NoDate}
  OBVIOUS
<1> HIDE DEF day, series
<1>6. SumOf(series) = Cardinality({s \in scans : day[s] # NoDate})
  BY <1>1, <1>3, <1>4, RowsAddUp
<1> QED
  BY <1>5, <1>6 DEF HowMany, series

\* The last cumulative row holds everything.
LEMMA RisesToAll ==
    ASSUME NEW issues, DatedIssues(issues), NEW today \in Nat,
           NEW series, series = FindingsSeries(issues, "week", today),
           NEW rising, rising = Cumulative(series)
    PROVE  rising[Max(DOMAIN rising)] = SumOf(series)
<1> DEFINE days == {i.opened : i \in issues}
           day == [i \in issues |-> i.opened]
           K == DOMAIN series
<1>1. DOMAIN rising = K /\ K = Rows(days, "week", today)
  BY DEF Cumulative, FindingsSeries
<1>2. days \subseteq Nat /\ IsFiniteSet(issues) /\ days = {day[i] : i \in issues}
  BY DEF DatedIssues
<1>3. K \subseteq Int
  <2>1. PeriodLength["week"] = 7
    BY DEF PeriodLength
  <2>2. \A d \in Nat : Bucket(d, "week") \in Int
    BY <2>1 DEF Bucket
  <2> QED
    BY <1>1, <1>2, <2>2 DEF Rows
<1>4. IsFiniteSet(K) /\ K # {}
  <2> HIDE DEF day, days, K
  <2> QED
    BY <1>1, <1>2, RowsHold
<1> DEFINE top == Max(K)
<1>5. top \in K /\ \A d \in K : d <= top
  BY <1>3, <1>4, MaxExists
<1>6. {d \in DOMAIN series : d <= top} = DOMAIN series
  BY <1>5
<1>7. rising[top] = SumFunction([c \in {d \in DOMAIN series : d <= top} |-> SumFunction(series[c])])
  BY <1>5 DEF Cumulative
<1> HIDE DEF top, K
<1>8. rising[top] = SumFunction([c \in DOMAIN series |-> SumFunction(series[c])])
  BY <1>6, <1>7
<1> QED
  BY <1>1, <1>8 DEF SumOf, top

LEMMA MttrIsLess ==
    ASSUME NEW issues, DatedIssues(issues), NEW m \in DOMAIN Mttr(issues)
    PROVE  /\ Mttr(issues)[m].count = AverageResolve(issues)[m].count
           /\ Mttr(issues)[m].days <= AverageResolve(issues)[m].days
<1> DEFINE closed == Dated(issues, LAMBDA i : i.closed, m, "month")
           said == [i \in closed |-> i.days]
           taken == [i \in closed |-> DaysToResolve(i)]
<1>1. closed \subseteq issues /\ IsFiniteSet(closed)
  <2>1. closed = {i \in issues : i.closed # NoDate /\ Bucket(i.closed, "month") = m}
    BY DEF Dated
  <2> QED
    BY <2>1, PartSize DEF DatedIssues
<1>2. /\ Mttr(issues)[m].days = SumFunction(said)
      /\ Mttr(issues)[m].count = Cardinality(closed)
  BY DEF Mttr, ResolvedByMonth
<1>3. /\ AverageResolve(issues)[m].days = SumFunction(taken)
      /\ AverageResolve(issues)[m].count = Cardinality(closed)
  BY DEF Mttr, AverageResolve, ResolvedByMonth
<1>4. \A i \in closed : i.days \in Nat /\ DaysToResolve(i) \in Nat /\ i.days <= DaysToResolve(i)
  <2> SUFFICES ASSUME NEW i \in closed
               PROVE  i.days \in Nat /\ DaysToResolve(i) \in Nat /\ i.days <= DaysToResolve(i)
    OBVIOUS
  <2>1. i.days \in Nat /\ i.opened \in Nat /\ i.closed \in Nat
    BY <1>1 DEF DatedIssues
  <2> HIDE DEF closed
  <2> QED
    BY <2>1 DEF DaysToResolve
<1> HIDE DEF closed
<1>5. said \in [closed -> Nat] /\ taken \in [closed -> Nat] /\ \A i \in closed : said[i] <= taken[i]
  BY <1>4
<1> HIDE DEF said, taken
<1>6. SumFunction(said) <= SumFunction(taken)
  BY <1>1, <1>5, SumMonotonic
<1> QED
  BY <1>2, <1>3, <1>6

LEMMA SeriesAddUp ==
    ASSUME NEW b, DatedIssues(b.issues), DatedScans(b.scans)
    PROVE  SeriesAgree(b)
<1> DEFINE opened == HowMany(b.issues, LAMBDA i : i.opened # NoDate)
           made == HowMany(b.scans, LAMBDA s : s.created # NoDate)
           series == FindingsSeries(b.issues, "week", Today)
           rising == Cumulative(series)
<1>1. IsFiniteSet(b.issues) /\ Today \in Nat
  BY PortfolioAssumption DEF DatedIssues
<1>2. \A period : SumOf(FindingsSeries(b.issues, period, Today)) = opened
  BY FindingsAddUp
<1>3. rising[Max(DOMAIN rising)] = opened
  BY <1>1, <1>2, RisesToAll
<1>4. \A period, mode : SumOf(ScanSeries(b.scans, b.issues, period, mode, Today)) = made
  BY <1>1, ScansAddUp
<1>5. \A m \in DOMAIN Mttr(b.issues) :
         /\ Mttr(b.issues)[m].count = AverageResolve(b.issues)[m].count
         /\ Mttr(b.issues)[m].days <= AverageResolve(b.issues)[m].days
  BY MttrIsLess
<1> HIDE DEF opened, made, rising, series
<1> QED
  BY <1>2, <1>3, <1>4, <1>5 DEF SeriesAgree, opened, made, rising, series

\* Issues of fewer offend against a weaker rule.
LEMMA RulesAgree ==
    \A l \in Severities :
       /\ Offends(l, "any_open", "high") <=> Offends(l, "custom", "low")
       /\ Offends(l, "critical_high", "high") <=> Offends(l, "custom", "high")
       /\ Offends(l, "critical_high", "high") => Offends(l, "any_open", "high")
<1> SUFFICES ASSUME NEW l \in Severities
             PROVE  /\ Offends(l, "any_open", "high") <=> Offends(l, "custom", "low")
                    /\ Offends(l, "critical_high", "high") <=> Offends(l, "custom", "high")
                    /\ Offends(l, "critical_high", "high") => Offends(l, "any_open", "high")
  OBVIOUS
<1>1. /\ Offends(l, "any_open", "high") <=> l # "unknown"
      /\ Offends(l, "critical_high", "high") <=> l \in {"critical", "high"}
  BY DEF Offends
<1>2. /\ Offends(l, "custom", "low") <=> SeverityRank[l] >= SeverityRank["low"]
      /\ Offends(l, "custom", "high") <=> SeverityRank[l] >= SeverityRank["high"]
  BY DEF Offends
<1>3. /\ SeverityRank["critical"] = 4 /\ SeverityRank["high"] = 3
      /\ SeverityRank["medium"] = 2 /\ SeverityRank["low"] = 1 /\ SeverityRank["unknown"] = 0
  BY DEF SeverityRank
<1>4. \/ l = "critical" \/ l = "high" \/ l = "medium" \/ l = "low" \/ l = "unknown"
  BY SeveritiesFinite
<1> QED
  BY <1>1, <1>2, <1>3, <1>4

\* The applications that have an offending issue of a month
Offending(issues, rule, threshold, m) ==
    {i.app : i \in {j \in Dated(issues, LAMBDA i : i.opened, m, "month") :
                       j.app # Missing /\ Offends(j.severity, rule, threshold)}}

LEMMA ComplianceOf ==
    ASSUME NEW scans, NEW issues, NEW apps, NEW rule, NEW threshold,
           NEW by, by = Compliance(scans, issues, apps, rule, threshold, Today)
    PROVE  DOMAIN by = Months(scans, issues, Today)
<1> QED
  BY DEF Compliance

LEMMA ComplianceCounts ==
    ASSUME NEW scans, NEW issues, NEW apps, NEW rule, NEW threshold,
           NEW by, by = Compliance(scans, issues, apps, rule, threshold, Today),
           NEW m \in DOMAIN by,
           NEW offending, offending = Offending(issues, rule, threshold, m)
    PROVE  /\ by[m].nonCompliant = Cardinality(offending)
           /\ by[m].total = Cardinality(IdsOf(apps))
           /\ by[m].compliant = Max({0, Cardinality(IdsOf(apps)) - Cardinality(offending)})
<1> QED
  BY DEF Compliance, Offending, IdsOf

LEMMA OffendersFinite ==
    ASSUME NEW issues, DatedIssues(issues), NEW rule, NEW threshold, NEW m
    PROVE  /\ IsFiniteSet(Offending(issues, rule, threshold, m))
           /\ Offending(issues, rule, threshold, m) \subseteq {i.app : i \in issues}
<1> DEFINE mine == {j \in Dated(issues, LAMBDA i : i.opened, m, "month") :
                       j.app # Missing /\ Offends(j.severity, rule, threshold)}
           f == [i \in mine |-> i.app]
<1>1. mine \subseteq issues /\ IsFiniteSet(mine)
  <2>1. mine = {j \in issues : /\ j.opened # NoDate /\ Bucket(j.opened, "month") = m
                               /\ j.app # Missing /\ Offends(j.severity, rule, threshold)}
    BY DEF Dated
  <2> HIDE DEF mine
  <2> QED
    BY <2>1, PartSize DEF DatedIssues
<1>2. Offending(issues, rule, threshold, m) = {f[i] : i \in mine} /\ DOMAIN f = mine
  BY DEF Offending
<1>3. Offending(issues, rule, threshold, m) = {i.app : i \in mine}
  BY DEF Offending
<1> HIDE DEF mine, f
<1>4. IsFiniteSet({f[i] : i \in mine})
  BY <1>1, <1>2, ImageSize
<1> QED
  BY <1>1, <1>2, <1>3, <1>4

LEMMA OffendersAgree ==
    ASSUME NEW issues, DatedIssues(issues), NEW m
    PROVE  /\ Offending(issues, "any_open", "high", m) = Offending(issues, "custom", "low", m)
           /\ Offending(issues, "critical_high", "high", m) = Offending(issues, "custom", "high", m)
           /\ Offending(issues, "critical_high", "high", m)
                 \subseteq Offending(issues, "any_open", "high", m)
<1> DEFINE dated == Dated(issues, LAMBDA i : i.opened, m, "month")
           Those(rule, threshold) ==
              {j \in dated : j.app # Missing /\ Offends(j.severity, rule, threshold)}
<1>1. \A i \in dated : i.severity \in Severities
  BY DEF Dated, DatedIssues
<1>2. \A rule, threshold :
         Offending(issues, rule, threshold, m) = {i.app : i \in Those(rule, threshold)}
  BY DEF Offending
<1> HIDE DEF dated
<1>3. Those("any_open", "high") = Those("custom", "low")
  BY <1>1, RulesAgree
<1>4. Those("critical_high", "high") = Those("custom", "high")
  BY <1>1, RulesAgree
<1>5. Those("critical_high", "high") \subseteq Those("any_open", "high")
  BY <1>1, RulesAgree
<1> HIDE DEF Those
<1>6. Offending(issues, "any_open", "high", m) = Offending(issues, "custom", "low", m)
  BY <1>2, <1>3
<1>7. Offending(issues, "critical_high", "high", m) = Offending(issues, "custom", "high", m)
  BY <1>2, <1>4
<1>8. Offending(issues, "critical_high", "high", m) \subseteq Offending(issues, "any_open", "high", m)
  <2> DEFINE many == Those("any_open", "high")
             few == Those("critical_high", "high")
  <2>1. /\ Offending(issues, "any_open", "high", m) = {i.app : i \in many}
        /\ Offending(issues, "critical_high", "high", m) = {i.app : i \in few}
    BY <1>2
  <2>2. few \subseteq many
    BY <1>5
  <2> HIDE DEF many, few
  <2> QED
    BY <2>1, <2>2
<1> QED
  BY <1>6, <1>7, <1>8

LEMMA ComplianceAgrees ==
    ASSUME NEW scans, NEW issues, DatedIssues(issues), NEW apps, IsFiniteSet(apps),
           NEW strict, strict = Compliance(scans, issues, apps, "any_open", "high", Today),
           NEW usual, usual = Compliance(scans, issues, apps, "critical_high", "high", Today)
    PROVE  /\ strict = Compliance(scans, issues, apps, "custom", "low", Today)
           /\ usual = Compliance(scans, issues, apps, "custom", "high", Today)
           /\ \A m \in DOMAIN strict :
                 /\ strict[m].nonCompliant >= usual[m].nonCompliant
                 /\ {i.app : i \in issues} \subseteq IdsOf(apps) =>
                       strict[m].compliant + strict[m].nonCompliant = strict[m].total
<1> DEFINE By(rule, threshold) == Compliance(scans, issues, apps, rule, threshold, Today)
           Row(rule, threshold, m) ==
              LET n == Cardinality(Offending(issues, rule, threshold, m))
                  known == Cardinality({a.id : a \in apps})
              IN  [total |-> known, nonCompliant |-> n, compliant |-> Max({0, known - n})]
<1>1. \A rule, threshold :
         By(rule, threshold) = [m \in Months(scans, issues, Today) |-> Row(rule, threshold, m)]
  BY DEF Compliance, Offending
<1>2. \A m : /\ Row("any_open", "high", m) = Row("custom", "low", m)
             /\ Row("critical_high", "high", m) = Row("custom", "high", m)
  BY OffendersAgree
<1> HIDE DEF Row
<1>3. By("any_open", "high") = By("custom", "low") /\ By("critical_high", "high") = By("custom", "high")
  BY <1>1, <1>2
<1>4. ASSUME NEW m \in DOMAIN strict
      PROVE  /\ strict[m].nonCompliant >= usual[m].nonCompliant
             /\ {i.app : i \in issues} \subseteq IdsOf(apps) =>
                   strict[m].compliant + strict[m].nonCompliant = strict[m].total
  <2> DEFINE many == Offending(issues, "any_open", "high", m)
             few == Offending(issues, "critical_high", "high", m)
             known == IdsOf(apps)
  <2>1. /\ strict[m].nonCompliant = Cardinality(many) /\ strict[m].total = Cardinality(known)
        /\ strict[m].compliant = Max({0, Cardinality(known) - Cardinality(many)})
    <3>1. many = Offending(issues, "any_open", "high", m)
      OBVIOUS
    <3> HIDE DEF many
    <3> QED
      BY <3>1, ComplianceCounts
  <2>2. usual[m].nonCompliant = Cardinality(few)
    <3>1. m \in DOMAIN usual
      <4>1. DOMAIN strict = Months(scans, issues, Today)
        BY ComplianceOf
      <4>2. DOMAIN usual = Months(scans, issues, Today)
        BY ComplianceOf
      <4> QED
        BY <4>1, <4>2
    <3>2. \A k \in DOMAIN usual : usual[k].nonCompliant
                                   = Cardinality(Offending(issues, "critical_high", "high", k))
      BY DEF Compliance, Offending
    <3> QED
      BY <3>1, <3>2
  <2>3. IsFiniteSet(many) /\ many \subseteq {i.app : i \in issues}
    BY OffendersFinite
  <2>4. few \subseteq many
    BY OffendersAgree
  <2>5. IsFiniteSet(known)
    <3> DEFINE f == [a \in apps |-> a.id]
    <3>1. known = {f[a] : a \in apps} /\ DOMAIN f = apps
      BY DEF IdsOf
    <3> HIDE DEF f, known
    <3>2. IsFiniteSet({f[a] : a \in apps})
      BY <3>1, ImageSize
    <3> QED
      BY <3>1, <3>2
  <2> HIDE DEF many, few, known
  <2>6. Cardinality(few) <= Cardinality(many) /\ Cardinality(few) \in Nat /\ Cardinality(many) \in Nat
    BY <2>3, <2>4, FS_Subset, FS_CardinalityType
  <2>7. {i.app : i \in issues} \subseteq IdsOf(apps) => Cardinality(many) <= Cardinality(known)
    BY <2>3, <2>5, FS_Subset DEF known
  <2>8. Cardinality(known) \in Nat
    BY <2>5, FS_CardinalityType
  <2>9. Cardinality(many) <= Cardinality(known) =>
           Max({0, Cardinality(known) - Cardinality(many)}) = Cardinality(known) - Cardinality(many)
    BY <2>6, <2>8, MaxOfTwo
  <2> QED
    BY <2>1, <2>2, <2>6, <2>7, <2>8, <2>9
<1> QED
  BY <1>3, <1>4

LEMMA OnboardedOnce ==
    ASSUME NEW scans, NEW issues, NEW apps, IsFiniteSet(apps), NEW today,
           NEW onboarded, onboarded = Onboarded(scans, issues, apps, today)
    PROVE  SumFunction(onboarded) <= Cardinality(apps)
<1> DEFINE known == {a \in apps : OnboardedIn(a, scans) # -1}
           key == [a \in known |-> OnboardedIn(a, scans)]
           months == {key[a] : a \in known}
           last == Max(Months(scans, issues, today))
           Those(m) == {a \in known : key[a] = m}
           ids == [m \in months |-> Cardinality({a.id : a \in Those(m)})]
           sizes == [m \in months |-> Cardinality({a \in known : key[a] = m})]
<1>1. IsFiniteSet(known) /\ Cardinality(known) <= Cardinality(apps)
  BY PartSize
<1>2. IsFiniteSet(months)
  <2>1. DOMAIN key = known
    OBVIOUS
  <2> HIDE DEF known, key
  <2> QED
    BY <1>1, <2>1, ImageSize
<1>3. CASE known = {}
  <2> DEFINE all == [m \in {last} |-> apps]
  <2>1. onboarded = [m \in {last} |-> Cardinality(apps)]
    BY <1>3 DEF Onboarded
  <2>2. [m \in {last} |-> Cardinality(apps)] = [m \in {last} |-> Cardinality(all[m])]
    OBVIOUS
  <2>3. all \in [{last} -> SUBSET apps] /\ \A j, k \in {last} : j # k => all[j] \cap all[k] = {}
    OBVIOUS
  <2>4. UNION {all[m] : m \in {last}} = apps
    OBVIOUS
  <2>5. IsFiniteSet({last})
    BY FS_Singleton
  <2> HIDE DEF all, last
  <2>6. SumFunction([m \in {last} |-> Cardinality(all[m])])
           = Cardinality(UNION {all[m] : m \in {last}})
    BY <2>3, <2>5, SumOfParts
  <2>7. Cardinality(apps) \in Nat
    BY FS_CardinalityType
  <2> QED
    BY <2>1, <2>2, <2>4, <2>6, <2>7
<1>4. CASE known # {}
  <2>1. onboarded = ids
    <3>1. months = {OnboardedIn(a, scans) : a \in known}
      OBVIOUS
    <3>2. \A m : Those(m) = {a \in known : OnboardedIn(a, scans) = m}
      OBVIOUS
    <3>3. onboarded = [m \in {OnboardedIn(a, scans) : a \in known} |->
                         Cardinality({a.id : a \in {a \in known : OnboardedIn(a, scans) = m}})]
      BY <1>4 DEF Onboarded
    <3> HIDE DEF known, key, months, Those
    <3> QED
      BY <3>1, <3>2, <3>3
  <2>2. ASSUME NEW m \in months
        PROVE  ids[m] \in Nat /\ sizes[m] \in Nat /\ ids[m] <= sizes[m]
    <3> DEFINE f == [a \in Those(m) |-> a.id]
    <3>1. IsFiniteSet(Those(m))
      BY <1>1, PartSize
    <3>2. {a.id : a \in Those(m)} = {f[a] : a \in Those(m)} /\ DOMAIN f = Those(m)
      OBVIOUS
    <3>3. sizes[m] = Cardinality(Those(m)) /\ ids[m] = Cardinality({a.id : a \in Those(m)})
      OBVIOUS
    <3> HIDE DEF f, Those, ids, sizes, months
    <3>4. /\ Cardinality({f[a] : a \in Those(m)}) \in Nat
          /\ Cardinality({f[a] : a \in Those(m)}) <= Cardinality(Those(m))
      BY <3>1, <3>2, ImageSize
    <3>5. Cardinality(Those(m)) \in Nat
      BY <3>1, FS_CardinalityType
    <3> QED
      BY <3>2, <3>3, <3>4, <3>5
  <2>3. {a \in known : key[a] \in months} = known
    OBVIOUS
  <2>4. DOMAIN ids = months /\ DOMAIN sizes = months
    OBVIOUS
  <2>5. ids = [m \in months |-> ids[m]] /\ sizes = [m \in months |-> sizes[m]]
    OBVIOUS
  <2>6. SumFunction(sizes) = Cardinality({a \in known : key[a] \in months})
    <3> HIDE DEF known, key, months, ids
    <3> QED
      BY <1>1, <1>2, CountByKey
  <2> HIDE DEF known, key, months, ids, sizes
  <2>7. ids \in [months -> Nat] /\ sizes \in [months -> Nat] /\ \A m \in months : ids[m] <= sizes[m]
    BY <2>2, <2>5
  <2>8. SumFunction(ids) <= SumFunction(sizes)
    BY <1>2, <2>7, SumMonotonic
  <2>9. SumFunction(ids) \in Nat
    BY <1>2, <2>7, SumType
  <2>10. Cardinality(known) \in Nat /\ Cardinality(apps) \in Nat
    BY <1>1, FS_CardinalityType
  <2> QED
    BY <1>1, <2>1, <2>3, <2>6, <2>8, <2>9, <2>10
<1> QED
  BY <1>3, <1>4

LEMMA LicenseCounts ==
    ASSUME NEW scans, IsFiniteSet(scans), NEW said, NEW t \in Technologies,
           NEW license, license = License(said, scans)
    PROVE  /\ license[t].row.peak <= license[t].row.scans
           /\ license[t].row.apps <= license[t].row.scans
           /\ license[t].units <= license[t].row.scans
<1> DEFINE mine == {s \in scans : s.type = t}
           dated == {s \in mine : s.created # NoDate}
           perDay == CountsBy(dated, LAMBDA s : s.created)
           row == license[t].row
           homes == {s.app : s \in mine} \ {Missing}
           numbers == {perDay[d] : d \in DOMAIN perDay}
<1>1. /\ row.scans = Cardinality(mine) /\ row.apps = Cardinality(homes)
      /\ row.peak = IF DOMAIN perDay = {} THEN 0 ELSE Max(numbers)
      /\ license[t].units \in {row.apps, row.peak, row.scans}
  BY DEF License
<1>2. IsFiniteSet(mine) /\ Cardinality(mine) \in Nat
  BY PartSize
<1>3. IsFiniteSet(dated) /\ dated \subseteq mine
  BY <1>2, PartSize
<1>4. row.apps <= row.scans
  <2> DEFINE f == [s \in mine |-> s.app]
  <2>1. {s.app : s \in mine} = {f[s] : s \in mine} /\ DOMAIN f = mine
    OBVIOUS
  <2> HIDE DEF mine, f, row
  <2>2. /\ IsFiniteSet({f[s] : s \in mine})
        /\ Cardinality({f[s] : s \in mine}) \in Nat
        /\ Cardinality({f[s] : s \in mine}) <= Cardinality(mine)
    BY <1>2, <2>1, ImageSize
  <2>3. homes \in SUBSET {f[s] : s \in mine}
    BY <2>1
  <2> HIDE DEF homes
  <2>4. Cardinality(homes) <= Cardinality({f[s] : s \in mine}) /\ Cardinality(homes) \in Nat
    BY <2>2, <2>3, PartSize
  <2> QED
    BY <1>1, <1>2, <2>2, <2>4
<1>5. \A n \in numbers : n \in Nat /\ n <= Cardinality(mine)
  <2> SUFFICES ASSUME NEW d \in DOMAIN perDay
               PROVE  perDay[d] \in Nat /\ perDay[d] <= Cardinality(mine)
    OBVIOUS
  <2>1. perDay[d] = Cardinality({s \in dated : s.created = d})
    BY DEF CountsBy, HowMany
  <2>2. {s \in dated : s.created = d} \in SUBSET mine
    OBVIOUS
  <2> HIDE DEF mine, dated, perDay
  <2> QED
    BY <1>2, <2>1, <2>2, PartSize
<1>6. DOMAIN perDay # {} => Max(numbers) \in numbers
  <2> SUFFICES ASSUME DOMAIN perDay # {} PROVE Max(numbers) \in numbers
    OBVIOUS
  <2> DEFINE f == [s \in dated |-> s.created]
  <2>1. DOMAIN perDay = {f[s] : s \in dated} /\ DOMAIN f = dated
    BY DEF CountsBy
  <2> HIDE DEF dated, f, perDay
  <2>2. IsFiniteSet(DOMAIN perDay)
    BY <1>3, <2>1, ImageSize
  <2>3. IsFiniteSet(numbers)
    BY <2>2, ImageSize
  <2>4. numbers # {}
    OBVIOUS
  <2> HIDE DEF numbers
  <2>5. numbers \subseteq Int
    <3>1. \A n \in numbers : n \in Nat
      BY <1>5
    <3> QED
      BY <3>1
  <2> QED
    BY <2>3, <2>4, <2>5, MaxExists
<1> HIDE DEF mine, perDay, numbers, row
<1>7. row.peak <= row.scans
  <2>1. CASE DOMAIN perDay = {}
    <3>1. row.peak = 0
      BY <1>1, <2>1
    <3> QED
      BY <1>1, <1>2, <3>1
  <2>2. CASE DOMAIN perDay # {}
    <3>1. row.peak = Max(numbers)
      BY <1>1, <2>2
    <3>2. Max(numbers) <= Cardinality(mine)
      BY <1>5, <1>6, <2>2
    <3> QED
      BY <1>1, <3>1, <3>2
  <2> QED
    BY <2>1, <2>2
<1>8. license[t].units <= row.scans
  BY <1>1, <1>2, <1>4, <1>7
<1> QED
  BY <1>4, <1>7, <1>8 DEF row

LEMMA WorkbenchAddsUp ==
    ASSUME NEW b, DatedIssues(b.issues), DatedScans(b.scans), IsFiniteSet(b.apps)
    PROVE  WorkbenchAgrees(b)
<1> DEFINE By(rule, threshold) == Compliance(b.scans, b.issues, b.apps, rule, threshold, Today)
           strict == By("any_open", "high")
           usual == By("critical_high", "high")
           license == License("unknown", b.scans)
           onboarded == Onboarded(b.scans, b.issues, b.apps, Today)
<1>1. /\ strict = By("custom", "low") /\ usual = By("custom", "high")
      /\ \A m \in DOMAIN strict :
            /\ strict[m].nonCompliant >= usual[m].nonCompliant
            /\ {i.app : i \in b.issues} \subseteq IdsOf(b.apps) =>
                  strict[m].compliant + strict[m].nonCompliant = strict[m].total
  BY ComplianceAgrees
<1>2. SumFunction(onboarded) <= Cardinality(b.apps)
  BY OnboardedOnce
<1>3. \A t \in Technologies :
         /\ license[t].row.peak <= license[t].row.scans
         /\ license[t].row.apps <= license[t].row.scans
         /\ license[t].units <= license[t].row.scans
  BY LicenseCounts DEF DatedScans
<1> HIDE DEF By, license, onboarded
<1> QED
  BY <1>1, <1>2, <1>3 DEF WorkbenchAgrees, By, license, onboarded

LEMMA LevelsAreRead == \A l \in Levels : NormalizedSeverity(l) = l
<1> SUFFICES ASSUME NEW l \in Levels PROVE NormalizedSeverity(l) = l
  OBVIOUS
<1>1. /\ SeverityWords["critical"] = {"critical", "4", "sev4", "sev-4", "veryhigh"}
      /\ SeverityWords["high"] = {"high", "3", "sev3", "sev-3"}
      /\ SeverityWords["medium"] = {"medium", "moderate", "2", "sev2", "sev-2"}
      /\ SeverityWords["low"] = {"low", "1", "sev1", "sev-1", "info", "informational", "0"}
  BY DEF SeverityWords
<1>2. \A m \in Levels : l \in SeverityWords[m] <=> m = l
  BY <1>1 DEF Levels
<1>3. {m \in Levels : l \in SeverityWords[m]} = {l}
  BY <1>2
<1> QED
  BY <1>3 DEF NormalizedSeverity

\* A view of everything lists the issues of the selected sources and their applications.
LEMMA UnscopedShows ==
    ASSUME ContentInv, NEW user, user.admin, NEW f, ~Scoped(f), ~OnData(f), NEW n,
           NEW b, b = Bundle(f, Visible(user, f, Fetched(Sources)), n)
    PROVE  /\ b.issues = {MappedIssue(r) : r \in HeldBy(Selected(f))}
           /\ \A a \in b.apps : \E c \in Catalog : c.source \in Selected(f) /\ a = CountedApp(content, c)
<1> DEFINE lists == Fetched(Sources)
           seen == Visible(user, f, lists)
<1>1. \A items : Permitted(user, items) = items
  BY DEF Permitted
<1>2. seen.issues = OfSources(f, lists.issues) /\ seen.apps = OfSources(f, lists.apps)
  BY <1>1, VisibleIs
<1>3. /\ f.groups = {} /\ f.apps = {} /\ f.names = {}
      /\ f.technologies = {} /\ f.vulnerabilities = {}
      /\ f.scanTypes \cup f.scanStatuses = {} /\ f.from = NoDate /\ f.to = NoDate
  BY DEF OnData, Scoped
<1> HIDE DEF seen
<1>4. b.apps = seen.apps
  BY <1>3 DEF Bundle, CatalogApps, seen
<1>5. b.issues = seen.issues
  <2>1. b.issues = ShownIssues(f, seen)
    BY BundleShows DEF seen
  <2>2. ScopeOf(f, seen) = {}
    BY <1>3 DEF ScopeOf, ScopedApps
  <2>3. ShownIssues(f, seen) = FilteredIssues(seen.scans, seen.issues, f, {})
    BY <1>3, <2>2 DEF ShownIssues, InScopeOf, OfDimensions
  <2>4. FilteredIssues(seen.scans, seen.issues, f, {}) = seen.issues
    BY <1>3 DEF FilteredIssues, InPeriod, InScope, InGroups
  <2> QED
    BY <2>1, <2>3, <2>4
<1>6. lists.issues = {MappedIssue(r) : r \in content.issues}
  BY AllIssuesFetched
<1>7. lists.apps = AppsOf(content, HavingIssues(Sources))
  BY AllIssuesFetched
<1> HIDE DEF lists
<1>8. b.issues = {MappedIssue(r) : r \in HeldBy(Selected(f))}
  BY <1>2, <1>5, <1>6, MappedKeeps DEF OfSources, HeldBy
<1>9. ASSUME NEW a \in b.apps
      PROVE  \E c \in Catalog : c.source \in Selected(f) /\ a = CountedApp(content, c)
  <2>1. a \in AppsOf(content, HavingIssues(Sources)) /\ a.source \in Selected(f)
    BY <1>2, <1>4, <1>7 DEF OfSources
  <2>2. PICK c \in Catalog : a = CountedApp(content, c)
    BY <2>1 DEF AppsOf
  <2> QED
    BY <2>1, <2>2, CountedAppIs
<1> QED
  BY <1>8, <1>9

\* What the sources count is not more than what is listed, where each issue is listed.
LEMMA NoMoreThanListed ==
    ASSUME ContentInv, NEW R \in SUBSET content.issues, NEW T, IsFiniteSet(T),
           \A r \in R : MappedIssue(r) \in T
    PROVE  Cardinality(R) <= Cardinality(T)
<1> DEFINE mapped == {MappedIssue(r) : r \in R}
<1>1. Cardinality(mapped) = Cardinality(R)
  BY MappedCount
<1>2. mapped \in SUBSET T
  OBVIOUS
<1> HIDE DEF mapped
<1> QED
  BY <1>1, <1>2, PartSize

LEMMA ChartsAddUp ==
    ASSUME ContentInv, NEW f, NEW b,
           b.issues = {MappedIssue(r) : r \in HeldBy(Selected(f))},
           \A a \in b.apps : \E c \in Catalog : c.source \in Selected(f) /\ a = CountedApp(content, c)
    PROVE  ChartsAgree(f, b)
<1> DEFINE sources == Selected(f)
           heat == Heatmap(b.scans, b.issues)
           statuses == StatusDistribution(b.issues)
<1>1. IsFiniteSet(b.issues)
  <2>1. HeldBy(sources) \in SUBSET content.issues
    BY DEF HeldBy
  <2> QED
    BY <2>1, MappedCount
<1>2. \A r \in HeldBy(sources) : r \in content.issues /\ MappedIssue(r) \in b.issues
  BY DEF HeldBy
<1>3. ASSUME NEW lost, NEW call
      PROVE  HeldBy(Answers(sources, lost, call)) \subseteq HeldBy(sources)
  BY DEF HeldBy, Answers
<1>4. ASSUME NEW lost, NEW l \in Levels, NEW t \in Technologies
      PROVE  RiskHeatmap(sources, lost)[l][t] <= heat[l][t]
  <2> DEFINE R == {r \in HeldBy(Answers(sources, lost, <<"cell", l, t>>)) :
                      r.severity = l /\ r.words = {t}}
             T == {i \in {j \in b.issues : j.severity = l} : ResolvedTechnology(i, b.scans) = t}
  <2>1. RiskHeatmap(sources, lost)[l][t] = Cardinality(R)
    BY DEF RiskHeatmap, HowMany
  <2>2. heat[l][t] = Cardinality(T)
    BY DEF Heatmap, ByTechnology, HowMany
  <2>3. ASSUME NEW r \in R PROVE MappedIssue(r) \in T
    <3>1. MappedIssue(r) \in b.issues
      BY <1>2, <1>3
    <3>2. MappedIssue(r).severity = l
      BY LevelsAreRead DEF MappedIssue
    <3>3. MappedIssue(r).words = {t}
      BY DEF MappedIssue
    <3>4. NormalizedTechnology({t}) = t /\ t # "UNKNOWN"
      BY WholeName DEF Technologies
    <3>5. ResolvedTechnology(MappedIssue(r), b.scans) = t
      BY <3>3, <3>4 DEF ResolvedTechnology
    <3> QED
      BY <3>1, <3>2, <3>5
  <2>4. R \in SUBSET content.issues
    BY <1>2, <1>3
  <2>5. IsFiniteSet(T)
    <3>1. T \in SUBSET b.issues
      OBVIOUS
    <3> HIDE DEF T
    <3> QED
      BY <1>1, <3>1, PartSize
  <2> HIDE DEF R, T, heat
  <2> QED
    BY <2>1, <2>2, <2>3, <2>4, <2>5, NoMoreThanListed
<1>5. ASSUME NEW lost, NEW s \in DOMAIN statuses
      PROVE  CountedStatuses(sources, lost)[s] <= statuses[s]
  <2> DEFINE R == {r \in HeldBy(Answers(sources, lost, <<"status", s>>)) : r.status = StatusWord[s]}
             T == {i \in b.issues : i.status \in ChartStatuses[s]}
  <2>1. s \in {"Open", "Fixed", "InProgress", "Noise"}
    BY DEF StatusDistribution, ChartStatuses
  <2>2. StatusWord[s] \in ChartStatuses[s] /\ s \in DOMAIN StatusWord
    BY <2>1 DEF StatusWord, ChartStatuses, Resolved
  <2>3. CountedStatuses(sources, lost)[s] = Cardinality(R)
    BY <2>2 DEF CountedStatuses, HowMany
  <2>4. statuses[s] = Cardinality(T)
    BY DEF StatusDistribution, HowMany
  <2>5. ASSUME NEW r \in R PROVE MappedIssue(r) \in T
    BY <1>2, <1>3, <2>2, MappedKeeps
  <2>6. R \in SUBSET content.issues
    BY <1>2, <1>3
  <2>7. IsFiniteSet(T)
    <3>1. T \in SUBSET b.issues
      OBVIOUS
    <3> HIDE DEF T
    <3> QED
      BY <1>1, <3>1, PartSize
  <2> HIDE DEF R, T, statuses
  <2> QED
    BY <2>3, <2>4, <2>5, <2>6, <2>7, NoMoreThanListed
<1>6. ASSUME NEW lost \in {{}, {<<s, <<"status", "Open">> >> : s \in sources}}, NEW a \in b.apps
      PROVE  TopApps(sources, lost)[a.id] = a.total
  <2>1. PICK c \in Catalog : c.source \in sources /\ a = CountedApp(content, c)
    OBVIOUS
  <2>2. a.id = c.id /\ a.total = Cardinality({r \in content.issues : r.app = c.id})
    BY <2>1 DEF CountedApp
  <2>3. Answers(sources, lost, <<"list", "apps">>) = sources
    BY DEF Answers
  <2>4. Answers(sources, lost, <<"app", c.id>>) = sources
    BY DEF Answers
  <2>5. c.id \in IdsOf({d \in Catalog : d.source \in Answers(sources, lost, <<"list", "apps">>)})
    BY <2>1, <2>3 DEF IdsOf
  <2>6. TopApps(sources, lost)[c.id] = Cardinality({r \in HeldBy(sources) : r.app = c.id})
    BY <2>4, <2>5 DEF TopApps, HowMany
  <2>7. \A r \in content.issues : r.app = c.id => r.source = c.source
    BY ContentsAssumption DEF ContentInv, ContentOK, AtHome
  <2>8. {r \in HeldBy(sources) : r.app = c.id} = {r \in content.issues : r.app = c.id}
    BY <2>1, <2>7 DEF HeldBy
  <2> QED
    BY <2>2, <2>6, <2>8
<1> HIDE DEF heat, statuses
<1> QED
  BY <1>4, <1>5, <1>6 DEF ChartsAgree, heat, statuses

----------------------------------------------------------------------------
(* Every view is made of lists that are typed. *)

Typed(lists) ==
    DatedIssues(lists.issues) /\ DatedScans(lists.scans) /\ IsFiniteSet(lists.apps)

FiguresInv ==
    /\ StatisticsInv
    /\ base # None => Typed(base)
    /\ request # None => DatedScans(request.scans) /\ IsFiniteSet(request.apps)
    /\ view # None => \E lists : \E n \in Nat :
                         Typed(lists) /\ view.bundle = Bundle(view.filter, lists, n)

LEMMA PartsAreDated ==
    ASSUME NEW S, NEW T \in SUBSET S
    PROVE  /\ DatedIssues(S) => DatedIssues(T)
           /\ DatedScans(S) => DatedScans(T)
           /\ IsFiniteSet(S) => IsFiniteSet(T)
BY FS_Subset DEF DatedIssues, DatedScans

LEMMA AnswersAreTyped ==
    ASSUME ContentInv
    PROVE  /\ \A ids : DatedIssues(IssuesOf(content, ids))
           /\ \A sources : DatedScans(ScansOf(content, sources)) /\ IsFiniteSet(AppsOf(content, sources))
<1>1. ASSUME NEW ids PROVE DatedIssues(IssuesOf(content, ids))
  <2>1. {r \in content.issues : r.app \in ids} \in SUBSET content.issues
    OBVIOUS
  <2>2. IsFiniteSet(IssuesOf(content, ids))
    BY <2>1, MappedCount DEF IssuesOf
  <2>3. ASSUME NEW raw \in content.issues
        PROVE  LET i == MappedIssue(raw)
               IN  i.severity \in Severities /\ i.opened \in Nat /\ i.closed \in Nat /\ i.days \in Nat
    <3>1. raw.opened \in Nat /\ raw.closed \in Nat /\ raw.updated \in Nat /\ raw.days \in Nat
      BY DEF ContentInv, ContentOK
    <3> QED
      BY <3>1, SeverityIsKnown DEF MappedIssue
  <2> QED
    BY <2>2, <2>3 DEF IssuesOf, DatedIssues
<1>2. ASSUME NEW sources PROVE DatedScans(ScansOf(content, sources))
  <2> DEFINE mine == {r \in content.scans : r.source \in sources}
             f == [r \in mine |-> MappedScan(r)]
  <2>1. ScansOf(content, sources) = {f[r] : r \in mine} /\ DOMAIN f = mine
    BY DEF ScansOf
  <2>2. IsFiniteSet(mine)
    BY FS_Subset DEF ContentInv, ContentOK
  <2>3. \A raw \in content.scans :
           MappedScan(raw).severity \in Severities /\ MappedScan(raw).created \in Nat
    BY SeverityIsKnown DEF MappedScan, ContentInv, ContentOK
  <2>4. \A s \in ScansOf(content, sources) : s.severity \in Severities /\ s.created \in Nat
    BY <2>3 DEF ScansOf
  <2> HIDE DEF mine, f
  <2>5. IsFiniteSet({f[r] : r \in mine})
    BY <2>1, <2>2, ImageSize
  <2> QED
    BY <2>1, <2>4, <2>5 DEF DatedScans
<1>3. ASSUME NEW sources PROVE IsFiniteSet(AppsOf(content, sources))
  <2> DEFINE mine == {a \in Catalog : a.source \in sources}
             f == [a \in mine |-> CountedApp(content, a)]
  <2>1. AppsOf(content, sources) = {f[r] : r \in mine} /\ DOMAIN f = mine
    BY DEF AppsOf
  <2>2. IsFiniteSet(mine)
    BY FS_Subset, ContentsAssumption
  <2> HIDE DEF mine, f
  <2>3. IsFiniteSet({f[r] : r \in mine})
    BY <2>1, <2>2, ImageSize
  <2> QED
    BY <2>1, <2>3
<1> QED
  BY <1>1, <1>2, <1>3

LEMMA UnionsAreFinite ==
    ASSUME NEW F, IsFiniteSet(F), \A c \in F : ContentOK(c)
    PROVE  /\ IsFiniteSet(UNION {c.issues : c \in F})
           /\ IsFiniteSet(UNION {c.scans : c \in F})
<1> DEFINE issues == [c \in F |-> c.issues]
           scans == [c \in F |-> c.scans]
<1>1. /\ IsFiniteSet({issues[c] : c \in DOMAIN issues})
      /\ IsFiniteSet({scans[c] : c \in DOMAIN scans})
  <2>1. DOMAIN issues = F /\ DOMAIN scans = F
    OBVIOUS
  <2> HIDE DEF issues, scans
  <2> QED
    BY <2>1, ImageSize
<1>2. /\ \A S \in {issues[c] : c \in DOMAIN issues} : IsFiniteSet(S)
      /\ \A S \in {scans[c] : c \in DOMAIN scans} : IsFiniteSet(S)
  BY DEF ContentOK
<1>3. /\ {issues[c] : c \in DOMAIN issues} = {c.issues : c \in F}
      /\ {scans[c] : c \in DOMAIN scans} = {c.scans : c \in F}
  OBVIOUS
<1> HIDE DEF issues, scans
<1>4. IsFiniteSet(UNION {issues[c] : c \in DOMAIN issues})
  BY <1>1, <1>2, FS_UNION
<1>5. IsFiniteSet(UNION {scans[c] : c \in DOMAIN scans})
  BY <1>1, <1>2, FS_UNION
<1> QED
  BY <1>3, <1>4, <1>5

LEMMA MergedIsTyped ==
    ASSUME NEW F, IsFiniteSet(F), \A c \in F : ContentOK(c), NEW at \in [Reads -> F],
           NEW sources \in SUBSET Sources, NEW lost
    PROVE  Typed(ListsMerged(at, sources, lost))
<1> DEFINE lists == ListsMerged(at, sources, lost)
           raws == UNION {c.issues : c \in F}
           scans == UNION {c.scans : c \in F}
           mapped == [r \in raws |-> MappedIssue(r)]
           mappedScans == [r \in scans |-> MappedScan(r)]
           counted == [a \in Catalog |-> CountedApp(at[<<"apps", a.source>>], a)]
<1>1. /\ \A x : x \in lists.issues <=>
                   \E s \in sources : \E r \in ListedIssues(at, s, lost) : x = MappedIssue(r)
      /\ \A x : x \in lists.scans <=> \E s \in sources : x \in ScansOf(at[<<"scans", s>>], {s})
      /\ \A x : x \in lists.apps <=> \E s \in sources : x \in AppsOf(at[<<"apps", s>>], {s})
  BY MergedIs
<1>2. \A s \in sources : at[<<"scans", s>>] \in F
  BY DEF Reads
<1>3. /\ DOMAIN mapped = raws /\ DOMAIN mappedScans = scans /\ DOMAIN counted = Catalog
      /\ IsFiniteSet(raws) /\ IsFiniteSet(scans) /\ IsFiniteSet(Catalog)
  BY UnionsAreFinite, ContentsAssumption
<1> HIDE DEF lists
<1>4. ASSUME NEW i \in lists.issues
      PROVE  \E r \in raws : i = mapped[r]
  <2>1. PICK s \in sources : \E r \in ListedIssues(at, s, lost) : i = MappedIssue(r)
    BY <1>1
  <2>2. PICK r \in ListedIssues(at, s, lost) : i = MappedIssue(r)
    BY <2>1
  <2>3. PICK c \in F : r \in c.issues
    BY ListedAreHeld
  <2> QED
    BY <2>2, <2>3
<1>5. ASSUME NEW x \in lists.scans
      PROVE  \E r \in scans : x = mappedScans[r]
  <2>1. PICK s \in sources : x \in ScansOf(at[<<"scans", s>>], {s})
    BY <1>1
  <2>2. PICK r \in at[<<"scans", s>>].scans : x = MappedScan(r)
    BY <2>1 DEF ScansOf
  <2> QED
    BY <1>2, <2>2
<1>6. ASSUME NEW x \in lists.apps
      PROVE  \E a \in Catalog : x = counted[a]
  BY <1>1 DEF AppsOf
<1>7. ASSUME NEW r \in raws
      PROVE  /\ mapped[r].severity \in Severities /\ mapped[r].opened \in Nat
             /\ mapped[r].closed \in Nat /\ mapped[r].days \in Nat
  <2>1. PICK c \in F : r \in c.issues
    OBVIOUS
  <2>2. r.opened \in Nat /\ r.closed \in Nat /\ r.updated \in Nat /\ r.days \in Nat
    BY <2>1 DEF ContentOK
  <2> QED
    BY <2>2, SeverityIsKnown DEF MappedIssue
<1>8. ASSUME NEW r \in scans
      PROVE  mappedScans[r].severity \in Severities /\ mappedScans[r].created \in Nat
  BY SeverityIsKnown DEF MappedScan, ContentOK
<1> HIDE DEF raws, scans, mapped, mappedScans, counted
<1>9. IsFiniteSet({mapped[r] : r \in raws}) /\ lists.issues \in SUBSET {mapped[r] : r \in raws}
  <2>1. IsFiniteSet({mapped[r] : r \in raws})
    BY <1>3, ImageSize
  <2> QED
    BY <1>4, <2>1
<1>10. /\ IsFiniteSet({mappedScans[r] : r \in scans})
       /\ lists.scans \in SUBSET {mappedScans[r] : r \in scans}
  <2>1. IsFiniteSet({mappedScans[r] : r \in scans})
    BY <1>3, ImageSize
  <2> QED
    BY <1>5, <2>1
<1>11. IsFiniteSet({counted[a] : a \in Catalog}) /\ lists.apps \in SUBSET {counted[a] : a \in Catalog}
  <2>1. IsFiniteSet({counted[a] : a \in Catalog})
    BY <1>3, ImageSize
  <2> QED
    BY <1>6, <2>1
<1>12. IsFiniteSet(lists.issues) /\ IsFiniteSet(lists.scans) /\ IsFiniteSet(lists.apps)
  BY <1>9, <1>10, <1>11, FS_Subset
<1>13. DatedIssues(lists.issues)
  BY <1>4, <1>7, <1>12 DEF DatedIssues
<1>14. DatedScans(lists.scans)
  BY <1>5, <1>8, <1>12 DEF DatedScans
<1> QED
  BY <1>12, <1>13, <1>14 DEF Typed, lists

LEMMA VisibleIsTyped ==
    ASSUME NEW user, NEW f, NEW lists, Typed(lists)
    PROVE  Typed(Visible(user, f, lists))
<1> DEFINE seen == Visible(user, f, lists)
<1>1. /\ seen.issues \subseteq lists.issues /\ seen.scans \subseteq lists.scans
      /\ seen.apps \subseteq lists.apps
  BY VisibleIs DEF Permitted, OfSources
<1> HIDE DEF seen
<1>2. Typed(seen)
  BY <1>1, PartsAreDated DEF Typed
<1> QED
  BY <1>2 DEF seen

LEMMA BundleIsTyped ==
    ASSUME NEW f, NEW lists, Typed(lists), NEW n, NEW b, b = Bundle(f, lists, n)
    PROVE  /\ DatedIssues(b.issues) /\ DatedIssues(b.options) /\ DatedScans(b.scans)
           /\ IsFiniteSet(b.apps)
<1>1. b.issues \subseteq b.options
  BY DEF Bundle, OfDimensions
<1>2. b.options \subseteq lists.issues
  BY DEF Bundle, FilteredIssues, InScopeOf
<1>3. b.scans \subseteq lists.scans
  BY DEF Bundle, FilteredScans, ScopedScans
<1>4. b.apps \subseteq lists.apps
  BY DEF Bundle, CatalogApps
<1> QED
  BY <1>1, <1>2, <1>3, <1>4, PartsAreDated DEF Typed

LEMMA FiguresInit == PortInit => FiguresInv
  BY StatisticsInit DEF PortInit, FiguresInv

LEMMA FiguresNext == FiguresInv /\ [PortNext]_portVars => FiguresInv'
<1> SUFFICES ASSUME FiguresInv, [PortNext]_portVars PROVE FiguresInv'
  OBVIOUS
<1>1. StatisticsInv' /\ ContentInv /\ FetchInv
  BY StatisticsNext DEF FiguresInv, StatisticsInv, ColdInv, SourcesInv
<1>2. base' = base => (base # None => Typed(base))'
  BY DEF FiguresInv, Typed, DatedIssues, DatedScans
<1>3. request' = request =>
         (request # None => DatedScans(request.scans) /\ IsFiniteSet(request.apps))'
  BY DEF FiguresInv, DatedScans
<1>4. view' = view =>
         (view # None => \E lists : \E n \in Nat :
                            Typed(lists) /\ view.bundle = Bundle(view.filter, lists, n))'
  BY DEF FiguresInv
<1>5. CASE UNCHANGED portVars
  BY <1>1, <1>2, <1>3, <1>4, <1>5 DEF portVars, FiguresInv
<1>6. ASSUME fetch # None, NEW down \in SUBSET Sources, NEW lost, NEW at \in [Reads -> fetch],
             FetchBase(down, lost, at)
      PROVE  FiguresInv'
  <2> DEFINE sources == WithIssues(at, Sources \ down, lost)
             lists == ListsMerged(at, sources, lost)
  <2>1. request' = request /\ view' = view /\ base' = lists
    BY <1>6 DEF FetchBase
  <2>2. sources \in SUBSET Sources
    BY DEF WithIssues
  <2>3. IsFiniteSet(fetch) /\ \A c \in fetch : ContentOK(c)
    BY <1>1, <1>6 DEF FetchInv
  <2> HIDE DEF sources
  <2>4. Typed(lists)
    BY <1>6, <2>2, <2>3, MergedIsTyped
  <2> HIDE DEF lists
  <2>5. Typed(base)'
    BY <2>1, <2>4 DEF Typed, DatedIssues, DatedScans
  <2> QED
    BY <1>1, <1>3, <1>4, <2>1, <2>5 DEF FiguresInv
<1>7. CASE BaseExpires
  BY <1>1, <1>3, <1>4, <1>7 DEF BaseExpires, FiguresInv
<1>8. ASSUME NEW user \in Users, NEW f \in Filters, BuildWarm(user, f)
      PROVE  FiguresInv'
  <2>1. base # None /\ base' = base /\ request' = request
    BY <1>8 DEF BuildWarm
  <2>2. PICK answering \in MayAnswer(f) :
           view' = [user |-> user, filter |-> f, path |-> "warm",
                    whole |-> base = Fetched(Sources), missed |-> missed,
                    bundle |-> Bundle(f, Visible(user, f, base), Counted(f, answering))]
    BY <1>8 DEF BuildWarm, Shows
  <2>3. Typed(Visible(user, f, base))
    BY <2>1, VisibleIsTyped DEF FiguresInv
  <2>4. Counted(f, answering) \in Nat
    BY <1>1, CountedIsNatural
  <2>5. view'.bundle = Bundle(view'.filter, Visible(user, f, base), Counted(f, answering))
    BY <2>2
  <2>6. \E lists : \E n \in Nat : Typed(lists) /\ view'.bundle = Bundle(view'.filter, lists, n)
    BY <2>3, <2>4, <2>5
  <2>7. (\E lists : \E n \in Nat : Typed(lists) /\ view.bundle = Bundle(view.filter, lists, n))'
    BY <2>6
  <2> QED
    BY <1>1, <1>2, <1>3, <2>1, <2>7 DEF FiguresInv
<1>9. ASSUME NEW user \in Users, NEW f \in Filters, NEW lost \in ListLosses,
             ColdCatalog(user, f, lost)
      PROVE  FiguresInv'
  <2> DEFINE apps == AppsOf(content, Kept(lost, "apps", Selected(f)))
             scans == ScansOf(content, Kept(lost, "scans", Selected(f)))
  <2>1. /\ request'.apps = Permitted(user, apps) /\ request'.scans = Permitted(user, scans)
        /\ base' = base /\ view' = view
    BY <1>9 DEF ColdCatalog
  <2>2. IsFiniteSet(apps) /\ DatedScans(scans)
    BY <1>1, AnswersAreTyped
  <2> HIDE DEF apps, scans
  <2>3. IsFiniteSet(Permitted(user, apps)) /\ DatedScans(Permitted(user, scans))
    BY <2>2, PartsAreDated DEF Permitted
  <2>4. (DatedScans(request.scans) /\ IsFiniteSet(request.apps))'
    BY <2>1, <2>3 DEF DatedScans
  <2> QED
    BY <1>1, <1>2, <1>4, <2>1, <2>4 DEF FiguresInv
<1>10. ASSUME NEW lostApps \in IssueLosses, ColdIssues(lostApps)
       PROVE  FiguresInv'
  <2>1. request # None /\ request' = None /\ base' = base
    BY <1>10 DEF ColdIssues
  <2>2. PICK ids, answering, whole, lacking, lists :
           /\ lists = [issues |-> Permitted(request.user, IssuesOf(content, ids)), scans |-> request.scans,
                       apps |-> request.apps, groups |-> request.groups, stats |-> None]
           /\ view' = [user |-> request.user, filter |-> request.filter, path |-> "cold",
                       whole |-> whole, missed |-> lacking,
                       bundle |-> Bundle(request.filter, lists, Counted(request.filter, answering))]
    BY <1>10 DEF ColdIssues, Shows
  <2>3. DatedIssues(IssuesOf(content, ids))
    BY <1>1, AnswersAreTyped
  <2>4. DatedIssues(lists.issues)
    BY <2>2, <2>3, PartsAreDated DEF Permitted
  <2>5. Typed(lists)
    BY <2>1, <2>2, <2>4 DEF Typed, FiguresInv
  <2>6. PICK n \in Nat : n = Counted(request.filter, answering)
    BY <1>1, CountedIsNatural
  <2>7. view'.bundle = Bundle(view'.filter, lists, n)
    BY <2>2, <2>6
  <2>8. (\E ls : \E m \in Nat : Typed(ls) /\ view.bundle = Bundle(view.filter, ls, m))'
    BY <2>5, <2>7
  <2> QED
    BY <1>1, <1>2, <2>1, <2>8 DEF FiguresInv
<1>11. CASE StartFetch \/ SourceChanges
  <2>1. request' = request /\ base' = base /\ view' = view
    BY <1>11 DEF StartFetch, SourceChanges, IssueFixed, IssueRemoved, ScanRemoved, Changes
  <2> QED
    BY <1>1, <1>2, <1>3, <1>4, <2>1 DEF FiguresInv
<1> QED
  BY <1>5, <1>6, <1>7, <1>8, <1>9, <1>10, <1>11 DEF PortNext, Building

LEMMA FiguresSafety == PortSpec => []FiguresInv
  BY FiguresInit, FiguresNext, PTL DEF PortSpec

(* The functions of asoc_read_service.py that count the same lists in different ways, and    *)
(* the Count API where a view is of everything, do not contradict each other: the sums of a  *)
(* chart are the totals beside it, for every catalog, content, user and filter.              *)
THEOREM FiguresAddUp == PortSpec => []FiguresAgree
<1>1. FiguresInv => FiguresAgree
  <2> DEFINE f == view.filter
             b == view.bundle
  <2> SUFFICES ASSUME FiguresInv, Built
               PROVE  /\ CountsAgree(f, b) /\ GroupsAgree(b) /\ SeriesAgree(b) /\ WorkbenchAgrees(b)
                      /\ view.whole /\ view.user.admin /\ ~Scoped(f) /\ ~OnData(f)
                            => ChartsAgree(f, b)
    BY DEF FiguresAgree
  <2>1. PICK lists : \E n \in Nat : Typed(lists) /\ b = Bundle(f, lists, n)
    BY DEF FiguresInv, Built
  <2>2. PICK n \in Nat : b = Bundle(f, lists, n)
    BY <2>1
  <2> HIDE DEF f, b
  <2>3. /\ DatedIssues(b.issues) /\ DatedIssues(b.options) /\ DatedScans(b.scans)
        /\ IsFiniteSet(b.apps)
    BY <2>1, <2>2, BundleIsTyped
  <2>4. CountsAgree(f, b) /\ GroupsAgree(b) /\ SeriesAgree(b) /\ WorkbenchAgrees(b)
    BY <2>3, <2>2, CountsAddUp, GroupsAddUp, SeriesAddUp, WorkbenchAddsUp
  <2>5. ASSUME view.whole, view.user.admin, ~Scoped(f), ~OnData(f)
        PROVE  ChartsAgree(f, b)
    <3>1. view.path # "cold"
      BY <2>5 DEF FiguresInv, StatisticsInv, UnscopedIsWarm, Built, f
    <3>2. PICK user \in Users, g \in Filters :
             user = view.user /\ g = view.filter /\ base # None /\ WarmViewIs(user, g)
      BY <3>1 DEF Built, FiguresInv, StatisticsInv, WarmViewInv
    <3>3. PICK answering : b = Bundle(f, Visible(user, f, base), Counted(f, answering))
      BY <3>2 DEF WarmViewIs, f, b
    <3>4. base = Fetched(Sources) /\ user.admin
      BY <2>5, <3>2 DEF WarmViewIs
    <3>5. ContentInv
      BY DEF FiguresInv, StatisticsInv, ColdInv, SourcesInv
    <3>6. /\ b.issues = {MappedIssue(r) : r \in HeldBy(Selected(f))}
          /\ \A a \in b.apps : \E c \in Catalog : c.source \in Selected(f) /\ a = CountedApp(content, c)
      BY <2>5, <3>3, <3>4, <3>5, UnscopedShows
    <3> QED
      BY <3>5, <3>6, ChartsAddUp
  <2> QED
    BY <2>4, <2>5
<1> QED
  BY <1>1, FiguresSafety, PTL
=============================================================================
