----------------------------- MODULE MCPortfolio ----------------------------
(***************************************************************************)
(* Listing and Portfolio on a small instance.  Portfolio takes each list   *)
(* as whole or lost, Listing says how one comes about: they share no       *)
(* variable, and the first state chooses which of them moves.              *)
(***************************************************************************)
EXTENDS Listing, Portfolio, TLC

CONSTANTS s1, s2, a1, a2, a3, g1, g2, i1, i2, i3, i4, i5, c1, c2, c3

VARIABLE moves

(* Listing: two applications, whose items alternate or not in the organisation's list *)
Homes == i1 :> a1 @@ i2 :> a1 @@ i3 :> a1 @@ i4 :> a2 @@ i5 :> a2

InOrder(ids) == [x \in {ids[n] : n \in DOMAIN ids} |-> CHOOSE n \in DOMAIN ids : ids[n] = x]

SomeOrders ==
    {InOrder(<<a1, a2, i1, i4, i2, i5, i3>>), InOrder(<<a1, a2, i1, i2, i3, i4, i5>>),
     InOrder(<<a2, a1, i4, i1, i5, i2, i3>>)}

(* Portfolio: two sources, one with two applications in different groups *)
ThreeApps ==
    {[id |-> a1, source |-> s1, group |-> g1, name |-> "shop", created |-> 10],
     [id |-> a2, source |-> s1, group |-> g2, name |-> "desk", created |-> NoDate],
     [id |-> a3, source |-> s2, group |-> g1, name |-> "desk", created |-> NoDate]}

Issue(id, source, app, name, group, severity, status, words) ==
    [id |-> id, source |-> source, app |-> app, appName |-> name, group |-> group,
     severity |-> severity, status |-> status, words |-> words, vulnerability |-> "v1",
     fixGroup |-> "f1", correlation |-> "k1", opened |-> 10, closed |-> NoDate,
     updated |-> 12, days |-> 0]

(* Issues that lack a name and a group, a technology, a date, a known severity *)
FiveIssues ==
    {Issue(i1, s1, a1, "shop", g1, "critical", "open", {"DAST"}),
     [Issue(i2, s1, a1, Missing, Missing, "moderate", "fixed", {}) EXCEPT
        !.vulnerability = "v2", !.opened = 45, !.updated = 50, !.days = 3],
     [Issue(i3, s1, a2, "desk", Missing, "severe", "noise", {"SCA"}) EXCEPT
        !.fixGroup = Missing, !.opened = NoDate],
     [Issue(i4, s2, a3, "desk", g1, "high", "new", {}) EXCEPT
        !.correlation = "k2", !.opened = 390],
     [Issue(i5, s2, a3, "desk", Missing, "low", "resolved", {"IAST"}) EXCEPT
        !.vulnerability = "v2", !.fixGroup = "f2", !.opened = 380, !.closed = 395]}

Scan(id, source, app, name, group, words, status, severity, day) ==
    [id |-> id, source |-> source, app |-> app, appName |-> name, group |-> group,
     typeWords |-> words, nameWords |-> {"SCA"}, status |-> status, severity |-> severity,
     created |-> day]

ThreeScans ==
    {Scan(c1, s1, a1, "shop", g1, {"DYNAMIC"}, "ready", "high", 12),
     Scan(c2, s1, a1, Missing, g1, {}, "running", Missing, 45),
     Scan(c3, s2, a3, "desk", g1, {"STATIC"}, "queued", "sev4", NoDate)}

SomeContents ==
    [issues : {FiveIssues} \cup {{i \in FiveIssues : i.id # id} : id \in {i1, i4}}, scans : {ThreeScans}]

AdminAndReader == {[admin |-> TRUE, groups |-> {}], [admin |-> FALSE, groups |-> {g1}]}

NoFilter ==
    [groups |-> {}, apps |-> {}, names |-> {}, technologies |-> {}, vulnerabilities |-> {},
     scanTypes |-> {}, scanStatuses |-> {}, from |-> NoDate, to |-> NoDate, sources |-> {}]

SomeFilters ==
    {NoFilter,
     [NoFilter EXCEPT !.sources = {s2}],
     [NoFilter EXCEPT !.groups = {g1}],
     [NoFilter EXCEPT !.names = {"desk"}],
     [NoFilter EXCEPT !.apps = {a1}, !.names = {"desk"}],
     [NoFilter EXCEPT !.groups = {g1}, !.apps = {a1, a2}, !.sources = {s1}],
     [NoFilter EXCEPT !.apps = {a3}],
     [NoFilter EXCEPT !.technologies = {"DAST", "SCA"}],
     [NoFilter EXCEPT !.technologies = {"SAST"}, !.groups = {g1}],
     [NoFilter EXCEPT !.vulnerabilities = {"v2"}, !.to = 100],
     [NoFilter EXCEPT !.scanTypes = {"SCA"}, !.technologies = {"SCA"}],
     [NoFilter EXCEPT !.scanTypes = {"DAST"}, !.scanStatuses = {"completed"}, !.from = 20]}

SomeListLosses == {{}, {<<"apps", s1>>}, {<<"scans", s2>>, <<"groups", s2>>}}

(* One list of two of a source, and the only one of the other *)
SomeIssueLosses == {{}, {a1, a3}}

----------------------------------------------------------------------------
PortfolioInit ==
    /\ moves \in {"listing", "portfolio"}
    /\ ListInit /\ PortInit
    /\ moves = "portfolio" =>
          kind = "issues" /\ remote = {} /\ order = InOrder(<<a1, a2, i1, i4, i2, i5, i3>>)
    /\ moves = "listing" => content = [issues |-> FiveIssues, scans |-> ThreeScans]

PortfolioNext ==
    \/ UNCHANGED <<portVars, moves>> /\ moves = "listing" /\ ListNext
    \/ UNCHANGED <<listVars, moves>> /\ moves = "portfolio" /\ PortNext

PortfolioSpec == PortfolioInit /\ [][PortfolioNext]_<<listVars, portVars, moves>>
=============================================================================
