------------------------------ MODULE Listing -------------------------------
(***************************************************************************)
(* How AsocReadService lists the issues or the scans of one data source:   *)
(* page by page with $top and $skip, application by application where the  *)
(* API has such lists and for the whole organisation where it has not,     *)
(* while the collection behind the API changes.                            *)
(***************************************************************************)
EXTENDS Integers, FiniteSets

CONSTANTS
    Apps, Items,    \* applications, and the issues or scans, by their ids
    AppOf,          \* the application of each item
    Orders,         \* how the API may order them: a number for each
    Top,            \* items of a full page
    MaxPages,       \* asoc_max_pages, the page limit where the code states none
    NoLimit,        \* the 10000 pages it states for one application
    MaxPageFaults,  \* bound on responses that raise
    MaxRemoteChanges   \* bound on items created or removed meanwhile

ASSUME ListingAssumption ==
    /\ IsFiniteSet(Apps) /\ IsFiniteSet(Items)
    /\ AppOf \in [Items -> Apps]
    /\ "catalog" \notin Apps /\ "org" \notin Apps
    /\ \A o \in Orders : /\ o \in [Apps \cup Items -> Int]
                         /\ \A x, y \in Apps \cup Items : o[x] = o[y] => x = y
    /\ Top \in Nat \ {0} /\ MaxPages \in Nat \ {0}
    /\ NoLimit \in Nat \ {0} /\ NoLimit * Top > Cardinality(Items)
    /\ Cardinality(Apps) < MaxPages * Top

VARIABLES
    kind,           \* "issues": list_issues; "scans": list_scans;
                    \* "scoped": list_issues_for_applications
    phase,          \* what the handler awaits
    paging,         \* _fetch_all_pages for each list that is asked
    result,
    order,          \* the order in which the API pages
    remote,         \* the items it holds
    stayed,         \* those that were there all the time
    pageFaults,     \* responses that raised
    created,        \* items created meanwhile
    removed         \* items removed meanwhile

listVars == <<kind, phase, paging, result, order, remote, stayed, pageFaults, created, removed>>

Lists == Apps \cup {"catalog", "org"}

(* What was listed: the items, and those of them that are there more than once *)
Nothing == [items |-> {}, twice |-> {}]

Paging == [pc : {"idle", "paging", "done", "failed"}, limit : Nat, pages : Nat, skip : Nat,
           length : Nat, items : SUBSET (Items \cup Apps), twice : SUBSET (Items \cup Apps)]

NotAsked == [pc |-> "idle", limit |-> 0, pages |-> 0, skip |-> 0,
             length |-> 0, items |-> {}, twice |-> {}]

Content(list) ==
    CASE list = "catalog" -> Apps
      [] list = "org"     -> remote
      [] OTHER            -> {i \in remote : AppOf[i] = list}

Asked(lists, limit) ==
    [list \in Lists |-> IF list \in lists
                        THEN [NotAsked EXCEPT !.pc = "paging", !.limit = limit]
                        ELSE paging[list]]

ListInit ==
    /\ kind \in {"issues", "scans", "scoped"}
    /\ order \in Orders
    /\ remote \in SUBSET Items
    /\ stayed = remote
    /\ \E selected \in SUBSET Apps :
          /\ kind # "scoped" => selected = {}
          /\ phase = IF kind = "scoped" THEN "apps" ELSE "catalog"
          /\ paging = [list \in Lists |->
                IF list \in selected THEN [NotAsked EXCEPT !.pc = "paging", !.limit = NoLimit]
                ELSE IF list = "catalog" /\ kind # "scoped"
                     THEN [NotAsked EXCEPT !.pc = "paging", !.limit = MaxPages]
                     ELSE NotAsked]
    /\ result = Nothing
    /\ pageFaults = 0 /\ created = {} /\ removed = {}

----------------------------------------------------------------------------
(* _fetch_all_pages *)

Position(list, x) == Cardinality({y \in Content(list) : order[y] < order[x]})

PageAt(list) ==
    {x \in Content(list) : Position(list, x) \in paging[list].skip .. paging[list].skip + Top - 1}

LastPage_Full(list) ==
    \/ Cardinality(PageAt(list)) <= Top
    \/ paging[list].pages + 1 = paging[list].limit

(* A page that is not full is the last one, and so is the one at the limit. *)
LastPage(list) ==
    \/ Cardinality(PageAt(list)) < Top
    \/ paging[list].pages + 1 = paging[list].limit

FetchPage(list) ==
    LET p == paging[list]
        page == PageAt(list)
    IN  /\ p.pc = "paging"
        /\ paging' = [paging EXCEPT ![list] =
              [p EXCEPT !.pc = IF LastPage(list) THEN "done" ELSE "paging",
                        !.pages = p.pages + 1, !.skip = p.skip + Top,
                        !.length = p.length + Cardinality(page),
                        !.items = p.items \cup page,
                        !.twice = p.twice \cup (p.items \cap page)]]
        /\ UNCHANGED <<kind, phase, result, order, remote, stayed, pageFaults, created, removed>>

(* What the pages before it brought is lost with the exception. *)
FetchRaises(list) ==
    /\ paging[list].pc = "paging" /\ pageFaults < MaxPageFaults
    /\ pageFaults' = pageFaults + 1
    /\ paging' = [paging EXCEPT ![list] = [NotAsked EXCEPT !.pc = "failed"]]
    /\ UNCHANGED <<kind, phase, result, order, remote, stayed, created, removed>>

----------------------------------------------------------------------------
(* The handlers *)

Goes(next, lists, limit) ==
    /\ phase' = next
    /\ paging' = Asked(lists, limit)
    /\ UNCHANGED <<kind, result, order, remote, stayed, pageFaults, created, removed>>

Returns(items) ==
    /\ phase' = "done"
    /\ result' = items
    /\ UNCHANGED <<kind, paging, order, remote, stayed, pageFaults, created, removed>>

Raises ==
    /\ phase' = "raised"
    /\ UNCHANGED <<kind, paging, result, order, remote, stayed, pageFaults, created, removed>>

Ended(lists) == \A list \in lists : paging[list].pc \in {"idle", "done", "failed"}

First == CHOOSE a \in Apps : \A b \in Apps : order[a] <= order[b]

(* list_applications has ended: its applications are asked next, the first one alone *)
(* where scans are listed, since the API may not know such lists.                    *)
AskApplications ==
    /\ phase = "catalog" /\ Ended({"catalog"})
    /\ IF paging["catalog"].items = {}
       THEN Goes("org", {"org"}, MaxPages)
       ELSE IF kind = "scans"
            THEN Goes("probe", {First}, 1)
            ELSE Goes("apps", paging["catalog"].items, NoLimit)

AskOthers ==
    /\ phase = "probe" /\ Ended({First})
    /\ IF paging[First].pc = "failed"
       THEN Goes("org", {"org"}, MaxPages)
       ELSE Goes("apps", paging["catalog"].items \ {First}, NoLimit)

Listed(list) == [items |-> paging[list].items, twice |-> paging[list].twice]

(* Those of the applications one after the other *)
AppLists ==
    LET Of(a) == paging[a].items
        all == UNION {Of(a) : a \in Apps}
    IN  [items |-> all,
         twice |-> UNION {paging[a].twice : a \in Apps}
                      \cup {i \in all : \E a, b \in Apps : a # b /\ i \in Of(a) \cap Of(b)}]

(* Scans that are in the lists of several applications, or twice in one, count once. *)
Distinct(list) == [list EXCEPT !.twice = {}]

(* The first page of the first application stands for all its scans.  An application *)
(* whose list raised is left out; when nothing is left the organisation is asked.    *)
CollectApplications ==
    /\ phase = "apps" /\ Ended(Apps)
    /\ IF AppLists.items = {} /\ kind # "scoped"
       THEN Goes("org", {"org"}, MaxPages)
       ELSE Returns(IF kind = "scans" THEN Distinct(AppLists) ELSE AppLists)

(* An organisation without issues cannot be told from an API that does not answer. *)
CollectOrganisation ==
    /\ phase = "org" /\ Ended({"org"})
    /\ IF \/ paging["org"].pc = "failed"
          \/ kind = "issues" /\ paging["org"].items = {}
       THEN Raises
       ELSE Returns(Listed("org"))

----------------------------------------------------------------------------
(* The API's collection: an item is created wherever its place in the order is. *)

Ongoing == phase \notin {"done", "raised"}

RemoteCreates(item) ==
    /\ Ongoing /\ Cardinality(created \cup removed) < MaxRemoteChanges
    /\ item \notin remote \cup removed
    /\ remote' = remote \cup {item}
    /\ created' = created \cup {item}
    /\ UNCHANGED <<kind, phase, paging, result, order, stayed, pageFaults, removed>>

RemoteRemoves(item) ==
    /\ Ongoing /\ Cardinality(created \cup removed) < MaxRemoteChanges
    /\ item \in remote
    /\ remote' = remote \ {item}
    /\ stayed' = stayed \ {item}
    /\ removed' = removed \cup {item}
    /\ UNCHANGED <<kind, phase, paging, result, order, pageFaults, created>>

----------------------------------------------------------------------------
Fetching(list) ==
    \/ FetchPage(list)
    \/ FetchRaises(list)

RemoteChanges == \E item \in Items : RemoteCreates(item) \/ RemoteRemoves(item)

ListNext ==
    \/ \E list \in Lists : Fetching(list)
    \/ AskApplications
    \/ AskOthers
    \/ CollectApplications
    \/ CollectOrganisation
    \/ RemoteChanges

ListSpec == ListInit /\ [][ListNext]_listVars

----------------------------------------------------------------------------
(* Whether the result comes from the organisation's list *)
FromOrganisation == paging["org"].pc = "done"

(* What a list may leave out even though nothing was removed while it was paged: an    *)
(* application that was not asked for or whose list raised; scans of the first         *)
(* application beyond one page; the organisation's list beyond the page limit.         *)
MayMiss(item) ==
    IF FromOrganisation
    THEN paging["org"].length >= MaxPages * Top
    ELSE \/ paging[AppOf[item]].pc # "done"
         \/ kind = "scans" /\ AppOf[item] = First /\ paging[First].length = Top

(* A list that returns has every item that was there all the time: pages neither       *)
(* overlap nor leave a gap, and an empty or short page ends nothing too early.  It      *)
(* counts an item twice only when one was created in front of it meanwhile, and a scan  *)
(* of an application's list never.                                                      *)
ListingLosesNothing ==
    phase = "done" =>
       /\ removed = {} => \A item \in stayed : item \in result.items \/ MayMiss(item)
       /\ created = {} \/ (kind = "scans" /\ ~FromOrganisation) => result.twice = {}
=============================================================================
