---------------------------- MODULE DataSources -----------------------------
(***************************************************************************)
(* The table of data sources: its import from the environment at start-up, *)
(* the administrators' edits, the probes that look up who owns an API key, *)
(* and the views that ask every source and tag what each one answers.      *)
(* Administrators, probes, views and start-ups of several worker processes *)
(* share the table and nothing else.                                       *)
(***************************************************************************)
EXTENDS Integers, Sequences, FiniteSets, SequencesExt

CONSTANTS
    SourceIds,      \* uuids of rows
    Keys,           \* pairs of a URL and an API key
    EnvKeys,        \* the endpoints of ASOC_ENDPOINTS_JSON, in order
    EnvIds,         \* the ids "env-<index>" that list_all gives them
    Booters,        \* worker processes that start
    Refreshers,     \* requests that refresh identities
    Views,          \* requests that merge the answers of the sources
    Selections,     \* values of data_source_ids; <<>> selects every source
    MaxSelected,    \* _MAX_DATA_SOURCE_IDS
    Nobody,         \* no row, no owner
    UnknownSource,  \* the tag "unknown-<index>"
    MaxBoots,       \* bound on start-ups
    MaxEdits        \* bound on the administrators' changes

ASSUME DataSourcesAssumption ==
    /\ EnvKeys \in Seq(Keys) /\ EnvIds \in Seq(STRING) /\ Len(EnvIds) = Len(EnvKeys)
    /\ Nobody \notin Keys /\ Nobody \notin Booters
    /\ IsFiniteSet(SourceIds) /\ UnknownSource \notin SourceIds \cup ToSet(EnvIds)
    /\ MaxSelected \in Nat \ {0} /\ MaxBoots \in Nat /\ MaxEdits \in Nat

VARIABLES
    sources,        \* table data_sources
    had,            \* the keys each source has had since it was created
    boot,           \* bootstrap_from_env of each process
    probing,        \* per refresh request, the keys it probes
    view,           \* per view, what it read and what it merged
    boots,          \* start-ups so far
    edits           \* administrators' changes so far

srcVars == <<sources, had, boot, probing, view, boots, edits>>

(* owner is the identity last written, fresh holds until the TTL has passed; by is the *)
(* process that imported the row, and Nobody when an administrator wrote its key.      *)
Source == [key : Keys, enabled : BOOLEAN, owner : Keys \cup {Nobody},
           fresh : BOOLEAN, by : Booters \cup {Nobody}]

ASSUME NobodyAssumption == Nobody \notin Source

Entry == [id : SourceIds \cup ToSet(EnvIds), key : Keys]

Boot == [pc : {"down", "lookup", "insert", "done"}, next : 1..Len(EnvKeys) + 1,
         imports : BOOLEAN]

BootDown == [pc |-> "down", next |-> 1, imports |-> FALSE]

(* A list, or what a selection leaves of one, each entry at its place in the list *)
Places == DOMAIN EnvKeys \cup 1..Cardinality(SourceIds)

Entries == UNION {[places -> Entry] : places \in SUBSET Places}

View == [kind : {"list", "base"}, pc : {"idle", "tagging", "fetching", "done"},
         services : Entries, tags : Entries,
         items : SUBSET [key : Keys, tag : SourceIds \cup ToSet(EnvIds) \cup {UnknownSource}]]

IdleView == [kind |-> "list", pc |-> "idle", services |-> <<>>, tags |-> <<>>,
             items |-> {}]

AdminSource(key) ==
    [key |-> key, enabled |-> TRUE, owner |-> Nobody, fresh |-> FALSE, by |-> Nobody]

(* A row has its columns whoever writes it last: import, administrator or probe. *)
SrcTypeOK ==
    /\ \A id \in SourceIds : sources[id] = Nobody \/ sources[id] \in Source
    /\ had \in [SourceIds -> SUBSET Keys]
    /\ boot \in [Booters -> Boot]
    /\ probing \in [Refreshers -> [SourceIds -> Keys \cup {Nobody}]]
    /\ view \in [Views -> View]
    /\ boots \in 0..MaxBoots /\ edits \in 0..MaxEdits

(* The table is empty, or holds what administrators added to it before. *)
SrcInit ==
    /\ \E filled \in SUBSET SourceIds : \E keys \in [filled -> Keys] :
          /\ sources = [id \in SourceIds |->
                IF id \in filled THEN AdminSource(keys[id]) ELSE Nobody]
          /\ had = [id \in SourceIds |-> IF id \in filled THEN {keys[id]} ELSE {}]
    /\ boot = [p \in Booters |-> BootDown]
    /\ probing = [q \in Refreshers |-> [id \in SourceIds |-> Nobody]]
    /\ view = [v \in Views |-> IdleView]
    /\ boots = 0 /\ edits = 0

----------------------------------------------------------------------------
(* The table *)

Stored == {id \in SourceIds : sources[id] # Nobody}

Enabled == {id \in Stored : sources[id].enabled}

HasKey(key) == \E id \in Stored : sources[id].key = key

NewSource(id, key, by) ==
    /\ had[id] = {}
    /\ sources' = [sources EXCEPT ![id] =
          [key |-> key, enabled |-> TRUE, owner |-> Nobody,
           fresh |-> FALSE, by |-> by]]
    /\ had' = [had EXCEPT ![id] = {key}]

(* ORDER BY label: labels are edited freely and need not differ, so any order occurs. *)
Listings == SetToSeqs(Enabled)

----------------------------------------------------------------------------
(* bootstrap_from_env: a count, then a lookup and an INSERT per endpoint *)

BootCount(p) ==
    /\ boot[p].pc = "down" /\ boots < MaxBoots
    /\ boots' = boots + 1
    /\ boot' = [boot EXCEPT ![p] =
          [pc |-> IF Stored # {} THEN "done" ELSE "lookup", next |-> 1,
           imports |-> Stored = {}]]
    /\ UNCHANGED <<sources, had, probing, view, edits>>

BootLookup_Blind(p) ==
    /\ boot[p].pc = "lookup"
    /\ boot' = [boot EXCEPT ![p].pc = IF boot[p].next > Len(EnvKeys) THEN "done"
                                      ELSE "insert"]
    /\ UNCHANGED <<sources, had, probing, view, boots, edits>>

(* get_data_source_by_url_and_key for the next endpoint, or the end of the loop *)
BootLookup(p) ==
    /\ boot[p].pc = "lookup"
    /\ boot' = IF boot[p].next > Len(EnvKeys) THEN [boot EXCEPT ![p].pc = "done"]
               ELSE IF HasKey(EnvKeys[boot[p].next]) THEN [boot EXCEPT ![p].next = @ + 1]
               ELSE [boot EXCEPT ![p].pc = "insert"]
    /\ UNCHANGED <<sources, had, probing, view, boots, edits>>

BootInsert(p) ==
    /\ boot[p].pc = "insert"
    /\ \E id \in SourceIds : NewSource(id, EnvKeys[boot[p].next], p)
    /\ boot' = [boot EXCEPT ![p].pc = "lookup", ![p].next = @ + 1]
    /\ UNCHANGED <<probing, view, boots, edits>>

(* The process ends in the middle of its import: the rest of the endpoints is never     *)
(* imported, since the next start-up counts those that were.  A process that has ended  *)
(* its import and starts anew is another member of Booters.                             *)
BootDies(p) ==
    /\ boot[p].pc \in {"lookup", "insert"}
    /\ boot' = [boot EXCEPT ![p] = BootDown]
    /\ UNCHANGED <<sources, had, probing, view, boots, edits>>

----------------------------------------------------------------------------
(* The administrators' routes.  update_endpoint and delete_endpoint look the row up for *)
(* the 404 and then run one statement, which finds no row when the row is gone.         *)

CreateSource(id, key) ==
    /\ edits < MaxEdits
    /\ NewSource(id, key, Nobody)
    /\ edits' = edits + 1
    /\ UNCHANGED <<boot, probing, view, boots>>

(* Neither the identity nor the time of its probe is reset when the key changes. *)
Edited(row, key, enabled) ==
    [row EXCEPT !.key = key, !.enabled = enabled,
                !.by = IF key = row.key THEN row.by ELSE Nobody]

EditSource(id, key, enabled) ==
    /\ edits < MaxEdits
    /\ id \in Stored
    /\ sources' = [sources EXCEPT ![id] = Edited(@, key, enabled)]
    /\ had' = [had EXCEPT ![id] = @ \cup {key}]
    /\ edits' = edits + 1
    /\ UNCHANGED <<boot, probing, view, boots>>

DeleteSource(id) ==
    /\ edits < MaxEdits
    /\ id \in Stored
    /\ sources' = [sources EXCEPT ![id] = Nobody]
    /\ edits' = edits + 1
    /\ UNCHANGED <<had, boot, probing, view, boots>>

----------------------------------------------------------------------------
(* refresh_all_api_user_info, and refresh_stale_identities when the sidebar asks.  Each *)
(* task reads its row right after the list was read, and writes after its answer.       *)

InFlight(q) == {id \in SourceIds : probing[q][id] # Nobody}

ProbeTargets(onlyStale) == {id \in Enabled : ~onlyStale \/ ~sources[id].fresh}

StartRefresh(q, onlyStale) ==
    /\ InFlight(q) = {} /\ ProbeTargets(onlyStale) # {}
    /\ probing' = [probing EXCEPT ![q] = [id \in SourceIds |->
          IF id \in ProbeTargets(onlyStale) THEN sources[id].key ELSE Nobody]]
    /\ UNCHANGED <<sources, had, boot, view, boots, edits>>

Identified(row, owner) == [row EXCEPT !.owner = owner, !.fresh = TRUE]

Answered(q, id) == probing' = [probing EXCEPT ![q][id] = Nobody]

WriteIdentity_Upsert(q, id, owner) ==
    /\ id \in InFlight(q) /\ owner \in {probing[q][id], Nobody}
    /\ sources' = [sources EXCEPT ![id] =
          IF @ = Nobody
          THEN [key |-> probing[q][id], enabled |-> TRUE,
                owner |-> owner, fresh |-> TRUE, by |-> Nobody]
          ELSE Identified(@, owner)]
    /\ Answered(q, id)
    /\ UNCHANGED <<had, boot, view, boots, edits>>

WriteIdentity_Zipped(q, id, owner) ==
    /\ id \in InFlight(q) /\ owner \in {probing[q][i] : i \in InFlight(q)} \cup {Nobody}
    /\ sources' = [sources EXCEPT ![id] =
          IF @ = Nobody THEN Nobody ELSE Identified(@, owner)]
    /\ Answered(q, id)
    /\ UNCHANGED <<had, boot, view, boots, edits>>

(* A probe that failed writes as well: it blanks the identity, and the row is not stale. *)
WriteIdentity(q, id, owner) ==
    /\ id \in InFlight(q) /\ owner \in {probing[q][id], Nobody}
    /\ sources' = [sources EXCEPT ![id] =
          IF @ = Nobody THEN Nobody ELSE Identified(@, owner)]
    /\ Answered(q, id)
    /\ UNCHANGED <<had, boot, view, boots, edits>>

(* The UPDATE raised, or the request ended before its answer. *)
ProbeLost(q, id) ==
    /\ id \in InFlight(q)
    /\ Answered(q, id)
    /\ UNCHANGED <<sources, had, boot, view, boots, edits>>

TtlPasses(id) ==
    /\ id \in Stored /\ sources[id].fresh
    /\ sources' = [sources EXCEPT ![id].fresh = FALSE]
    /\ UNCHANGED <<had, boot, probing, view, boots, edits>>

----------------------------------------------------------------------------
(* _load_sources, aggregate_list and aggregate_base_data *)

EnvEntries == [i \in DOMAIN EnvKeys |-> [id |-> EnvIds[i], key |-> EnvKeys[i]]]

(* list_all: without an enabled row the endpoints of the environment answer, whether *)
(* the table is empty or every source in it was disabled.                            *)
Listed ==
    IF Enabled = {} THEN {EnvEntries}
    ELSE {[i \in DOMAIN s |-> [id |-> s[i], key |-> sources[s[i]].key]] : s \in Listings}

Allowed(selection) ==
    ToSet(SubSeq(selection, 1,
                 IF Len(selection) < MaxSelected THEN Len(selection) ELSE MaxSelected))

(* Entries keep their places, so that which tag belongs to which client can be said. *)
Loaded(list, selection) ==
    IF selection = <<>> THEN list
    ELSE Restrict(list, {i \in DOMAIN list : list[i].id \in Allowed(selection)})

(* aggregate_list makes the clients and the tags from one list. *)
StartList(v, selection) ==
    /\ view[v].pc = "idle"
    /\ \E list \in Listed :
          view' = [view EXCEPT ![v] = [IdleView EXCEPT
             !.pc = "fetching", !.services = Loaded(list, selection),
             !.tags = Loaded(list, selection)]]
    /\ UNCHANGED <<sources, had, boot, probing, boots, edits>>

(* aggregate_base_data, which the cache calls for every source, reads the list for the *)
(* clients and again for the tags.                                                     *)
StartBase(v) ==
    /\ view[v].pc = "idle"
    /\ \E list \in Listed :
          view' = [view EXCEPT ![v] = [IdleView EXCEPT
             !.kind = "base", !.pc = "tagging", !.services = list]]
    /\ UNCHANGED <<sources, had, boot, probing, boots, edits>>

ReadTags(v) ==
    /\ view[v].pc = "tagging"
    /\ \E list \in Listed : view' = [view EXCEPT ![v].pc = "fetching", ![v].tags = list]
    /\ UNCHANGED <<sources, had, boot, probing, boots, edits>>

Tag(tags, i) == IF i \in DOMAIN tags THEN tags[i].id ELSE UnknownSource

TaggedItems_Shifted(services, tags, answered) ==
    {[key |-> services[i].key, tag |-> Tag(tags, Cardinality({j \in answered : j <= i}))]
        : i \in answered}

(* Whatever source i answered is tagged with the i-th tag; one that failed is skipped. *)
TaggedItems(services, tags, answered) ==
    {[key |-> services[i].key, tag |-> Tag(tags, i)] : i \in answered}

Merge(v) ==
    /\ view[v].pc = "fetching"
    /\ \E answered \in SUBSET DOMAIN view[v].services :
          view' = [view EXCEPT ![v] = [IdleView EXCEPT !.pc = "done",
             !.items = TaggedItems(view[v].services, view[v].tags, answered)]]
    /\ UNCHANGED <<sources, had, boot, probing, boots, edits>>

----------------------------------------------------------------------------
Booting(p) ==
    \/ BootCount(p)
    \/ BootLookup(p)
    \/ BootInsert(p)
    \/ BootDies(p)

Administering(id) ==
    \/ DeleteSource(id)
    \/ \E key \in Keys :
          \/ CreateSource(id, key)
          \/ \E enabled \in BOOLEAN : EditSource(id, key, enabled)

Probing(q) ==
    \/ \E onlyStale \in BOOLEAN : StartRefresh(q, onlyStale)
    \/ \E id \in SourceIds :
          \/ \E owner \in Keys \cup {Nobody} : WriteIdentity(q, id, owner)
          \/ ProbeLost(q, id)

Viewing(v) ==
    \/ \E selection \in Selections : StartList(v, selection)
    \/ StartBase(v)
    \/ ReadTags(v)
    \/ Merge(v)

SrcNext ==
    \/ \E p \in Booters : Booting(p)
    \/ \E id \in SourceIds : Administering(id) \/ TtlPasses(id)
    \/ \E q \in Refreshers : Probing(q)
    \/ \E v \in Views : Viewing(v)

SrcSpec == SrcInit /\ [][SrcNext]_srcVars

----------------------------------------------------------------------------
(* A start-up that found the table empty and came to the end of its loop has left no    *)
(* endpoint of the environment out, whoever created the source in the meantime; and one *)
(* process imports no credentials twice, though two processes may.                      *)
ImportsEachOnce ==
    /\ \A p \in Booters : boot[p].pc = "done" /\ boot[p].imports =>
          \A i \in DOMAIN EnvKeys : \E id \in SourceIds : EnvKeys[i] \in had[id]
    /\ \A a, b \in Stored : a # b /\ sources[a].by = sources[b].by =>
          sources[a].by = Nobody \/ sources[a].key # sources[b].key

(* An identity a source shows is the owner of a key this source has or once had,        *)
(* whatever was edited, deleted or created while its probe was under way.               *)
IdentityIsOwn ==
    \A id \in Stored : sources[id].owner \in had[id] \cup {Nobody}

(* What a view merges is what some of the sources it asked have answered, tagged with   *)
(* where it came from.  Only the base data may tag wrongly, when the list of sources    *)
(* changed between its two reads; and a tag is unknown only where the list became       *)
(* shorter.                                                                             *)
TagsAreTrue ==
    [][\A v \in Views : view[v].pc = "fetching" /\ view'[v].pc = "done" =>
          LET services == view[v].services  tags == view[v].tags  items == view'[v].items IN
          /\ \A item \in items : \E i \in DOMAIN services :
                /\ item.key = services[i].key
                /\ services = tags => item.tag = services[i].id
          /\ view[v].kind = "list" => services = tags
          /\ (\E item \in items : item.tag = UnknownSource) =>
                view[v].kind = "base" /\ Len(tags) < Len(services)
      ]_srcVars

(* A source that was deleted stays deleted: an answer that comes after finds no row. *)
NoSourceReturns ==
    [][\A id \in SourceIds :
          had[id] # {} /\ sources[id] = Nobody => sources'[id] = Nobody]_srcVars
=============================================================================
